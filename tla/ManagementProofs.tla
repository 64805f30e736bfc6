-------------------------- MODULE ManagementProofs --------------------------
(***************************************************************************)
(* What the owner is told and what he changes.  For every exchange rate,   *)
(* price and tender: the change recorded on a paid order is exact in riel  *)
(* and the nearest cent in dollars.  For every clock, time zone, period    *)
(* and page size: a report tells each sale of its period once, at the      *)
(* sale's own rate.  For any catalog and any number of managers and        *)
(* screens: a change of a product leaves alone what it does not name, and  *)
(* only overlapping updates deprive an account of its credential.          *)
(***************************************************************************)
EXTENDS SalesReports, TeamScreens, FiniteSetTheorems, TLAPS

\* Division of naturals, with the divisor a variable.
LEMMA DivisionBounds ==
    ASSUME NEW a \in Nat, NEW b \in Nat, b > 0
    PROVE  /\ a \div b \in Nat
           /\ b * (a \div b) <= a
           /\ a < b * (a \div b) + b
OBVIOUS

\* Rounding half up is off by at most half a cent, never short by as much.
LEMMA HalfUp ==
    ASSUME NEW owed \in Nat, NEW r \in Nat, r > 0
    PROVE  /\ ChangeUsd(owed, r) \in Nat
           /\ 2 * (ChangeUsd(owed, r) * r - owed) <= r
           /\ 2 * (owed - ChangeUsd(owed, r) * r) < r
<1> DEFINE k == (2 * owed + r) \div (2 * r)
<1>1. 2 * owed + r \in Nat /\ 2 * r \in Nat /\ 2 * r > 0
  OBVIOUS
<1>2. k \in Nat /\ (2 * r) * k <= 2 * owed + r /\ 2 * owed + r < (2 * r) * k + 2 * r
  BY <1>1, DivisionBounds
<1>3. (2 * r) * k = 2 * (k * r) /\ k * r \in Int
  BY <1>2
<1>4. 2 * (k * r - owed) <= r /\ 2 * (owed - k * r) < r
  BY <1>2, <1>3
<1> QED
  BY <1>2, <1>4 DEF ChangeUsd

\* Cutting a whole number of riel off to riel loses nothing.
LEMMA WholeRiel ==
    ASSUME NEW k \in Nat
    PROVE  ChangeKhr(100 * k) = k
BY DEF ChangeKhr

\* The sum of a whole number of riel and dollars at a whole-hundred rate.
LEMMA ValueWhole ==
    ASSUME NEW usd \in Nat, NEW khr \in Nat, NEW r \in Nat, RateAllowed(r)
    PROVE  \E q \in Nat : Value(usd, khr, r) = 100 * q
<1>1. PICK n \in Nat : r = 100 * n
  BY DEF RateAllowed, RateStep
<1>2. usd * n + khr \in Nat
  BY <1>1
<1>3. usd * r = 100 * (usd * n)
  BY <1>1
<1>4. Value(usd, khr, r) = 100 * (usd * n + khr)
  BY <1>1, <1>3 DEF Value
<1> QED
  BY <1>2, <1>4

\* So is the total of an order, in either currency.
LEMMA RequiredWhole ==
    ASSUME NEW row \in Row, RateAllowed(row.rate)
    PROVE  \E q \in Nat : Required(row) = 100 * q
<1>1. row.totalUsd \in Nat /\ row.totalKhr \in Nat /\ row.rate \in Nat
  BY DEF Row
<1>2. CASE row.currency = "khr"
  BY <1>1, <1>2 DEF Required
<1>3. CASE row.currency # "khr"
  <2>1. \E q \in Nat : Value(row.totalUsd, 0, row.rate) = 100 * q
    <3> DEFINE r == row.rate  usd == row.totalUsd
    <3>1. r \in Nat /\ usd \in Nat /\ 0 \in Nat /\ RateAllowed(r)
      BY <1>1
    <3> HIDE DEF r, usd
    <3>2. \E q \in Nat : Value(usd, 0, r) = 100 * q
      BY <3>1, ValueWhole
    <3> QED
      BY <3>2 DEF r, usd
  <2>2. Value(row.totalUsd, 0, row.rate) = Required(row)
    BY <1>1, <1>3 DEF Value, Required
  <2> QED
    BY <2>1, <2>2
<1> QED
  BY <1>2, <1>3
-----------------------------------------------------------------------------
(***************************************************************************)
(* The invariant is inductive once it records that rates in use are rates  *)
(* the owner may set: the whole-hundred step is what makes riel exact.     *)
(***************************************************************************)
RatesAllowed ==
    /\ RateAllowed(rate)
    /\ \A o \in Orders : order[o].status # "none" => RateAllowed(order[o].rate)

SettlementInv == TypeOK /\ RatesAllowed /\ RielChangeExact /\ DollarChangeNearest

\* No order is there to be settled at first.
LEMMA SettlementInit == Init => SettlementInv
<1> SUFFICES ASSUME Init PROVE SettlementInv
  OBVIOUS
<1> USE RateAssumption, InputsAssumption
<1>1. TypeOK
  BY DEF Init, TypeOK, Row, NoRow
<1>2. \A o \in Orders : order[o].status = "none"
  BY DEF Init, NoRow
<1>3. RatesAllowed
  BY <1>2 DEF Init, RatesAllowed
<1>4. RielChangeExact /\ DollarChangeNearest
  BY <1>2 DEF RielChangeExact, DollarChangeNearest, Paid
<1> QED
  BY <1>1, <1>3, <1>4 DEF SettlementInv

\* A confirmation records the change that its tender leaves.
LEMMA ConfirmKeepsInv ==
    ASSUME SettlementInv, NEW o \in Orders, NEW usd \in Nat, NEW khr \in Nat,
           ConfirmCash(o, usd, khr)
    PROVE  SettlementInv'
<1> DEFINE row == order[o]
           owed == Value(usd, khr, row.rate) - Required(row)
           paid == [row EXCEPT !.status = "paid", !.receivedUsd = usd, !.receivedKhr = khr,
                               !.changeUsd = ChangeUsd(owed, row.rate),
                               !.changeKhr = ChangeKhr(owed)]
<1>1. row \in Row /\ row.status = "pending_payment" /\ RateAllowed(row.rate)
  BY DEF SettlementInv, TypeOK, RatesAllowed, ConfirmCash, AwaitsPayment
<1>2. row.rate \in Nat /\ row.rate > 0
  BY <1>1, RateAssumption DEF Row, RateAllowed
<1>3. rate' = rate /\ order' = [order EXCEPT ![o] = paid]
  BY DEF ConfirmCash, AppliedRate
<1>4. Value(usd, khr, row.rate) >= Required(row)
  BY DEF ConfirmCash, Sufficient, AppliedRate
<1>5. PICK q \in Nat : owed = 100 * q
  <2>1. PICK a \in Nat : Value(usd, khr, row.rate) = 100 * a
    BY <1>1, <1>2, ValueWhole
  <2>2. PICK b \in Nat : Required(row) = 100 * b
    BY <1>1, RequiredWhole
  <2>3. a - b \in Nat /\ owed = 100 * (a - b)
    BY <1>4, <2>1, <2>2
  <2> QED
    BY <2>3
<1>6. owed \in Nat
  BY <1>5
<1>7. /\ ChangeUsd(owed, row.rate) \in Nat
      /\ 2 * (ChangeUsd(owed, row.rate) * row.rate - owed) <= row.rate
      /\ 2 * (owed - ChangeUsd(owed, row.rate) * row.rate) < row.rate
  BY <1>2, <1>6, HalfUp
<1>8. ChangeKhr(owed) \in Nat /\ 100 * ChangeKhr(owed) = owed
  BY <1>5, WholeRiel
<1> HIDE DEF owed
<1>9. paid \in Row
  BY <1>1, <1>7, <1>8 DEF Row
<1>10. /\ paid.rate = row.rate /\ paid.changeUsd = ChangeUsd(owed, row.rate)
       /\ paid.changeKhr = ChangeKhr(owed) /\ paid.status = "paid"
       /\ paid.receivedUsd = usd /\ paid.receivedKhr = khr
       /\ paid.currency = row.currency /\ paid.totalUsd = row.totalUsd
       /\ paid.totalKhr = row.totalKhr
  BY <1>1 DEF Row
<1>11. Value(paid.receivedUsd, paid.receivedKhr, paid.rate) - Required(paid) = owed
  BY <1>10 DEF owed, Required
<1> HIDE DEF paid
<1>12. order'[o] = paid /\ \A x \in Orders \ {o} : order'[x] = order[x]
  BY <1>3 DEF SettlementInv, TypeOK
<1>13. TypeOK'
  BY <1>3, <1>9 DEF SettlementInv, TypeOK
<1>14. RatesAllowed'
  BY <1>1, <1>3, <1>10, <1>12 DEF SettlementInv, RatesAllowed, RateAllowed
<1>15. RielChangeExact'
  BY <1>8, <1>10, <1>11, <1>12 DEF SettlementInv, RielChangeExact, Paid, Overpaid
<1>16. DollarChangeNearest'
  BY <1>7, <1>10, <1>11, <1>12 DEF SettlementInv, DollarChangeNearest, Paid, Overpaid
<1> QED
  BY <1>13, <1>14, <1>15, <1>16 DEF SettlementInv

\* New rates and new orders touch no settlement.
LEMMA SettlementStep == SettlementInv /\ [Next]_vars => SettlementInv'
<1> SUFFICES ASSUME SettlementInv, [Next]_vars PROVE SettlementInv'
  OBVIOUS
<1> USE InputsAssumption
<1>1. ASSUME NEW r \in OfferedRates, UpdateRate(r) PROVE SettlementInv'
  BY <1>1 DEF SettlementInv, TypeOK, RatesAllowed, RateAllowed, RielChangeExact,
              DollarChangeNearest, Paid, Overpaid, UpdateRate
<1>2. ASSUME NEW o \in Orders, NEW usd \in UsdTotals, NEW khr \in KhrTotals,
             NEW c \in {"usd", "khr"}, PlaceOrder(o, usd, khr, c)
      PROVE  SettlementInv'
  <2> DEFINE new == [NoRow EXCEPT !.status = "pending_payment", !.totalUsd = usd,
                        !.totalKhr = khr, !.currency = c, !.rate = rate]
  <2>1. new \in Row /\ new.status = "pending_payment" /\ new.rate = rate
    BY DEF Row, NoRow, SettlementInv, TypeOK
  <2>2. rate' = rate /\ order' = [order EXCEPT ![o] = new]
    BY <1>2 DEF PlaceOrder
  <2> HIDE DEF new
  <2>3. order'[o] = new /\ \A x \in Orders \ {o} : order'[x] = order[x]
    BY <2>2 DEF SettlementInv, TypeOK
  <2>4. TypeOK'
    BY <2>1, <2>2 DEF SettlementInv, TypeOK
  <2>5. RatesAllowed'
    BY <2>1, <2>2, <2>3 DEF SettlementInv, RatesAllowed, RateAllowed
  <2>6. RielChangeExact' /\ DollarChangeNearest'
    BY <2>1, <2>3 DEF SettlementInv, RielChangeExact, DollarChangeNearest, Paid, Overpaid
  <2> QED
    BY <2>4, <2>5, <2>6 DEF SettlementInv
<1>3. ASSUME NEW o \in Orders, NEW usd \in UsdTenders, NEW khr \in KhrTenders,
             ConfirmCash(o, usd, khr)
      PROVE  SettlementInv'
  <2>1. usd \in Nat /\ khr \in Nat
    OBVIOUS
  <2> QED
    BY <1>3, <2>1, ConfirmKeepsInv
<1>4. CASE UNCHANGED vars
  BY <1>4 DEF vars, SettlementInv, TypeOK, RatesAllowed, RateAllowed, RielChangeExact,
              DollarChangeNearest, Paid, Overpaid
<1> QED
  BY <1>1, <1>2, <1>3, <1>4 DEF Next

\* In every reachable state every row of orders is well formed and each paid
\* order's change is exact in riel and the nearest cent in dollars.
THEOREM SettlementCorrect ==
    Spec => [](TypeOK /\ RielChangeExact /\ DollarChangeNearest)
<1>1. SettlementInv => TypeOK /\ RielChangeExact /\ DollarChangeNearest
  BY DEF SettlementInv
<1> QED
  BY <1>1, SettlementInit, SettlementStep, PTL DEF Spec

\* The dollar amounts of a paid order's change are the nearest cents to what the
\* riel amounts say, at the rate the order was settled with.
THEOREM DollarChangeIsNearest == Spec => []DollarChangeNearest
BY SettlementCorrect, PTL

\* No later confirmation or rate change touches an order once it is paid.
THEOREM PaidOrderIsFinal == Spec => SettledOnce
<1>1. SettlementInv /\ [Next]_vars
      => [\A o \in Orders : Paid(o) => order'[o] = order[o]]_vars
  BY DEF SettlementInv, TypeOK, Next, UpdateRate, PlaceOrder, ConfirmCash,
         AwaitsPayment, Paid, vars
<1> QED
  BY <1>1, SettlementInit, SettlementStep, PTL DEF Spec, SettledOnce
-----------------------------------------------------------------------------
(* The calendar. *)

\* An instant belongs to the local days from a to b when it lies between the
\* first instant of a and the last one of b.
LEMMA InstantsOfDays ==
    ASSUME NEW t \in Int, NEW a \in Int, NEW b \in Int
    PROVE  /\ LocalDay(t) \in Int
           /\ Between(t, DayStart(a), DayEnd(b)) <=> LocalDay(t) \in a..b
BY CalendarAssumption DEF LocalDay, Between, DayStart, DayEnd

\* The first and the last instant of a day are of that day.
LEMMA DaysOfInstants ==
    ASSUME NEW d \in Int
    PROVE  /\ DayStart(d) \in Int /\ DayEnd(d) \in Int
           /\ LocalDay(DayStart(d)) = d /\ LocalDay(DayEnd(d)) = d
           /\ LocalDay(DayStart(d) - 1) = d - 1
BY CalendarAssumption DEF LocalDay, DayStart, DayEnd

\* Every instant is in an hour of the day.
LEMMA HoursOfInstants ==
    ASSUME NEW t \in Int
    PROVE  LocalHour(t) \in 0..23
BY CalendarAssumption DEF LocalHour

\* Days counted from the first one in sevens fall into the weeks shown, the last
\* of which may be cut short.
LEMMA WeeksOfDays ==
    ASSUME NEW first \in Int, NEW last \in Int, NEW d \in first..last
    PROVE  (d - first) \div 7 \in 0..((last - first + 1 + 6) \div 7 - 1)
OBVIOUS

\* A week starts on its Monday, at most six days back.
LEMMA MondayBefore ==
    ASSUME NEW d \in Int
    PROVE  Weekday(d) \in 0..6
BY DEF Weekday

\* The table of months, written out.
LEMMA StartsOfMonths ==
    /\ MonthStarts[1] = 0 - 31 /\ MonthStarts[2] = 0 /\ MonthStarts[3] = 31
    /\ MonthStarts[4] = 59 /\ MonthStarts[5] = 90
BY DEF MonthStarts

\* A day of January to March is in one of the months two to four.
LEMMA MonthsOfDays ==
    ASSUME NEW d \in 0..89
    PROVE  /\ MonthOf(d) \in 2..4
           /\ MonthStarts[MonthOf(d)] \in Int
           /\ MonthStarts[MonthOf(d)] <= d /\ d < MonthStarts[MonthOf(d) + 1]
<1> DEFINE In(m) == MonthStarts[m] <= d /\ d < MonthStarts[m + 1]
<1>1. /\ In(1) <=> d < 0 /\ 0 - 31 <= d
      /\ In(2) <=> 0 <= d /\ d < 31
      /\ In(3) <=> 31 <= d /\ d < 59
      /\ In(4) <=> 59 <= d /\ d < 90
  BY StartsOfMonths
<1>2. \E m \in 1..4 : In(m)
  <2>1. In(2) \/ In(3) \/ In(4)
    BY <1>1
  <2> QED
    BY <2>1
<1>3. MonthOf(d) \in 1..4 /\ In(MonthOf(d))
  <2> HIDE DEF In
  <2> QED
    BY <1>2 DEF MonthOf, In
<1>4. ~In(1)
  BY <1>1
<1>5. MonthOf(d) \in 2..4
  <2> HIDE DEF In
  <2> QED
    BY <1>3, <1>4
<1>6. MonthStarts[MonthOf(d)] \in Int
  BY <1>5, StartsOfMonths
<1> QED
  BY <1>3, <1>5, <1>6

\* The month before, or as much of it as the period covers of its own, ends
\* before the month begins.
LEMMA MonthBefore ==
    ASSUME NEW d \in 0..89, NEW m, m = MonthOf(d),
           NEW part, part = Min({d - MonthStarts[m] + 1, DaysIn(m - 1)})
    PROVE  /\ MonthStarts[m - 1] \in Int /\ part \in Int
           /\ MonthStarts[m - 1] + part - 1 < MonthStarts[m]
<1>1. m \in 2..4
  BY MonthsOfDays
<1>2. /\ MonthStarts[m] \in Int /\ MonthStarts[m - 1] \in Int
      /\ DaysIn(m - 1) \in Int /\ DaysIn(m - 1) = MonthStarts[m] - MonthStarts[m - 1]
  BY <1>1, StartsOfMonths DEF DaysIn
<1> DEFINE a == d - MonthStarts[m] + 1   b == DaysIn(m - 1)
<1>3. a \in Int /\ b \in Int
  BY <1>2
<1> HIDE DEF a, b
<1>4. Min({a, b}) \in {a, b} /\ Min({a, b}) <= b
  <2>1. \E x \in {a, b} : \A y \in {a, b} : x <= y
    <3>1. CASE a <= b
      BY <1>3, <3>1
    <3>2. CASE ~(a <= b)
      BY <1>3, <3>2
    <3> QED
      BY <3>1, <3>2
  <2> QED
    BY <2>1 DEF Min
<1> QED
  BY <1>2, <1>3, <1>4 DEF a, b
-----------------------------------------------------------------------------
(* Periods. *)

\* What a period of each kind looks like in local days.
Shape(range, first, last) ==
    /\ range \in {"today", "week", "month", "custom"}
    /\ first \in Int /\ last \in Int /\ first <= last
    /\ range = "today" => first = last
    /\ range = "week" => last <= first + 6
    /\ range = "month" => last \in 0..89 /\ first = MonthStarts[MonthOf(last)]

\* Whatever is asked for at a moment considered has the shape of its kind.
LEMMA PeriodsAreShaped ==
    ASSUME now \in Moments, NEW p \in Periods, Dated(p)
    PROVE  Shape(p.range, FirstDay(p), LastDay(p))
<1>1. LocalDay(now) \in 0..89
  BY CalendarAssumption
<1>2. CASE p.range = "custom"
  <2>1. p.first \in Int /\ p.last \in Int
    BY <1>2, CalendarAssumption DEF Periods
  <2>2. FirstDay(p) = p.first /\ LastDay(p) = p.last
    BY <1>2 DEF FirstDay, LastDay
  <2> QED
    BY <1>2, <2>1, <2>2 DEF Dated, Shape
<1>3. CASE p.range = "today"
  BY <1>1, <1>3 DEF FirstDay, LastDay, Shape
<1>4. CASE p.range = "week"
  <2>1. Weekday(LocalDay(now)) \in 0..6
    BY <1>1, MondayBefore
  <2>2. FirstDay(p) = LocalDay(now) - Weekday(LocalDay(now)) /\ LastDay(p) = LocalDay(now)
    BY <1>4 DEF FirstDay, LastDay
  <2> QED
    BY <1>1, <1>4, <2>1, <2>2 DEF Shape
<1>5. CASE p.range = "month"
  <2>1. FirstDay(p) = MonthStarts[MonthOf(LocalDay(now))] /\ LastDay(p) = LocalDay(now)
    BY <1>5 DEF FirstDay, LastDay
  <2>2. /\ MonthStarts[MonthOf(LocalDay(now))] \in Int
        /\ MonthStarts[MonthOf(LocalDay(now))] <= LocalDay(now)
    BY <1>1, MonthsOfDays
  <2> QED
    BY <1>1, <1>5, <2>1, <2>2 DEF Shape
<1> QED
  BY <1>2, <1>3, <1>4, <1>5 DEF Periods

\* The period of comparison ends before the period begins.
LEMMA PreviousIsEarlier ==
    ASSUME NEW range, NEW first, NEW last, Shape(range, first, last), NEW t \in Int,
           NEW span, span = Previous(range, DayStart(first), DayEnd(last)),
           Between(t, span[1], span[2])
    PROVE  LocalDay(t) < first
<1>1. first \in Int /\ last \in Int /\ first <= last
  BY DEF Shape
<1>2. /\ DayStart(first) \in Int /\ DayEnd(last) \in Int
      /\ LocalDay(DayEnd(last)) = last
  BY <1>1, DaysOfInstants
<1>3. CASE range = "today"
  <2>1. span[2] = DayEnd(last) - 24
    BY <1>3 DEF Previous
  <2>2. t <= DayEnd(last - 1) /\ first = last
    BY <1>1, <1>3, <2>1, CalendarAssumption DEF Between, DayEnd, Shape
  <2> QED
    BY <1>1, <2>2, CalendarAssumption DEF LocalDay, DayEnd
<1>4. CASE range = "week"
  <2>1. span[2] = DayEnd(last) - 168
    BY <1>4 DEF Previous
  <2>2. t <= DayEnd(last - 7) /\ last - 7 < first
    BY <1>1, <1>4, <2>1, CalendarAssumption DEF Between, DayEnd, Shape
  <2> QED
    BY <1>1, <2>2, CalendarAssumption DEF LocalDay, DayEnd
<1>5. CASE range = "month"
  <2> DEFINE m == MonthOf(last)
             part == Min({last - MonthStarts[m] + 1, DaysIn(m - 1)})
  <2>1. span[2] = DayEnd(MonthStarts[m - 1] + part - 1)
    BY <1>2, <1>5 DEF Previous
  <2>2. last \in 0..89 /\ first = MonthStarts[m]
    BY <1>5 DEF Shape
  <2> HIDE DEF m
  <2>3. /\ MonthStarts[m - 1] \in Int /\ part \in Int
        /\ MonthStarts[m - 1] + part - 1 < first
    BY <2>2, MonthBefore DEF m
  <2> DEFINE e == MonthStarts[m - 1] + part - 1
  <2>4. e \in Int /\ e < first /\ t <= DayEnd(e)
    BY <2>1, <2>3 DEF Between
  <2> HIDE DEF e
  <2> QED
    BY <1>1, <2>4, CalendarAssumption DEF LocalDay, DayEnd
<1>6. CASE range = "custom"
  <2>1. span[2] = DayStart(first) - 1
    BY <1>6 DEF Previous
  <2> QED
    BY <1>1, <2>1, CalendarAssumption DEF Between, LocalDay, DayStart
<1> QED
  BY <1>3, <1>4, <1>5, <1>6 DEF Shape
-----------------------------------------------------------------------------
(* Parts. *)

\* The points show every order of S once, and no other.
Tells(points, S) ==
    \A o \in Orders :
        /\ o \in S => Cardinality({b \in DOMAIN points : o \in points[b]}) = 1
        /\ o \notin S => {b \in DOMAIN points : o \in points[b]} = {}

\* Groups tell their orders when every order has a group that is shown.
LEMMA GroupsTell ==
    ASSUME NEW S, NEW key, NEW Buckets, \A o \in S : key[o] \in Buckets
    PROVE  Tells(GroupBy(S, key, Buckets), S)
<1> DEFINE points == GroupBy(S, key, Buckets)
<1>1. DOMAIN points = Buckets /\ \A b \in Buckets : points[b] = {o \in S : key[o] = b}
  BY DEF GroupBy
<1> HIDE DEF points
<1>2. ASSUME NEW o \in S PROVE {b \in DOMAIN points : o \in points[b]} = {key[o]}
  BY <1>1
<1>3. ASSUME NEW o, o \notin S PROVE {b \in DOMAIN points : o \in points[b]} = {}
  BY <1>1, <1>3
<1> QED
  BY <1>2, <1>3, FS_Singleton DEF points, Tells

\* A single point tells all of its orders.
LEMMA OnePointTells ==
    ASSUME NEW S
    PROVE  Tells(<<S>>, S)
<1>1. DOMAIN <<S>> = {1} /\ <<S>>[1] = S
  OBVIOUS
<1>2. ASSUME NEW o \in S PROVE {b \in {1} : o \in <<S>>[b]} = {1}
  BY <1>1
<1>3. ASSUME NEW o, o \notin S PROVE {b \in {1} : o \in <<S>>[b]} = {}
  BY <1>1, <1>3
<1> QED
  BY <1>1, <1>2, <1>3, FS_Singleton DEF Tells

\* The instants and stalls of the orders there are.
SalesTyped == sale \in [Orders -> [at : Moments, stall : Stalls \cup {"none"}]]
              /\ \A o \in Orders : order[o].status # "none" => sale[o].stall \in Stalls

\* An order that exists was placed at some instant in some stall.
LEMMA SaleTypes ==
    ASSUME SalesTyped, NEW o \in Orders
    PROVE  /\ sale[o].at \in Int
           /\ order[o].status # "none" => sale[o].stall \in Stalls
BY CalendarAssumption DEF SalesTyped

\* Each part but the ledger tells the sales of its period.
LEMMA PartsTell ==
    ASSUME SalesTyped, NEW range, NEW first, NEW last, Shape(range, first, last), NEW s,
           NEW part \in {"summary", "stalls", "hours", "trend"},
           NEW points \in PointsOf(part, range, DayStart(first), DayEnd(last), s)
    PROVE  Tells(points, Sales(DayStart(first), DayEnd(last), s))
<1> DEFINE from == DayStart(first)  to == DayEnd(last)  S == Sales(from, to, s)
<1>1. first \in Int /\ last \in Int /\ first <= last
  BY DEF Shape
<1>2. LocalDay(from) = first /\ LocalDay(to) = last /\ from \in Int /\ to \in Int
  BY <1>1, DaysOfInstants
<1>3. \A o \in S : /\ o \in Orders /\ sale[o].at \in Int /\ sale[o].stall \in Stalls
                   /\ Between(sale[o].at, from, to)
  BY SaleTypes DEF Sales
<1> HIDE DEF from, to, S
<1>4. \A o \in S : LocalDay(sale[o].at) \in first..last
  BY <1>1, <1>3, InstantsOfDays DEF from, to
<1>5. Tells(HourPoints(from, to, s), S)
  <2> DEFINE key == [o \in Orders |-> LocalHour(sale[o].at)]
  <2>1. \A o \in S : key[o] \in 0..23
    BY <1>3, HoursOfInstants
  <2> HIDE DEF key
  <2>2. Tells(GroupBy(S, key, 0..23), S)
    BY <2>1, GroupsTell
  <2> QED
    BY <2>2 DEF HourPoints, S, key
<1>6. ASSUME range \in {"week", "month", "custom"} PROVE Tells(DayPoints(range, from, to, s), S)
  <2> DEFINE key == [o \in Orders |-> LocalDay(sale[o].at)]
             Days == LocalDay(from)..LocalDay(ShownEnd(range, from, to))
  <2>1. LocalDay(ShownEnd(range, from, to)) \in Int
        /\ last <= LocalDay(ShownEnd(range, from, to))
    <3>1. CASE range = "week"
      <4>1. ShownEnd(range, from, to) = from + 167 /\ last <= first + 6
        BY <3>1 DEF ShownEnd, Shape
      <4>2. LocalDay(from + 167) = first + 6
        BY <1>1, CalendarAssumption DEF LocalDay, from, DayStart
      <4> QED
        BY <1>1, <4>1, <4>2
    <3>2. CASE range # "week"
      BY <1>1, <1>2, <3>2 DEF ShownEnd
    <3> QED
      BY <3>1, <3>2
  <2>2. \A o \in S : key[o] \in Days
    BY <1>1, <1>2, <1>3, <1>4, <2>1
  <2> HIDE DEF key, Days
  <2>3. Tells(GroupBy(S, key, Days), S)
    BY <2>2, GroupsTell
  <2> QED
    BY <2>3 DEF DayPoints, S, key, Days
<1>7. Tells(WeekPoints(from, to, s), S)
  <2> DEFINE key == [o \in Orders |-> (LocalDay(sale[o].at) - LocalDay(from)) \div 7]
             Weeks == 0..(WeekCount(from, to) - 1)
  <2>1. WeekCount(from, to) = (last - first + 1 + 6) \div 7
    BY <1>2 DEF WeekCount, DayCount
  <2>2. \A o \in S : key[o] \in Weeks
    BY <1>1, <1>2, <1>3, <1>4, <2>1, WeeksOfDays
  <2> HIDE DEF key, Weeks
  <2>3. Tells(GroupBy(S, key, Weeks), S)
    BY <2>2, GroupsTell
  <2> QED
    BY <2>3 DEF WeekPoints, S, key, Weeks
<1>8. Tells(TrendPoints(range, from, to, s), S)
  <2>1. Granularity(range, from, to) \in {"hour", "day", "week"}
    BY DEF Granularity
  <2>2. CASE Granularity(range, from, to) = "hour"
    BY <1>5, <2>2 DEF TrendPoints
  <2>3. CASE Granularity(range, from, to) = "day"
    <3>1. range \in {"week", "month", "custom"}
      BY <2>3 DEF Granularity, Shape
    <3> QED
      BY <1>6, <2>3, <3>1 DEF TrendPoints
  <2>4. CASE Granularity(range, from, to) = "week"
    BY <1>7, <2>4 DEF TrendPoints
  <2> QED
    BY <2>1, <2>2, <2>3, <2>4
<1>9. Tells(GroupBy(S, [o \in Orders |-> sale[o].stall], Stalls), S)
  <2> DEFINE key == [o \in Orders |-> sale[o].stall]
  <2>1. \A o \in S : key[o] \in Stalls
    BY <1>3
  <2> HIDE DEF key
  <2>2. Tells(GroupBy(S, key, Stalls), S)
    BY <2>1, GroupsTell
  <2> QED
    BY <2>2 DEF key
<1>10. CASE part = "summary"
  BY <1>10, OnePointTells DEF PointsOf, S, from, to
<1>11. CASE part = "stalls"
  BY <1>9, <1>11 DEF PointsOf, S, from, to
<1>12. CASE part = "hours"
  BY <1>5, <1>12 DEF PointsOf, S, from, to
<1>13. CASE part = "trend"
  BY <1>8, <1>13 DEF PointsOf, S, from, to
<1> QED
  BY <1>10, <1>11, <1>12, <1>13 DEF S, from, to
-----------------------------------------------------------------------------
(* The ledger. *)

\* A common factor can be cancelled.
LEMMA LessByFactor ==
    ASSUME NEW a \in Int, NEW b \in Int, NEW k \in Nat, a * k < b * k
    PROVE  a < b
<1> SUFFICES ASSUME a >= b PROVE FALSE
  OBVIOUS
<1>1. (a - b) * k >= 0
  OBVIOUS
<1>2. (a - b) * k = a * k - b * k
  OBVIOUS
<1>3. a * k \in Int /\ b * k \in Int
  OBVIOUS
<1> QED
  BY <1>1, <1>2, <1>3

\* Positions 1 to n are cut into pages that leave none out and do not overlap.
LEMMA OnePageForEachPlace ==
    ASSUME NEW n \in Nat, NEW i \in 1..n, NEW k \in Nat, k > 0
    PROVE  \E p \in 1..((n + k - 1) \div k) :
              {q \in 1..((n + k - 1) \div k) : (q - 1) * k < i /\ i <= q * k} = {p}
<1> DEFINE c == (n + k - 1) \div k   p == (i - 1) \div k + 1
<1>1. c \in Nat /\ n <= c * k
  <2>1. n + k - 1 \in Nat
    OBVIOUS
  <2>2. c \in Nat /\ n + k - 1 < k * c + k
    BY <2>1, DivisionBounds
  <2> QED
    BY <2>2
<1>2. p \in Nat /\ p >= 1 /\ (p - 1) * k <= i - 1 /\ i - 1 < (p - 1) * k + k
  <2>1. i - 1 \in Nat
    OBVIOUS
  <2>2. (i - 1) \div k \in Nat /\ k * ((i - 1) \div k) <= i - 1
        /\ i - 1 < k * ((i - 1) \div k) + k
    BY <2>1, DivisionBounds
  <2> QED
    BY <2>2
<1> HIDE DEF c, p
<1>3. (p - 1) * k + k = p * k
  BY <1>2
<1>4. (p - 1) * k < i /\ i <= p * k
  BY <1>2, <1>3
<1>5. p <= c
  <2>0. (p - 1) * k \in Int /\ c * k \in Int /\ i <= n
    BY <1>1, <1>2
  <2>1. (p - 1) * k < c * k
    BY <1>1, <1>4, <2>0
  <2>2. p - 1 < c
    BY <1>1, <1>2, <2>1, LessByFactor
  <2> QED
    BY <1>1, <1>2, <2>2
<1>6. ASSUME NEW q \in 1..c, (q - 1) * k < i, i <= q * k PROVE q = p
  <2>1. (q - 1) * k < p * k /\ (p - 1) * k < q * k
    BY <1>1, <1>2, <1>4, <1>6
  <2>2. q - 1 < p /\ p - 1 < q
    BY <1>1, <1>2, <2>1, LessByFactor
  <2> QED
    BY <1>1, <1>2, <2>2
<1>7. p \in 1..c
  BY <1>1, <1>2, <1>5
<1>8. {q \in 1..c : (q - 1) * k < i /\ i <= q * k} = {p}
  BY <1>4, <1>6, <1>7
<1> QED
  BY <1>7, <1>8 DEF c

\* An order that shares its instant with no other stands, in every listing, right
\* after the orders that are newer.
LEMMA PlaceIsFixed ==
    ASSUME NEW S, IsFiniteSet(S), \A o \in S : sale[o].at \in Int,
           NEW f \in Listings(S), NEW o \in S,
           \A q \in S \ {o} : sale[q].at # sale[o].at
    PROVE  /\ Cardinality({q \in S : sale[q].at > sale[o].at}) + 1 \in 1..Cardinality(S)
           /\ \A i \in 1..Cardinality(S) :
                 f[i] = o <=> i = Cardinality({q \in S : sale[q].at > sale[o].at}) + 1
<1> DEFINE n == Cardinality(S)   Newer == {q \in S : sale[q].at > sale[o].at}
<1>1. n \in Nat
  BY FS_CardinalityType
<1>2. /\ f \in [1..n -> S] /\ DOMAIN f = 1..n
      /\ \A i, j \in 1..n : i # j => f[i] # f[j]
      /\ \A i, j \in 1..n : i < j => sale[f[i]].at >= sale[f[j]].at
  BY DEF Listings, SetToSeqs
<1> HIDE DEF n
<1>3. PICK i \in 1..n : f[i] = o
  <2>1. f \in Injection(1..n, S)
    BY <1>2 DEF Injection, IsInjective
  <2>2. IsFiniteSet(1..n) /\ Cardinality(1..n) = n
    BY <1>1, FS_Interval
  <2>3. f \in Surjection(1..n, S)
    BY <2>1, <2>2, FS_Injection DEF n
  <2> QED
    BY <2>3 DEF Surjection
<1>4. Cardinality(Newer) = i - 1
  <2> DEFINE g == [j \in 1..(i - 1) |-> f[j]]
  <2>1. \A j \in 1..(i - 1) : j \in 1..n /\ j < i /\ f[j] \in S \ {o}
    BY <1>1, <1>2, <1>3
  <2>2. \A j \in 1..(i - 1) : f[j] \in Newer
    BY <1>2, <1>3, <2>1
  <2>3. \A q \in Newer : \E j \in 1..(i - 1) : f[j] = q
    <3> SUFFICES ASSUME NEW q \in Newer PROVE \E j \in 1..(i - 1) : f[j] = q
      OBVIOUS
    <3>1. PICK j \in 1..n : f[j] = q
      <4>1. f \in Injection(1..n, S)
        BY <1>2 DEF Injection, IsInjective
      <4>2. IsFiniteSet(1..n) /\ Cardinality(1..n) = n
        BY <1>1, FS_Interval
      <4>3. f \in Surjection(1..n, S)
        BY <4>1, <4>2, FS_Injection DEF n
      <4> QED
        BY <4>3 DEF Surjection
    <3>2. j # i
      BY <1>3, <3>1
    <3>3. ~(i < j)
      BY <1>2, <1>3, <3>1
    <3> QED
      BY <1>1, <3>1, <3>2, <3>3
  <2>4. g \in Bijection(1..(i - 1), Newer)
    <3> HIDE DEF Newer
    <3>1. g \in [1..(i - 1) -> Newer] /\ \A a, b \in DOMAIN g : g[a] = g[b] => a = b
      BY <1>2, <2>1, <2>2
    <3>2. \A q \in Newer : \E j \in 1..(i - 1) : g[j] = q
      BY <2>3
    <3> QED
      BY <3>1, <3>2 DEF Bijection, Injection, Surjection, IsInjective
  <2>5. ExistsBijection(1..(i - 1), Newer)
    BY <2>4 DEF ExistsBijection
  <2>6. IsFiniteSet(1..(i - 1)) /\ Cardinality(1..(i - 1)) = i - 1
    BY <1>1, FS_Interval
  <2> HIDE DEF Newer, g
  <2> QED
    BY <2>5, <2>6, FS_Bijection
<1> HIDE DEF Newer
<1>5. \A j \in 1..n : f[j] = o <=> j = Cardinality(Newer) + 1
  BY <1>1, <1>2, <1>3, <1>4
<1>6. Cardinality(Newer) + 1 \in 1..n
  BY <1>1, <1>3, <1>4
<1> QED
  BY <1>5, <1>6 DEF n, Newer

\* The pages of the ledger hold its orders only, and an order that shares its
\* instant with no other is on one of them.
LEMMA LedgerTells ==
    ASSUME NEW S, IsFiniteSet(S), \A o \in S : sale[o].at \in Int,
           NEW points \in Ledgers(S), NEW o
    PROVE  /\ o \notin S => {b \in DOMAIN points : o \in points[b]} = {}
           /\ o \in S /\ (\A q \in S \ {o} : sale[q].at # sale[o].at)
              => Cardinality({b \in DOMAIN points : o \in points[b]}) = 1
<1> DEFINE n == Cardinality(S)   c == PageCount(S)
<1>1. PICK listing \in [1..c -> Listings(S)] :
         points = [p \in 1..c |-> Page(listing[p], p)]
  BY DEF Ledgers
<1>2. n \in Nat /\ (o \in S => c = (n + PageSize - 1) \div PageSize)
  BY FS_CardinalityType DEF PageCount
<1>k. PageSize \in Nat /\ PageSize > 0
  BY CalendarAssumption
<1> HIDE DEF n, c
<1>3. DOMAIN points = 1..c /\ \A p \in 1..c : listing[p] \in Listings(S)
      /\ points[p] = Page(listing[p], p)
  BY <1>1
<1>4. \A f \in Listings(S) : f \in [1..n -> S] /\ DOMAIN f = 1..n
  BY DEF Listings, SetToSeqs, n
<1>5. ASSUME NEW p \in 1..c PROVE points[p] \subseteq S
  <2>1. points[p] = Page(listing[p], p) /\ listing[p] \in [1..n -> S]
        /\ DOMAIN listing[p] = 1..n
    BY <1>3, <1>4
  <2> QED
    BY <2>1 DEF Page
<1>6. ASSUME o \in S, \A q \in S \ {o} : sale[q].at # sale[o].at
      PROVE  Cardinality({b \in DOMAIN points : o \in points[b]}) = 1
  <2> DEFINE i == Cardinality({q \in S : sale[q].at > sale[o].at}) + 1
  <2>1. ASSUME NEW p \in 1..c
        PROVE  i \in 1..n /\ \A j \in 1..n : listing[p][j] = o <=> j = i
    BY <1>3, <1>6, PlaceIsFixed DEF n
  <2> HIDE DEF i
  <2>2. ASSUME NEW p \in 1..c
        PROVE  o \in points[p] <=> (p - 1) * PageSize < i /\ i <= p * PageSize
    <3>1. points[p] = {listing[p][j] : j \in {j \in 1..n : (p - 1) * PageSize < j
                                                          /\ j <= p * PageSize}}
      BY <1>3, <1>4 DEF Page
    <3> QED
      BY <2>1, <3>1
  <2>3. {b \in DOMAIN points : o \in points[b]}
        = {q \in 1..c : (q - 1) * PageSize < i /\ i <= q * PageSize}
    BY <1>3, <2>2
  <2>4. i \in 1..n
    <3>1. 1 \in 1..c
      <4>1. n # 0
        BY <1>6, FS_EmptySet DEF n
      <4>2. n \in 1..n
        BY <1>2, <4>1
      <4>3. \E p \in 1..((n + PageSize - 1) \div PageSize) :
               {q \in 1..((n + PageSize - 1) \div PageSize) :
                   (q - 1) * PageSize < n /\ n <= q * PageSize} = {p}
        BY <1>2, <1>k, <4>2, OnePageForEachPlace
      <4>4. PICK p \in 1..c : TRUE
        BY <1>2, <1>6, <4>3
      <4>5. n + PageSize - 1 \in Nat
        BY <1>2, <1>k
      <4>6. c \in Nat
        BY <1>2, <1>6, <1>k, <4>5, DivisionBounds
      <4> QED
        BY <4>4, <4>6
    <3> QED
      BY <2>1, <3>1
  <2>5. \E p \in 1..c : {q \in 1..c : (q - 1) * PageSize < i /\ i <= q * PageSize} = {p}
    <3>1. \E p \in 1..((n + PageSize - 1) \div PageSize) :
             {q \in 1..((n + PageSize - 1) \div PageSize) :
                 (q - 1) * PageSize < i /\ i <= q * PageSize} = {p}
      BY <1>2, <1>k, <2>4, OnePageForEachPlace
    <3> QED
      BY <1>2, <1>6, <3>1
  <2> QED
    BY <2>3, <2>5, FS_Singleton
<1> QED
  BY <1>3, <1>5, <1>6
-----------------------------------------------------------------------------
(* Revenue. *)

\* The sum over one order is its total.
LEMMA SumOfOne ==
    ASSUME NEW o, ReportingTotal(o) \in Int
    PROVE  MapThenSumSet(ReportingTotal, {o}) = ReportingTotal(o)
<1> DEFINE Rest(f) == [s \in SUBSET {o} |->
                          IF s = {} THEN 0
                          ELSE LET x == CHOOSE x \in s : TRUE
                               IN  ReportingTotal(x) + f[s \ {x}]]
           it == CHOOSE f : f = Rest(f)
           sum == [s \in SUBSET {o} |-> IF s = {} THEN 0 ELSE ReportingTotal(o)]
<1>1. MapThenSumSet(ReportingTotal, {o}) = it[{o}]
  BY DEF MapThenSumSet, MapThenFoldSet
<1>2. sum = Rest(sum)
  <2> HIDE DEF Rest
  <2>1. \A s \in SUBSET {o} : s = {} \/ s = {o}
    OBVIOUS
  <2>2. (CHOOSE x \in {o} : TRUE) = o
    OBVIOUS
  <2>3. \A s \in SUBSET {o} : sum[s] = Rest(sum)[s]
    BY <2>1, <2>2 DEF Rest
  <2> QED
    BY <2>3 DEF Rest
<1>3. it = Rest(it)
  <2> HIDE DEF Rest, sum
  <2> QED
    BY <1>2
<1>4. (CHOOSE x \in {o} : TRUE) = o
  OBVIOUS
<1>5. Rest(it)[{}] = 0
  OBVIOUS
<1>6. Rest(it)[{o}] = ReportingTotal(o) + it[{}]
  BY <1>4
<1> HIDE DEF Rest, it
<1>7. it[{o}] = ReportingTotal(o)
  BY <1>3, <1>5, <1>6
<1> QED
  BY ONLY <1>1, <1>7, Zenon

\* The revenue of one order is its total, rounded to cents.
LEMMA RevenueOfOne ==
    ASSUME NEW o, ReportingTotal(o) \in Int
    PROVE  Revenue({o}) = (ReportingTotal(o) + 50) \div 100
<1>1. MapThenSumSet(ReportingTotal, {o}) = ReportingTotal(o)
  BY SumOfOne
<1> QED
  BY ONLY <1>1, Zenon DEF Revenue

\* Rounding to a hundredth of a cent and then to a cent leaves the total within
\* half of either.
LEMMA RevenueIsNear ==
    ASSUME NEW o, order[o] \in Row, order[o].rate > 0
    PROVE  LET off == Revenue({o}) * order[o].rate - Required(order[o])
           IN  200 * off <= 101 * order[o].rate /\ 0 - 200 * off <= 101 * order[o].rate
<1> DEFINE r == order[o].rate  k == order[o].totalKhr  u == order[o].totalUsd
           R == ReportingTotal(o)  v == (R + 50) \div 100
<1>1. r \in Nat /\ r > 0 /\ k \in Nat /\ u \in Nat
  BY DEF Row
<1>2. CASE order[o].currency = "khr"
  <2>1. R = (2 * 10000 * k + r) \div (2 * r) /\ Required(order[o]) = k * 100
    BY <1>1, <1>2 DEF ReportingTotal, Required
  <2> HIDE DEF r, k, R
  <2>2. 2 * 10000 * k + r \in Nat /\ 2 * r \in Nat /\ 2 * r > 0
    BY <1>1
  <2>3. R \in Nat /\ (2 * r) * R <= 2 * 10000 * k + r
        /\ 2 * 10000 * k + r < (2 * r) * R + 2 * r
    BY <2>1, <2>2, DivisionBounds
  <2>4. v \in Int /\ 100 * v <= R + 50 /\ R + 50 < 100 * v + 100
    BY <2>3
  <2> HIDE DEF v
  <2>5. Revenue({o}) = v
    BY <2>3, RevenueOfOne DEF v, R
  <2>6. /\ (100 * v - R - 50) * r <= 0
        /\ (R - 50 - 100 * v) * r <= 0
    BY <1>1, <2>3, <2>4
  <2>7. /\ v * r \in Int /\ R * r \in Int
        /\ (100 * v - R - 50) * r = 100 * (v * r) - R * r - 50 * r
        /\ (R - 50 - 100 * v) * r = R * r - 50 * r - 100 * (v * r)
        /\ (2 * r) * R = 2 * (R * r)
    BY <1>1, <2>3, <2>4
  <2>8. /\ 200 * (v * r - k * 100) <= 101 * r
        /\ 0 - 200 * (v * r - k * 100) <= 101 * r
    BY <1>1, <2>3, <2>6, <2>7
  <2> QED
    BY <2>1, <2>5, <2>8 DEF r
<1>3. CASE order[o].currency # "khr"
  <2>1. R = 100 * u /\ Required(order[o]) = u * r
    BY <1>1, <1>3 DEF ReportingTotal, Required
  <2> HIDE DEF r, R, u
  <2>2. v = u /\ R \in Int
    BY <1>1, <2>1
  <2>3. Revenue({o}) = u
    BY <2>2, RevenueOfOne DEF R
  <2>4. u * r \in Int
    BY <1>1
  <2>5. Revenue({o}) * r - Required(order[o]) = 0
    BY <2>1, <2>3, <2>4
  <2> QED
    BY <1>1, <2>5 DEF r
<1> QED
  BY <1>2, <1>3
-----------------------------------------------------------------------------
(***************************************************************************)
(* A report is made once and then kept while sales go on.  What it tells   *)
(* stays true because the instant and the stall of an order are never      *)
(* changed and a paid order stays paid.                                    *)
(***************************************************************************)
Fields == {"pc", "range", "stall", "part", "from", "to", "first", "last", "before", "points"}

\* What asking for a report fixes.
ReportAsked ==
    report.pc # "none" =>
        /\ DOMAIN report = Fields
        /\ report = [f \in Fields |-> report[f]]
        /\ report.part \in Parts
        /\ Shape(report.range, report.first, report.last)
        /\ report.from = DayStart(report.first) /\ report.to = DayEnd(report.last)
        /\ \A o \in report.before : o \in Orders /\ order[o].status = "paid"

\* What a report shows is in the database.
ShownExist ==
    report.pc = "made" => \A o \in Orders : Shown(o) # {} => order[o].status # "none"

SalesInv ==
    /\ SettlementInv
    /\ now \in Moments
    /\ SalesTyped
    /\ ReportAsked
    /\ ShownExist
    /\ EachSaleCountedOnce

\* At first there is neither an order nor a report.
LEMMA SalesInitially == SalesInit => SalesInv
<1> SUFFICES ASSUME SalesInit PROVE SalesInv
  OBVIOUS
<1>1. SettlementInv /\ now \in Moments
  BY SettlementInit DEF SalesInit
<1>2. \A o \in Orders : order[o].status = "none"
  BY DEF SalesInit, Init, NoRow
<1>3. SalesTyped
  BY <1>1, <1>2 DEF SalesInit, SalesTyped
<1>4. report.pc = "none"
  BY DEF SalesInit, NoReport
<1> QED
  BY <1>1, <1>3, <1>4 DEF SalesInv, ReportAsked, ShownExist, EachSaleCountedOnce

\* The orders that exist keep their place, and what is paid stays paid.
OrdersKept ==
    \A o \in Orders : order[o].status # "none" =>
        /\ sale'[o] = sale[o] /\ order'[o].status # "none"
        /\ order[o].status = "paid" => order'[o].status = "paid"

\* While orders keep their place a report that was made stays true.
LEMMA ReportIsKept ==
    ASSUME SalesInv, OrdersKept, deleted \subseteq deleted', UNCHANGED report
    PROVE  ReportAsked' /\ ShownExist' /\ EachSaleCountedOnce'
<1>1. ReportAsked'
  BY DEF SalesInv, ReportAsked, OrdersKept
<1>2. CASE report.pc # "made"
  BY <1>1, <1>2 DEF ShownExist, EachSaleCountedOnce
<1>3. CASE report.pc = "made"
  <2>1. ASSUME NEW o \in Orders, order[o].status # "none"
        PROVE  /\ OfStall(o, report.stall)' <=> OfStall(o, report.stall)
               /\ InPeriod(o)' <=> InPeriod(o)
               /\ sale'[o] = sale[o]
    BY <2>1 DEF OrdersKept, OfStall, InPeriod, LocalDay
  <2>2. ASSUME NEW o \in Orders, order[o].status # "none", Tied(o) PROVE Tied(o)'
    <3>1. PICK q \in Orders \ {o} : /\ order[q].status # "none" /\ OfStall(q, report.stall)
                                   /\ sale[q].at = sale[o].at
      BY <2>2 DEF Tied
    <3>2. /\ OfStall(q, report.stall)' /\ sale'[q] = sale[q] /\ sale'[o] = sale[o]
          /\ order'[q].status # "none"
      BY <2>1, <2>2, <3>1 DEF OrdersKept
    <3> QED
      BY <3>1, <3>2 DEF Tied
  <2>3. ASSUME NEW o PROVE Shown(o)' = Shown(o)
    BY DEF Shown
  <2>4. ShownExist'
    BY <1>3, <2>3 DEF SalesInv, ShownExist, OrdersKept
  <2>5. ASSUME NEW o \in report.before,
               InPeriod(o)', OfStall(o, report.stall)',
               IF report.part = "ledger" THEN ~Tied(o)' ELSE sale'[o].stall \notin deleted'
        PROVE  Cardinality(Shown(o)') = IF report.part = "previous" THEN 0 ELSE 1
    <3>1. o \in Orders /\ order[o].status # "none"
      BY <1>3 DEF SalesInv, ReportAsked
    <3>2. InPeriod(o) /\ OfStall(o, report.stall) /\ sale'[o] = sale[o]
      BY <2>1, <2>5, <3>1
    <3>3. IF report.part = "ledger" THEN ~Tied(o) ELSE sale[o].stall \notin deleted
      BY <2>2, <2>5, <3>1, <3>2
    <3>4. Cardinality(Shown(o)) = IF report.part = "previous" THEN 0 ELSE 1
      BY <1>3, <3>2, <3>3 DEF SalesInv, EachSaleCountedOnce
    <3> QED
      BY <2>3, <3>4
  <2>6. ASSUME NEW o \in Orders, Shown(o)' # {}
        PROVE  /\ OfStall(o, report.stall)'
               /\ IF report.part = "previous" THEN LocalDay(sale'[o].at) < report.first
                  ELSE InPeriod(o)'
               /\ report.part # "ledger" => order'[o].status = "paid"
    <3>1. Shown(o) # {}
      BY <2>3, <2>6
    <3>2. order[o].status # "none"
      BY <1>3, <3>1 DEF SalesInv, ShownExist
    <3>3. /\ OfStall(o, report.stall)
          /\ IF report.part = "previous" THEN LocalDay(sale[o].at) < report.first
             ELSE InPeriod(o)
          /\ report.part # "ledger" => order[o].status = "paid"
      BY <1>3, <3>1 DEF SalesInv, EachSaleCountedOnce
    <3> QED
      BY <2>1, <3>2, <3>3 DEF OrdersKept
  <2>7. EachSaleCountedOnce'
    BY <2>5, <2>6 DEF EachSaleCountedOnce, LocalDay
  <2> QED
    BY <1>1, <2>4, <2>7
<1> QED
  BY <1>2, <1>3

\* Asking fixes a period of the right shape and notes what is paid.
LEMMA RequestKeepsInv ==
    ASSUME SalesInv, NEW p \in Periods, NEW s, NEW part \in Parts, RequestReport(p, s, part)
    PROVE  ReportAsked' /\ ShownExist' /\ EachSaleCountedOnce'
<1>1. /\ report'.pc = "reading" /\ DOMAIN report' = Fields
      /\ report' = [f \in Fields |-> report'[f]]
      /\ report'.part = part /\ report'.range = p.range
      /\ report'.first = FirstDay(p) /\ report'.last = LastDay(p)
      /\ report'.from = DayStart(FirstDay(p)) /\ report'.to = DayEnd(LastDay(p))
      /\ report'.before = {o \in Orders : order[o].status = "paid"}
  BY DEF RequestReport, Fields
<1>2. Shape(p.range, FirstDay(p), LastDay(p))
  BY PeriodsAreShaped DEF SalesInv, RequestReport
<1>3. UNCHANGED <<now, sale, order>>
  BY DEF RequestReport, vars
<1>4. Shape(report'.range, report'.first, report'.last)
  BY <1>1, <1>2
<1>5. ReportAsked'
  <2>1. /\ report'.from = DayStart(report'.first) /\ report'.to = DayEnd(report'.last)
        /\ \A o \in report'.before : o \in Orders /\ order'[o].status = "paid"
    BY <1>1, <1>3
  <2> QED
    BY <1>1, <1>4, <2>1 DEF ReportAsked, Shape, DayStart, DayEnd, MonthOf
<1> QED
  BY <1>1, <1>5 DEF ShownExist, EachSaleCountedOnce

\* The answer of a part tells the sales of the period.
LEMMA ReadKeepsInv ==
    ASSUME SalesInv, ReadPart
    PROVE  ReportAsked' /\ ShownExist' /\ EachSaleCountedOnce'
<1> DEFINE range == report.range  first == report.first  last == report.last
           s == report.stall      part == report.part    points == report'.points
           Found(o) == {b \in DOMAIN points : o \in points[b]}
<1>1. /\ report.pc = "reading" /\ DOMAIN report = Fields
      /\ part \in Parts /\ Shape(range, first, last)
      /\ report.from = DayStart(first) /\ report.to = DayEnd(last)
      /\ \A o \in report.before : o \in Orders /\ order[o].status = "paid"
      /\ SalesTyped
  BY DEF SalesInv, ReportAsked, ReadPart
<1>2. UNCHANGED <<order, sale, deleted>>
  BY DEF ReadPart, vars
<1>3. PICK answer \in PointsOf(part, range, report.from, report.to, s) :
          report' = [report EXCEPT !.pc = "made", !.points = answer]
  BY DEF ReadPart
<1>4. /\ report'.pc = "made" /\ points = answer
      /\ report'.range = range /\ report'.first = first /\ report'.last = last
      /\ report'.stall = s /\ report'.part = part /\ report'.before = report.before
      /\ report'.from = report.from /\ report'.to = report.to
      /\ DOMAIN report' = Fields /\ report' = [f \in Fields |-> report'[f]]
  BY <1>1, <1>3 DEF Fields
<1>5. points \in PointsOf(part, range, DayStart(first), DayEnd(last), s)
  BY <1>1, <1>3, <1>4
<1>6. first \in Int /\ last \in Int
  BY <1>1 DEF Shape
<1>7. ASSUME NEW o \in Orders
      PROVE  /\ sale[o].at \in Int
             /\ LocalDay(sale[o].at) \in Int
             /\ Between(sale[o].at, DayStart(first), DayEnd(last)) <=> InPeriod(o)
  BY <1>1, <1>6, SaleTypes, InstantsOfDays DEF InPeriod
<1> HIDE DEF range, first, last, s, part, points
\* What each part finds.
<1>8. ASSUME NEW o \in Orders
      PROVE  /\ order[o].status = "paid" /\ InPeriod(o) /\ OfStall(o, s)
                /\ (IF part = "ledger" THEN ~Tied(o) ELSE sale[o].stall \notin deleted)
                => Cardinality(Found(o)) = IF part = "previous" THEN 0 ELSE 1
             /\ Found(o) # {} =>
                   /\ OfStall(o, s)
                   /\ IF part = "previous" THEN LocalDay(sale[o].at) < first ELSE InPeriod(o)
                   /\ order[o].status # "none"
                   /\ part # "ledger" => order[o].status = "paid"
  <2>1. CASE part \in {"summary", "stalls", "hours", "trend"}
    <3>1. Tells(points, Sales(DayStart(first), DayEnd(last), s))
      BY <1>1, <1>5, <2>1, PartsTell DEF range, first, last, part
    <3>2. o \in Sales(DayStart(first), DayEnd(last), s)
          <=> /\ order[o].status = "paid" /\ InPeriod(o) /\ OfStall(o, s)
              /\ sale[o].stall \notin deleted
      BY <1>7 DEF Sales
    <3> QED
      BY <2>1, <3>1, <3>2 DEF Tells
  <2>2. CASE part = "previous"
    <3> DEFINE span == Previous(range, DayStart(first), DayEnd(last))
               S == Sales(span[1], span[2], s)
    <3>1. points = <<S>>
      BY <1>5, <2>2 DEF PointsOf
    <3>2. o \in S => /\ order[o].status = "paid" /\ OfStall(o, s)
                     /\ Between(sale[o].at, span[1], span[2])
      BY DEF Sales
    <3> HIDE DEF S
    <3>3. Tells(points, S)
      BY <3>1, OnePointTells
    <3>4. o \in S => LocalDay(sale[o].at) < first
      <4> HIDE DEF span
      <4> SUFFICES ASSUME o \in S PROVE LocalDay(sale[o].at) < first
        OBVIOUS
      <4>1. Shape(range, first, last) /\ span = Previous(range, DayStart(first), DayEnd(last))
        BY <1>1 DEF range, first, last, span
      <4> QED
        BY <1>7, <3>2, <4>1, PreviousIsEarlier
    <3>5. InPeriod(o) => o \notin S
      BY <1>6, <1>7, <3>4 DEF InPeriod, first, last
    <3>6. o \notin S => Found(o) = {}
      BY <3>3 DEF Tells
    <3> QED
      BY <2>2, <3>2, <3>4, <3>5, <3>6, FS_EmptySet
  <2>3. CASE part = "ledger"
    <3> DEFINE S == Entries(DayStart(first), DayEnd(last), s)
    <3>1. points \in Ledgers(S)
      BY <1>5, <2>3 DEF PointsOf
    <3>2. \A q \in Orders : q \in S <=> order[q].status # "none" /\ InPeriod(q) /\ OfStall(q, s)
      BY <1>7 DEF Entries
    <3>3. S \subseteq Orders
      BY DEF Entries
    <3> HIDE DEF S
    <3>4. IsFiniteSet(S) /\ \A q \in S : sale[q].at \in Int
      BY <1>7, <3>3, OrdersAssumption, FS_Subset
    <3>5. /\ o \notin S => Found(o) = {}
          /\ o \in S /\ (\A q \in S \ {o} : sale[q].at # sale[o].at)
             => Cardinality(Found(o)) = 1
      BY <3>1, <3>4, LedgerTells
    <3>6. ~Tied(o) => \A q \in S \ {o} : sale[q].at # sale[o].at
      BY <3>2, <3>3 DEF Tied, s
    <3> QED
      BY <2>3, <3>2, <3>5, <3>6
  <2> QED
    BY <1>1, <2>1, <2>2, <2>3 DEF Parts, part
<1>9. ASSUME NEW o
      PROVE  /\ Shown(o)' = Found(o)
             /\ InPeriod(o)' <=> InPeriod(o)
             /\ OfStall(o, report.stall)' <=> OfStall(o, s)
             /\ Tied(o)' <=> Tied(o)
  BY <1>2, <1>4 DEF Shown, InPeriod, OfStall, Tied, LocalDay, points, first, last, s
<1>10. ReportAsked'
  BY <1>1, <1>2, <1>4 DEF ReportAsked, Shape, DayStart, DayEnd, MonthOf, range, first, last, part
<1> HIDE DEF Found
<1>11. ShownExist'
  BY <1>2, <1>8, <1>9 DEF ShownExist
<1>12. EachSaleCountedOnce'
  <2>1. ASSUME NEW o \in report'.before, InPeriod(o)', OfStall(o, report.stall)',
               IF report'.part = "ledger" THEN ~Tied(o)' ELSE sale'[o].stall \notin deleted'
        PROVE  Cardinality(Shown(o)') = IF report'.part = "previous" THEN 0 ELSE 1
    <3>1. o \in Orders /\ order[o].status = "paid"
      BY <1>1, <1>4
    <3> QED
      BY <1>2, <1>4, <1>8, <1>9, <2>1, <3>1 DEF part
  <2>2. ASSUME NEW o \in Orders, Shown(o)' # {}
        PROVE  /\ OfStall(o, report.stall)'
               /\ IF report'.part = "previous" THEN LocalDay(sale'[o].at) < report'.first
                  ELSE InPeriod(o)'
               /\ report'.part # "ledger" => order'[o].status = "paid"
    BY <1>2, <1>4, <1>8, <1>9, <2>2 DEF part, first
  <2> QED
    BY <2>1, <2>2 DEF EachSaleCountedOnce, LocalDay
<1> QED
  BY <1>10, <1>11, <1>12

\* A confirmation turns no order up and takes no payment back.
LEMMA ConfirmKeepsOrders ==
    ASSUME SettlementInv, NEW o \in Orders, NEW usd, NEW khr, ConfirmCash(o, usd, khr),
           NEW q \in Orders
    PROVE  /\ order'[q].status # "none" <=> order[q].status # "none"
           /\ order[q].status = "paid" => order'[q].status = "paid"
<1>1. DOMAIN order = Orders /\ order[o] \in Row
  BY DEF SettlementInv, TypeOK
<1>2. "status" \in DOMAIN order[o]
  BY <1>1 DEF Row
<1>3. order'[o].status = "paid" /\ order[o].status = "pending_payment"
  BY <1>1, <1>2 DEF ConfirmCash, AwaitsPayment
<1>4. q # o => order'[q] = order[q]
  BY <1>1 DEF ConfirmCash
<1> QED
  BY <1>3, <1>4

\* Every step keeps the orders in place, asks for a report or answers it.
LEMMA SalesStep == SalesInv /\ [SalesNext]_salesVars => SalesInv'
<1> SUFFICES ASSUME SalesInv, [SalesNext]_salesVars PROVE SalesInv'
  OBVIOUS
<1>1. /\ SettlementInv /\ now \in Moments /\ SalesTyped /\ order \in [Orders -> Row]
      /\ ReportAsked /\ ShownExist /\ EachSaleCountedOnce
  BY DEF SalesInv, SettlementInv, TypeOK
<1>2. SettlementInv'
  <2>1. [Next]_vars
    BY DEF SalesNext, Pass, SetRate, Sell, Settle, DeleteStall, RequestReport, ReadPart, Next,
           salesVars, vars
  <2> QED
    BY <1>1, <2>1, SettlementStep
<1>3. ASSUME UNCHANGED <<sale, report>>, deleted \subseteq deleted', now' \in Moments,
             \A o \in Orders : /\ order'[o].status # "none" <=> order[o].status # "none"
                               /\ order[o].status = "paid" => order'[o].status = "paid"
      PROVE  SalesInv'
  <2>1. OrdersKept /\ SalesTyped'
    BY <1>1, <1>3 DEF OrdersKept, SalesTyped
  <2> QED
    BY <1>2, <1>3, <2>1, ReportIsKept DEF SalesInv
<1>4. ASSUME UNCHANGED <<vars, now, sale, deleted>>,
             ReportAsked' /\ ShownExist' /\ EachSaleCountedOnce'
      PROVE  SalesInv'
  BY <1>1, <1>2, <1>4 DEF SalesInv, SalesTyped, vars
<1>5. CASE Pass
  BY <1>3, <1>5 DEF Pass, vars
<1>6. ASSUME NEW r \in OfferedRates, SetRate(r) PROVE SalesInv'
  BY <1>1, <1>3, <1>6 DEF SetRate, UpdateRate
<1>7. ASSUME NEW o \in Orders, NEW usd \in UsdTotals, NEW khr \in KhrTotals,
             NEW c \in {"usd", "khr"}, NEW s \in Stalls, Sell(o, usd, khr, c, s)
      PROVE  SalesInv'
  <2>1. /\ order[o].status = "none" /\ UNCHANGED <<now, deleted, report>>
        /\ sale' = [sale EXCEPT ![o] = [at |-> now, stall |-> s]]
        /\ \A q \in Orders : q # o => order'[q] = order[q]
    BY <1>1, <1>7 DEF Sell, PlaceOrder
  <2>2. DOMAIN sale = Orders
    BY <1>1 DEF SalesTyped
  <2>3. OrdersKept
    BY <2>1, <2>2 DEF OrdersKept
  <2>4. SalesTyped'
    BY <1>1, <2>1, <2>2 DEF SalesTyped
  <2> QED
    BY <1>1, <1>2, <2>1, <2>3, <2>4, ReportIsKept DEF SalesInv
<1>8. ASSUME NEW o \in Orders, NEW usd \in UsdTenders, NEW khr \in KhrTenders,
             Settle(o, usd, khr)
      PROVE  SalesInv'
  <2>1. ConfirmCash(o, usd, khr) /\ UNCHANGED <<now, sale, deleted, report>>
    BY <1>8 DEF Settle
  <2>2. \A q \in Orders : /\ order'[q].status # "none" <=> order[q].status # "none"
                          /\ order[q].status = "paid" => order'[q].status = "paid"
    BY <1>1, <2>1, ConfirmKeepsOrders
  <2> QED
    BY <1>1, <1>3, <2>1, <2>2
<1>9. ASSUME NEW s \in Stalls, DeleteStall(s) PROVE SalesInv'
  BY <1>1, <1>3, <1>9 DEF DeleteStall, vars
<1>10. ASSUME NEW p \in Periods, NEW s \in Stalls \cup {"all"}, NEW part \in Parts,
              RequestReport(p, s, part)
       PROVE  SalesInv'
  <2>1. ReportAsked' /\ ShownExist' /\ EachSaleCountedOnce'
    BY <1>10, RequestKeepsInv
  <2> QED
    BY <1>4, <1>10, <2>1 DEF RequestReport
<1>11. CASE ReadPart
  <2>1. ReportAsked' /\ ShownExist' /\ EachSaleCountedOnce'
    BY <1>11, ReadKeepsInv
  <2> QED
    BY <1>4, <1>11, <2>1 DEF ReadPart
<1>12. CASE UNCHANGED salesVars
  BY <1>1, <1>3, <1>12 DEF salesVars, vars
<1> QED
  BY <1>5, <1>6, <1>7, <1>8, <1>9, <1>10, <1>11, <1>12 DEF SalesNext
-----------------------------------------------------------------------------
\* Reports, the clock and deleted stalls do not disturb settlement: with them
\* the orders and the rate behave as CashSettlement says.
THEOREM ReportsDisturbNothing == SalesSpec => Spec
<1>1. SalesInit => Init
  BY DEF SalesInit
<1>2. [SalesNext]_salesVars => [Next]_vars
  BY DEF SalesNext, Pass, SetRate, Sell, Settle, DeleteStall, RequestReport, ReadPart, Next,
         salesVars, vars
<1> QED
  BY <1>1, <1>2, PTL DEF SalesSpec, Spec

\* For every clock, period, stall and page size: a report tells each settled sale
\* of its local calendar days once and nothing else, at the sale's own rate,
\* whatever is sold, settled or deleted while it is made.
THEOREM ReportsTellSales == SalesSpec => []ReportTellsSales
<1>1. SalesInv => ReportTellsSales
  <2> SUFFICES ASSUME SalesInv PROVE ReportTellsSales
    OBVIOUS
  <2>1. ASSUME report.pc = "made", NEW o \in Orders, Shown(o) # {}
        PROVE  LET off == Revenue({o}) * order[o].rate - Required(order[o])
               IN  /\ 200 * off <= 101 * order[o].rate
                   /\ 0 - 200 * off <= 101 * order[o].rate
    <3>1. order[o].status # "none"
      BY <2>1 DEF SalesInv, ShownExist
    <3>2. order[o] \in Row /\ RateAllowed(order[o].rate)
      BY <3>1 DEF SalesInv, SettlementInv, TypeOK, RatesAllowed
    <3>3. order[o].rate > 0
      BY <3>2, RateAssumption DEF RateAllowed, Row
    <3> QED
      BY <3>2, <3>3, RevenueIsNear
  <2>2. RevenueAtOwnRate
    BY ONLY <2>1, Zenon DEF RevenueAtOwnRate
  <2> QED
    BY <2>2 DEF SalesInv, ReportTellsSales
<1> QED
  BY <1>1, SalesInitially, SalesStep, PTL DEF SalesSpec
-----------------------------------------------------------------------------
(* Changes of the catalog, with the screens beside them. *)

\* Records are told by their fields.
Columns == {"state", "category", "price", "at"}
RequestFields == {"pc", "kind", "target", "asked", "read"}

\* The rows of products, each of a category that is in its table.
RowsShaped ==
    /\ product = [p \in Products |-> product[p]]
    /\ \A p \in Products :
          /\ product[p] = [c \in Columns |-> product[p][c]]
          /\ product[p].state # "absent" => product[p].category \in categories

\* Only a change of a product is checked before its transaction.
RequestShaped(req) ==
    \/ req = NoRequest
    \/ /\ req = [f \in RequestFields |-> req[f]]
       /\ req.pc \in {"posted", "checked", "locked", "read", "done", "refused"}
       /\ req.pc = "checked" => req.kind \in {"update", "delete"}

RequestsShaped ==
    /\ request = [r \in Requests |-> request[r]]
    /\ \A r \in Requests : RequestShaped(request[r])

\* The request holds the lock of its product.
Working(r) == request[r].pc \in {"locked", "read"} /\ OnProduct(r)

\* Nobody else works on the product, and what was read still holds.
LocksExclude ==
    \A r \in Requests : Working(r) =>
        /\ \A q \in Requests : Working(q) /\ request[q].target = request[r].target => q = r
        /\ request[r].target \in Products =>
              /\ product[request[r].target].state # "absent"
              /\ request[r].pc = "read" => request[r].read = product[request[r].target].at

CatalogInv == RowsShaped /\ RequestsShaped /\ LocksExclude

\* A step of somebody who is not the server.
Clients ==
    /\ UNCHANGED <<categories, product>>
    /\ request' = [r \in Requests |-> request'[r]]
    /\ \A r \in Requests :
          \/ request'[r] = request[r]
          \/ \E kind, target, asked : request'[r] = Posted(kind, target, asked)
          \/ request'[r] = NoRequest

\* The catalog there is at first.
LEMMA InitCatalog == CatalogInit => CatalogInv
<1> SUFFICES ASSUME CatalogInit PROVE CatalogInv
  OBVIOUS
<1> USE DEF CatalogInit
<1>1. RowsShaped
  BY MenusAssumption DEF RowsShaped, Columns
<1>2. RequestsShaped
  BY DEF RequestsShaped, RequestShaped
<1>3. LocksExclude
  BY DEF LocksExclude, Working, NoRequest
<1> QED
  BY <1>1, <1>2, <1>3 DEF CatalogInv

\* Posting a request and taking its answer disturb nothing.
LEMMA ClientsKeep == CatalogInv /\ Clients => CatalogInv'
<1> SUFFICES ASSUME CatalogInv, Clients PROVE CatalogInv'
  OBVIOUS
<1>1. RowsShaped'
  BY DEF CatalogInv, Clients, RowsShaped, Columns
<1>2. RequestsShaped'
  BY DEF CatalogInv, Clients, RequestsShaped, RequestShaped, Posted, RequestFields, NoRequest
<1>3. LocksExclude'
  <2>1. ASSUME NEW r \in Requests, Working(r)'
        PROVE  request'[r] = request[r] /\ Working(r)
    BY <2>1 DEF Clients, Working, OnProduct, Posted, NoRequest
  <2> QED
    BY <2>1 DEF CatalogInv, LocksExclude, Clients, Working, OnProduct
<1> QED
  BY <1>1, <1>2, <1>3 DEF CatalogInv

\* A step that moves one request on.
LEMMA RequestMoves ==
    ASSUME CatalogInv, NEW r \in Requests, NEW pc, Set(r, pc),
           pc \in {"checked", "locked", "read", "done", "refused"},
           request[r].pc # "none",
           pc = "checked" => OnProduct(r)
    PROVE  /\ RequestsShaped'
           /\ request'[r].pc = pc
           /\ request'[r].kind = request[r].kind /\ request'[r].target = request[r].target
           /\ request'[r].asked = request[r].asked /\ request'[r].read = request[r].read
           /\ \A q \in Requests \ {r} : request'[q] = request[q]
<1>1. request[r] = [f \in RequestFields |-> request[r][f]]
  BY DEF CatalogInv, RequestsShaped, RequestShaped, NoRequest
<1>2. request'[r] = [request[r] EXCEPT !.pc = pc]
  BY DEF CatalogInv, RequestsShaped, Set
<1>3. /\ request'[r].pc = pc
      /\ request'[r].kind = request[r].kind /\ request'[r].target = request[r].target
      /\ request'[r].asked = request[r].asked /\ request'[r].read = request[r].read
      /\ request'[r] = [f \in RequestFields |-> request'[r][f]]
  BY <1>1, <1>2 DEF RequestFields
<1>4. \A q \in Requests \ {r} : request'[q] = request[q]
  BY DEF CatalogInv, RequestsShaped, Set
<1>5. request' = [q \in Requests |-> request'[q]]
  BY DEF CatalogInv, RequestsShaped, Set
<1> QED
  BY <1>3, <1>4, <1>5 DEF CatalogInv, RequestsShaped, RequestShaped, OnProduct


\* What every step of the server must show.
KeepsPromise(r) == CatalogInv' /\ \A q \in Requests : Writes(q) => LeavesRest(q)

\* A request that goes on without working.
LEMMA QuietMoves ==
    ASSUME CatalogInv, NEW r \in Requests, NEW pc, Set(r, pc),
           pc \in {"checked", "done", "refused"},
           request[r].pc # "none", pc = "checked" => OnProduct(r),
           UNCHANGED product, RowsShaped'
    PROVE  CatalogInv'
<1>1. /\ RequestsShaped'
      /\ request'[r].pc = pc
      /\ \A q \in Requests \ {r} : request'[q] = request[q]
  BY RequestMoves
<1>2. ASSUME NEW q \in Requests, Working(q)'
      PROVE  q # r /\ request'[q] = request[q] /\ Working(q)
  BY <1>1, <1>2 DEF Working, OnProduct
<1>3. LocksExclude'
  BY <1>2 DEF CatalogInv, LocksExclude, Working, OnProduct
<1> QED
  BY <1>1, <1>3 DEF CatalogInv

\* The products stay, and with them what is said of every one of them.
LEMMA ProductsStay ==
    ASSUME CatalogInv, UNCHANGED product, categories \subseteq categories'
    PROVE  /\ RowsShaped'
           /\ \A q \in Requests : request[q].kind # "update" => LeavesRest(q)
<1>1. RowsShaped'
  BY DEF CatalogInv, RowsShaped, Columns
<1>2. \A p \in Products : product'[p].state = "live" => product'[p].category \in categories'
  BY <1>1 DEF RowsShaped
<1> QED
  BY <1>1, <1>2 DEF LeavesRest

\* A step that refuses a request, or lets it on without a write.
LEMMA NoWriteKeeps ==
    ASSUME CatalogInv, NEW r \in Requests, NEW pc, Set(r, pc),
           pc \in {"checked", "refused"},
           request[r].pc # "none", pc = "checked" => OnProduct(r),
           UNCHANGED <<product, categories>>
    PROVE  KeepsPromise(r)
<1>1. CatalogInv'
  BY ProductsStay, QuietMoves
<1>2. /\ request'[r].pc = pc
      /\ \A q \in Requests \ {r} : request'[q] = request[q]
  BY RequestMoves
<1> QED
  BY <1>1, <1>2 DEF KeepsPromise, Writes

\* requireOwnedProduct and validateCategory read without a lock and promise nothing.
LEMMA CheckKeeps ==
    ASSUME CatalogInv, NEW r \in Requests, Check(r)
    PROVE  KeepsPromise(r)
<1>1. request[r].pc = "posted" /\ UNCHANGED <<product, categories>>
  BY DEF Check
<1>2. CASE /\ OnProduct(r)
           /\ Set(r, IF Live(request[r].target) THEN "checked" ELSE "refused")
  <2>1. CASE Live(request[r].target)
    BY <1>1, <1>2, <2>1, NoWriteKeeps
  <2>2. CASE ~Live(request[r].target)
    BY <1>1, <1>2, <2>2, NoWriteKeeps
  <2> QED
    BY <2>1, <2>2
<1>3. CASE /\ request[r].kind = "create"
           /\ Set(r, IF request[r].asked.category \in categories THEN "read" ELSE "refused")
  <2>1. CASE request[r].asked.category \in categories
    <3>1. Set(r, "read")
      BY <1>3, <2>1
    <3>2. /\ RequestsShaped' /\ request'[r].pc = "read" /\ request'[r].kind = "create"
          /\ \A q \in Requests \ {r} : request'[q] = request[q]
      BY <1>1, <1>3, <3>1, RequestMoves
    <3>3. \A q \in Requests : Working(q)' => Working(q) /\ request'[q] = request[q]
      BY <3>2 DEF Working, OnProduct
    <3>4. LocksExclude'
      BY <1>1, <3>3 DEF CatalogInv, LocksExclude, Working, OnProduct
    <3> QED
      BY <1>1, <3>2, <3>4, ProductsStay DEF CatalogInv, KeepsPromise, Writes
  <2>2. CASE request[r].asked.category \notin categories
    BY <1>1, <1>3, <2>2, NoWriteKeeps
  <2> QED
    BY <2>1, <2>2
<1> QED
  BY <1>2, <1>3 DEF Check

\* A free lock: nobody works on the product the request is about to lock.
LEMMA FreeAlone ==
    ASSUME CatalogInv, NEW r \in Requests, request[r].pc = "checked", LockFree(r),
           NEW q \in Requests, Working(q), request[q].target = request[r].target
    PROVE  FALSE
<1>1. q # r
  BY DEF Working
<1>2. Held(q) = RowsOf(request[r].target)
  BY DEF Held, Working, OnProduct
<1>3. Needed(r) = RowsOf(request[r].target)
  BY DEF Needed
<1>4. request[r].target \in Needed(r) \cap Held(q)
  BY <1>2, <1>3 DEF RowsOf
<1> QED
  BY <1>1, <1>4 DEF LockFree, WaitsFor

\* Whoever gets the lock is alone at the product from then on.
LEMMA LockProductKeeps ==
    ASSUME CatalogInv, NEW r \in Requests, LockProduct(r)
    PROVE  KeepsPromise(r)
<1>1. request[r].pc = "checked" /\ LockFree(r) /\ UNCHANGED <<product, categories>>
  BY DEF LockProduct
<1>2. CASE Live(request[r].target)
  <2>1. Set(r, "locked")
    BY <1>2 DEF LockProduct
  <2>2. /\ RequestsShaped' /\ request'[r].pc = "locked"
        /\ request'[r].target = request[r].target
        /\ \A q \in Requests \ {r} : request'[q] = request[q]
    BY <1>1, <2>1, RequestMoves
  <2>3. \A q \in Requests \ {r} :
            Working(q)' => Working(q) /\ request[q].target # request[r].target
    BY <1>1, <2>2, FreeAlone DEF Working, OnProduct
  <2>4. LocksExclude'
    BY <1>1, <1>2, <2>2, <2>3 DEF CatalogInv, LocksExclude, Working, OnProduct, Live
  <2> QED
    BY <1>1, <2>2, <2>4, ProductsStay DEF CatalogInv, KeepsPromise, Writes
<1>3. CASE ~Live(request[r].target)
  <2>1. Set(r, "refused")
    BY <1>3 DEF LockProduct
  <2> QED
    BY <1>1, <2>1, NoWriteKeeps
<1> QED
  BY <1>2, <1>3

\* What is read under the lock is what there is.
LEMMA ReadAssignmentsKeeps ==
    ASSUME CatalogInv, NEW r \in Requests, ReadAssignments(r)
    PROVE  KeepsPromise(r)
<1>1. /\ request[r].pc = "locked" /\ request[r].kind = "update"
      /\ UNCHANGED <<product, categories>>
  BY DEF ReadAssignments
<1> DEFINE t == request[r].target
           known == Get(request[r].asked, "category", product[t].category) \in categories
<1>2. CASE known
  <2>1. request' = [request EXCEPT ![r].pc = "read", ![r].read = product[t].at]
    BY <1>2 DEF ReadAssignments
  <2>2. request' = [q \in Requests |-> request'[q]]
    BY <2>1 DEF CatalogInv, RequestsShaped
  <2>3. \A q \in Requests \ {r} : request'[q] = request[q]
    BY <2>1 DEF CatalogInv, RequestsShaped
  <2>4. request[r] = [f \in RequestFields |-> request[r][f]]
    BY <1>1 DEF CatalogInv, RequestsShaped, RequestShaped, NoRequest
  <2>5. request'[r] = [request[r] EXCEPT !.pc = "read", !.read = product[t].at]
    BY <2>1 DEF CatalogInv, RequestsShaped
  <2>6. /\ request'[r] = [f \in RequestFields |-> request'[r][f]]
        /\ request'[r].pc = "read" /\ request'[r].read = product[t].at
        /\ request'[r].kind = "update" /\ request'[r].target = t
    BY <1>1, <2>4, <2>5 DEF RequestFields
  <2>7. RequestsShaped'
    BY <2>2, <2>3, <2>6 DEF CatalogInv, RequestsShaped, RequestShaped
  <2>8. \A q \in Requests \ {r} : Working(q)' => Working(q) /\ request[q].target # t
    BY <1>1, <2>3 DEF CatalogInv, LocksExclude, Working, OnProduct
  <2>9. LocksExclude'
    BY <1>1, <2>3, <2>6, <2>8 DEF CatalogInv, LocksExclude, Working, OnProduct
  <2> QED
    BY <1>1, <2>3, <2>6, <2>7, <2>9, ProductsStay DEF CatalogInv, KeepsPromise, Writes
<1>3. CASE ~known
  <2>1. Set(r, "refused")
    BY <1>3 DEF ReadAssignments
  <2> QED
    BY <1>1, <2>1, NoWriteKeeps
<1> QED
  BY <1>2, <1>3

\* The end of a transaction that wrote one product: nobody else was at it.
LEMMA WrittenAlone ==
    ASSUME CatalogInv, NEW r \in Requests, Set(r, "done"), request[r].pc # "none",
           RowsShaped',
           \A q \in Requests \ {r} : Working(q) /\ request[q].target \in Products =>
               product'[request[q].target] = product[request[q].target]
    PROVE  /\ CatalogInv'
           /\ \A q \in Requests : Writes(q) => q = r
<1>1. /\ RequestsShaped' /\ request'[r].pc = "done"
      /\ \A q \in Requests \ {r} : request'[q] = request[q]
  BY RequestMoves
<1>2. \A q \in Requests : Working(q)' => q # r /\ Working(q)
  BY <1>1 DEF Working, OnProduct
<1>3. LocksExclude'
  BY <1>1, <1>2 DEF CatalogInv, LocksExclude, Working, OnProduct
<1> QED
  BY <1>1, <1>3 DEF CatalogInv, Writes

\* The row "new" differs from the row "old" in what was asked alone.
KeepsRest(old, new, asked) ==
    /\ new = [c \in Columns |-> new[c]]
    /\ new.state = old.state
    /\ new.category = Get(asked, "category", old.category)
    /\ "price" \notin DOMAIN asked => new.price = old.price
    /\ "stalls" \notin DOMAIN asked => DOMAIN new.at = DOMAIN old.at
    /\ \A s \in DOMAIN new.at \cap DOMAIN old.at :
          /\ "price" \notin DOMAIN asked => new.at[s].price = old.at[s].price
          /\ "visible" \notin DOMAIN asked => new.at[s].visible = old.at[s].visible

\* What updateProductById makes of a row whose assignments are as they were read.
LEMMA UpdateKeepsRest ==
    ASSUME NEW row, row = [c \in Columns |-> row[c]], NEW asked
    PROVE  KeepsRest(row, Updated(row, asked, row.at), asked)
<1> DEFINE new == Updated(row, asked, row.at)
           price == Get(asked, "price", row.price)
           at == IF DOMAIN asked \subseteq {"category"} THEN row.at
                 ELSE Reassigned(asked, row.at, price)
<1>1. new = [row EXCEPT !.category = Get(asked, "category", row.category),
                        !.price = price, !.at = at]
  BY DEF Updated
<1> SUFFICES KeepsRest(row, new, asked)
  OBVIOUS
<1> HIDE DEF new
<1>2. /\ new = [c \in Columns |-> new[c]] /\ new.state = row.state
      /\ new.category = Get(asked, "category", row.category)
      /\ new.price = price /\ new.at = at
  <2> HIDE DEF price, at
  <2> QED
    BY <1>1 DEF Columns
<1>3. "price" \notin DOMAIN asked => new.price = row.price
  BY <1>2 DEF Get
<1>4. CASE DOMAIN asked \subseteq {"category"}
  BY <1>2, <1>3, <1>4 DEF KeepsRest
<1>5. CASE ~(DOMAIN asked \subseteq {"category"})
  <2> DEFINE old(s) == IF s \in DOMAIN row.at THEN row.at[s]
                       ELSE IF DOMAIN row.at # {} THEN First(row.at)
                       ELSE [price |-> price, visible |-> TRUE]
             is(s) == [price |-> Get(asked, "price", old(s).price),
                       visible |-> Get(asked, "visible", old(s).visible)]
  <2>1. new.at = [s \in Get(asked, "stalls", DOMAIN row.at) |-> is(s)]
    BY <1>2, <1>5 DEF Reassigned
  <2>2. DOMAIN new.at = Get(asked, "stalls", DOMAIN row.at)
    BY <2>1
  <2>3. ASSUME NEW s \in DOMAIN new.at, s \in DOMAIN row.at
        PROVE  /\ new.at[s].price = Get(asked, "price", row.at[s].price)
               /\ new.at[s].visible = Get(asked, "visible", row.at[s].visible)
    <3>1. old(s) = row.at[s]
      BY <2>3
    <3> HIDE DEF old
    <3>2. new.at[s] = is(s)
      BY <2>1, <2>2, <2>3
    <3> QED
      BY <3>1, <3>2
  <2> QED
    BY <1>2, <1>3, <2>2, <2>3 DEF Get, KeepsRest
<1> QED
  BY <1>4, <1>5

\* updateProductById: the row is replaced by what was read and what was asked.
LEMMA WriteUpdateKeeps ==
    ASSUME CatalogInv, NEW r \in Requests, WriteUpdate(r)
    PROVE  KeepsPromise(r)
<1> DEFINE t == request[r].target
           asked == request[r].asked
           known == Get(asked, "category", product[t].category) \in categories
<1>1. request[r].pc = "read" /\ request[r].kind = "update" /\ UNCHANGED categories
  BY DEF WriteUpdate
<1>2. CASE known
  <2>1. /\ product' = [product EXCEPT ![t] = Updated(product[t], asked, request[r].read)]
        /\ Set(r, "done")
    BY <1>2 DEF WriteUpdate
  <2>2. Working(r) /\ (t \in Products => request[r].read = product[t].at)
    BY <1>1 DEF CatalogInv, LocksExclude, Working, OnProduct
  <2>3. product' = [p \in Products |-> product'[p]]
    BY <2>1 DEF CatalogInv, RowsShaped
  <2>4. \A p \in Products \ {t} : product'[p] = product[p]
    BY <2>1 DEF CatalogInv, RowsShaped
  <2>5. CASE t \in Products
    <3>1. product'[t] = Updated(product[t], asked, product[t].at)
      BY <2>1, <2>2, <2>5 DEF CatalogInv, RowsShaped
    <3>2. product[t] = [c \in Columns |-> product[t][c]]
      BY <2>5 DEF CatalogInv, RowsShaped
    <3>3. KeepsRest(product[t], product'[t], asked)
      BY <3>1, <3>2, UpdateKeepsRest
    <3>4. RowsShaped'
      BY <1>1, <1>2, <2>3, <2>4, <3>3 DEF CatalogInv, RowsShaped, KeepsRest
    <3>5. \A q \in Requests \ {r} : Working(q) => request[q].target # t
      BY <2>2 DEF CatalogInv, LocksExclude
    <3>6. CatalogInv' /\ \A q \in Requests : Writes(q) => q = r
      BY <1>1, <2>1, <2>4, <3>4, <3>5, WrittenAlone
    <3>7. LeavesRest(r)
      BY <1>1, <2>4, <3>3, <3>4 DEF LeavesRest, RowsShaped, KeepsRest, Get
    <3> QED
      BY <3>6, <3>7 DEF KeepsPromise
  <2>6. CASE t \notin Products
    <3>1. product' = product
      BY <2>1, <2>6 DEF CatalogInv, RowsShaped
    <3>2. RowsShaped'
      BY <1>1, <3>1, ProductsStay
    <3>3. CatalogInv' /\ \A q \in Requests : Writes(q) => q = r
      BY <1>1, <2>1, <3>1, <3>2, WrittenAlone
    <3>4. LeavesRest(r)
      BY <3>1, <3>2 DEF LeavesRest, RowsShaped
    <3> QED
      BY <3>3, <3>4 DEF KeepsPromise
  <2> QED
    BY <2>5, <2>6
<1>3. CASE ~known
  <2>1. Set(r, "refused") /\ UNCHANGED product
    BY <1>3 DEF WriteUpdate
  <2> QED
    BY <1>1, <2>1, NoWriteKeeps
<1> QED
  BY <1>2, <1>3

\* A new row takes an id that nobody works on.
LEMMA WriteCreateKeeps ==
    ASSUME CatalogInv, NEW r \in Requests, WriteCreate(r)
    PROVE  KeepsPromise(r)
<1> DEFINE asked == request[r].asked
<1>1. request[r].pc = "read" /\ request[r].kind = "create" /\ UNCHANGED categories
  BY DEF WriteCreate
<1>2. ASSUME asked.category \in categories, Set(r, "done"), NEW p \in Products,
             product[p].state = "absent",
             product' = [product EXCEPT ![p] =
                  [state |-> "live", category |-> asked.category, price |-> asked.price,
                   at |-> Reassigned(asked, << >>, asked.price)]]
      PROVE  KeepsPromise(r)
  <2>1. /\ product'[p].category = asked.category
        /\ product'[p] = [c \in Columns |-> product'[p][c]]
    BY <1>2 DEF CatalogInv, RowsShaped, Columns
  <2>2. \A q \in Products \ {p} : product'[q] = product[q]
    BY <1>2
  <2>3. product' = [q \in Products |-> product'[q]]
    BY <1>2 DEF CatalogInv, RowsShaped
  <2>4. RowsShaped'
    BY <1>1, <1>2, <2>1, <2>2, <2>3 DEF CatalogInv, RowsShaped
  <2>5. \A q \in Requests : Working(q) => request[q].target # p
    BY <1>2 DEF CatalogInv, LocksExclude
  <2>6. CatalogInv' /\ \A q \in Requests : Writes(q) => q = r
    BY <1>1, <1>2, <2>2, <2>4, <2>5, WrittenAlone
  <2>7. LeavesRest(r)
    BY <1>1, <1>2, <2>2, <2>4 DEF LeavesRest, RowsShaped, Live
  <2> QED
    BY <2>6, <2>7 DEF KeepsPromise
<1>3. CASE asked.category \notin categories /\ Set(r, "refused") /\ UNCHANGED product
  BY <1>1, <1>3, NoWriteKeeps
<1> QED
  BY <1>2, <1>3 DEF WriteCreate

\* deleteProductById marks a row that is nobody else's to change.
LEMMA WriteDeleteKeeps ==
    ASSUME CatalogInv, NEW r \in Requests, WriteDelete(r)
    PROVE  KeepsPromise(r)
<1> DEFINE t == request[r].target
<1>1. /\ request[r].pc = "locked" /\ request[r].kind = "delete" /\ UNCHANGED categories
      /\ product' = [product EXCEPT ![t].state = "deleted"] /\ Set(r, "done")
  BY DEF WriteDelete
<1>2. product' = [p \in Products |-> product'[p]]
  BY <1>1 DEF CatalogInv, RowsShaped
<1>3. \A p \in Products \ {t} : product'[p] = product[p]
  BY <1>1 DEF CatalogInv, RowsShaped
<1>4. t \in Products => /\ product'[t].category = product[t].category
                        /\ product'[t].state = "deleted"
                        /\ product'[t] = [c \in Columns |-> product'[t][c]]
  BY <1>1 DEF CatalogInv, RowsShaped, Columns
<1>5. t \in Products => product[t].state # "absent"
  BY <1>1 DEF CatalogInv, LocksExclude, Working, OnProduct
<1>6. RowsShaped'
  <2>1. ASSUME NEW p \in Products
        PROVE  /\ product'[p] = [c \in Columns |-> product'[p][c]]
               /\ product'[p].state # "absent" => product'[p].category \in categories'
    <3>1. CASE p = t
      BY <1>1, <1>4, <1>5, <3>1 DEF CatalogInv, RowsShaped
    <3>2. CASE p # t
      BY <1>1, <1>3, <3>2 DEF CatalogInv, RowsShaped
    <3> QED
      BY <3>1, <3>2
  <2> QED
    BY <1>2, <2>1 DEF RowsShaped
<1>7. \A q \in Requests \ {r} : Working(q) => request[q].target # t
  BY <1>1 DEF CatalogInv, LocksExclude, Working, OnProduct
<1>8. CatalogInv' /\ \A q \in Requests : Writes(q) => q = r
  BY <1>1, <1>3, <1>6, <1>7, WrittenAlone
<1>9. LeavesRest(r)
  BY <1>1, <1>3, <1>6 DEF LeavesRest, RowsShaped
<1> QED
  BY <1>8, <1>9 DEF KeepsPromise

\* A category more.
LEMMA AddCategoryKeeps ==
    ASSUME CatalogInv, NEW r \in Requests, AddCategory(r)
    PROVE  KeepsPromise(r)
<1>1. /\ request[r].pc = "posted" /\ request[r].kind = "addCategory" /\ Set(r, "done")
      /\ categories \subseteq categories' /\ UNCHANGED product
  BY DEF AddCategory
<1>2. RowsShaped' /\ LeavesRest(r)
  BY <1>1, ProductsStay
<1> QED
  BY <1>1, <1>2, WrittenAlone DEF KeepsPromise

\* The lock of a category is no lock of a product.
LEMMA LockCategoryKeeps ==
    ASSUME CatalogInv, NEW r \in Requests, LockCategory(r)
    PROVE  KeepsPromise(r)
<1>1. /\ request[r].pc = "posted" /\ request[r].kind = "dropCategory"
      /\ UNCHANGED <<product, categories>>
  BY DEF LockCategory
<1>2. CASE request[r].target \in categories
  <2>1. Set(r, "locked")
    BY <1>2 DEF LockCategory
  <2>2. /\ RequestsShaped' /\ request'[r].pc = "locked" /\ request'[r].kind = "dropCategory"
        /\ \A q \in Requests \ {r} : request'[q] = request[q]
    BY <1>1, <2>1, RequestMoves
  <2>3. \A q \in Requests : Working(q)' => q # r /\ Working(q)
    BY <2>2 DEF Working, OnProduct
  <2>4. LocksExclude'
    BY <1>1, <2>2, <2>3 DEF CatalogInv, LocksExclude, Working, OnProduct
  <2> QED
    BY <1>1, <2>2, <2>4, ProductsStay DEF CatalogInv, KeepsPromise, Writes
<1>3. CASE request[r].target \notin categories
  <2>1. Set(r, "refused")
    BY <1>3 DEF LockCategory
  <2> QED
    BY <1>1, <2>1, NoWriteKeeps
<1> QED
  BY <1>2, <1>3

\* No product that is in the table belongs to a category that is dropped.
LEMMA DropCategoryKeeps ==
    ASSUME CatalogInv, NEW r \in Requests, DropCategory(r)
    PROVE  KeepsPromise(r)
<1> DEFINE used == \E p \in Products : product[p].state # "absent"
                                        /\ product[p].category = request[r].target
<1>1. /\ request[r].pc = "locked" /\ request[r].kind = "dropCategory" /\ UNCHANGED product
  BY DEF DropCategory
<1>2. CASE used
  <2>1. Set(r, "refused") /\ UNCHANGED categories
    BY <1>2 DEF DropCategory
  <2> QED
    BY <1>1, <2>1, NoWriteKeeps
<1>3. CASE ~used
  <2>1. Set(r, "done") /\ categories' = categories \ {request[r].target}
    BY <1>3 DEF DropCategory
  <2>2. RowsShaped'
    BY <1>1, <1>3, <2>1 DEF CatalogInv, RowsShaped
  <2>3. CatalogInv' /\ \A q \in Requests : Writes(q) => q = r
    BY <1>1, <2>1, <2>2, WrittenAlone
  <2>4. LeavesRest(r)
    BY <1>1, <2>2 DEF LeavesRest, RowsShaped
  <2> QED
    BY <2>3, <2>4 DEF KeepsPromise
<1> QED
  BY <1>2, <1>3

\* The rolled back transaction had not written: it still waited for a row.
LEMMA EndDeadlockKeeps ==
    ASSUME CatalogInv, NEW r \in Requests, EndDeadlock(r)
    PROVE  KeepsPromise(r)
<1>1. Set(r, "refused") /\ UNCHANGED <<categories, product>>
  BY DEF EndDeadlock
<1>2. request[r].pc # "none"
  BY DEF EndDeadlock, WaitsFor, Needed
<1> QED
  BY <1>1, <1>2, NoWriteKeeps

\* Every step of the server.
LEMMA ServeKeeps ==
    ASSUME CatalogInv, NEW r \in Requests, Serve(r)
    PROVE  KeepsPromise(r)
BY CheckKeeps, LockProductKeeps, ReadAssignmentsKeeps, WriteUpdateKeeps, WriteCreateKeeps,
   WriteDeleteKeeps, AddCategoryKeeps, LockCategoryKeeps, DropCategoryKeeps, EndDeadlockKeeps
   DEF Serve

\* Whoever is not the server leaves the rows alone and posts requests.
CatalogRests == UNCHANGED <<categories, product, request>>

\* Steps of the rest of the system are steps of clients.
LEMMA RestIsClients == CatalogInv /\ CatalogRests => Clients
BY DEF CatalogInv, RequestsShaped, CatalogRests, Clients

\* Another manager asks for a change.
LEMMA AskIsClients ==
    ASSUME CatalogInv, NEW r \in Requests, NEW kind, NEW target, NEW asked,
           Ask(r, kind, target, asked), UNCHANGED <<categories, product>>
    PROVE  Clients
<1>1. request' = [request EXCEPT ![r] = Posted(kind, target, asked)]
  BY DEF Ask
<1>2. /\ request' = [q \in Requests |-> request'[q]]
      /\ request'[r] = Posted(kind, target, asked)
  BY <1>1 DEF CatalogInv, RequestsShaped
<1>3. \A q \in Requests \ {r} : request'[q] = request[q]
  BY <1>1 DEF CatalogInv, RequestsShaped
<1> QED
  BY <1>2, <1>3 DEF Clients

\* The tab sends the requests of one change.
LEMMA SendIsClients ==
    ASSUME CatalogInv, NEW kind, NEW targets, NEW requestKind, NEW asked,
           Send(kind, targets, requestKind, asked)
    PROVE  Clients
<1> DEFINE Posts(R, to) == [r \in Requests |->
                IF r \in R THEN Posted(requestKind, to[r], asked) ELSE request[r]]
<1>1. PICK R \in SUBSET Requests : \E to \in [R -> targets] : request' = Posts(R, to)
  BY DEF Send
<1>2. PICK to \in [R -> targets] : request' = Posts(R, to)
  BY <1>1
<1>3. request' = [r \in Requests |-> request'[r]]
  BY <1>2
<1>4. \A r \in Requests : \/ request'[r] = request[r]
                          \/ request'[r] = Posted(requestKind, to[r], asked)
  BY <1>2
<1>5. UNCHANGED <<categories, product>>
  BY DEF Send
<1> QED
  BY <1>3, <1>4, <1>5 DEF Clients

\* An answer is taken.
LEMMA AnsweredIsClients ==
    ASSUME CatalogInv, NEW r \in Requests, Answered(r)
    PROVE  Clients
<1>1. request' = [request EXCEPT ![r] = NoRequest] /\ UNCHANGED <<categories, product>>
  BY DEF Answered
<1>2. request' = [q \in Requests |-> request'[q]] /\ request'[r] = NoRequest
  BY <1>1 DEF CatalogInv, RequestsShaped
<1>3. \A q \in Requests \ {r} : request'[q] = request[q]
  BY <1>1 DEF CatalogInv, RequestsShaped
<1> QED
  BY <1>1, <1>2, <1>3 DEF Clients

\* What happens in the tab of the menu and of the report.
LEMMA MenuIsClients ==
    ASSUME CatalogInv, ScreenNext
    PROVE  Clients \/ \E r \in Requests : Serve(r)
<1>1. ASSUME NEW r \in Requests, Serving(r)
      PROVE  Serve(r)
  BY <1>1 DEF Serving
<1>2. ASSUME NEW r \in Requests, OtherManager(r)
      PROVE  Clients
  BY <1>2, AskIsClients DEF OtherManager
<1>3. AutoRefresh => CatalogRests
  BY DEF AutoRefresh, Others, catalogVars, CatalogRests
<1>4. ASSUME NEW l, \/ ReadCategories(l) \/ ReadProducts(l)
                    \/ ShowLoad(l) \/ FailLoad(l)
      PROVE  CatalogRests
  BY <1>4 DEF ReadCategories, ReadProducts, ShowLoad, FailLoad, Others, catalogVars, CatalogRests
<1>5. ASSUME NEW p, \/ OpenEditor(p) \/ ToggleAvailability(p)
                    \/ DeleteProduct(p)
      PROVE  Clients
  <2>1. OpenEditor(p) => CatalogRests
    BY DEF OpenEditor, Others, catalogVars, CatalogRests
  <2> QED
    BY <1>5, <2>1, RestIsClients, SendIsClients DEF ToggleAvailability, DeleteProduct
<1>6. ASSUME NEW u, SaveProduct(u) \/ NewProduct(u)
      PROVE  Clients
  BY <1>6, SendIsClients DEF SaveProduct, NewProduct
<1>7. ASSUME NEW P, NEW c, \/ MoveProducts(P, c) \/ SaveCategory(c)
                           \/ DeleteCategory(c)
      PROVE  Clients
  BY <1>7, SendIsClients DEF MoveProducts, SaveCategory, DeleteCategory
<1>8. ASSUME \/ RecordSale \/ TakeSearch \/ TimedFetch
             \/ HandleRefresh \/ AutoFetch
      PROVE  CatalogRests
  BY <1>8 DEF RecordSale, TakeSearch, TimedFetch, HandleRefresh, AutoFetch, Others, catalogVars,
         CatalogRests
<1>9. ASSUME NEW x, ChooseRange(x) \/ TurnPage(x) \/ TypeSearch(x)
      PROVE  CatalogRests
  BY <1>9 DEF ChooseRange, TurnPage, Choose, TypeSearch, CatalogRests
<1>10. ASSUME NEW f, Compute(f) \/ ShowReport(f) \/ FailReport(f)
       PROVE  CatalogRests
  BY <1>10 DEF Compute, ShowReport, FailReport, Others, catalogVars, CatalogRests
<1> QED
  BY <1>1, <1>2, <1>3, <1>4, <1>5, <1>6, <1>7, <1>8, <1>9, <1>10, RestIsClients,
     AnsweredIsClients DEF ScreenNext

\* What happens to accounts, stalls and terminals, and in the tab that shows them.
LEMMA TeamRests == TeamNext => CatalogRests
<1> SUFFICES ASSUME TeamNext PROVE CatalogRests
  OBVIOUS
<1> USE DEF CatalogRests, Elsewhere, catalogVars
<1>1. ASSUME NEW k, \/ Served(k) \/ Answer(k) \/ ReadList(k)
                    \/ ShowList(k) \/ FailList(k)
      PROVE  CatalogRests
  BY <1>1 DEF Served, Commit, ReadAccount, WriteAccount, Answer, ReadList, ShowList, FailList
<1>2. AutoReload \/ CancelTransfer \/ CloseForm => CatalogRests
  BY DEF AutoReload, CancelTransfer, CloseForm
<1>3. ASSUME NEW d, NEW s, RegisterTerminal(d, s)
      PROVE  CatalogRests
  BY <1>3 DEF RegisterTerminal
<1>4. ASSUME NEW kind, NEW who, NEW s, OtherTeamManager(kind, who, s)
      PROVE  CatalogRests
  BY <1>4 DEF OtherTeamManager
<1>5. ASSUME NEW s, SelectStall(s) \/ HandleAddStall(s)
      PROVE  CatalogRests
  BY <1>5 DEF SelectStall, HandleAddStall, Change, Request
<1>6. ASSUME NEW c, \/ HandleAssign(c) \/ HandleUnassign(c)
                    \/ ToggleUserActive(c) \/ DeleteUser(c)
                    \/ OpenForm(c) \/ HandleDeregisterDevice(c)
      PROVE  CatalogRests
  BY <1>6 DEF HandleAssign, HandleUnassign, ToggleUserActive, DeleteUser, OpenForm,
              HandleDeregisterDevice, Change, Request
<1>7. HandleConfirmTransfer \/ HandleDeleteStall => CatalogRests
  BY DEF HandleConfirmTransfer, HandleDeleteStall, Change, Request
<1>8. ASSUME NEW c, NEW e, OtherEdit(c, e) \/ AddUser(c, e) \/ SaveUser(e)
      PROVE  CatalogRests
  BY <1>8 DEF OtherEdit, AddUser, SaveUser, Change, Request
<1> QED
  BY <1>1, <1>2, <1>3, <1>4, <1>5, <1>6, <1>7, <1>8 DEF TeamNext

\* For any catalog, any managers and any screens: a change of products or categories
\* that takes effect leaves alone, as the last change left it, what it was not asked
\* to change, although updateProductById writes assignments it read before.
THEOREM ChangesLeaveRest == ManagementSpec => LeavesRestAlone
<1>1. TeamInit => CatalogInv
  BY InitCatalog DEF TeamInit, ScreenInit
<1>2. ASSUME CatalogInv, ManagementNext
      PROVE  Clients \/ \E r \in Requests : Serve(r)
  BY <1>2, MenuIsClients, TeamRests, RestIsClients DEF ManagementNext
<1>3. CatalogInv /\ Clients => \A r \in Requests : ~Writes(r)
  BY DEF CatalogInv, Clients, Writes, Posted, NoRequest
<1>4. CatalogInv /\ [ManagementNext]_allVars => CatalogInv'
  <2>1. CatalogInv /\ UNCHANGED allVars => CatalogInv'
    BY RestIsClients, ClientsKeep DEF allVars, screenVars, catalogVars, CatalogRests
  <2> QED
    BY <1>2, <2>1, ClientsKeep, ServeKeeps DEF KeepsPromise
<1>5. CatalogInv /\ [ManagementNext]_allVars
        => [\A r \in Requests : Writes(r) => LeavesRest(r)]_catalogVars
  <2>1. UNCHANGED allVars => UNCHANGED catalogVars
    BY DEF allVars, screenVars
  <2> QED
    BY <1>2, <1>3, <2>1, ServeKeeps DEF KeepsPromise
<1> QED
  BY <1>1, <1>4, <1>5, PTL DEF ManagementSpec, LeavesRestAlone
-----------------------------------------------------------------------------
(* The credentials of accounts that are updated one at a time. *)

\* No update of an account reads it while another has read and not yet written it.
OneUpdateAtATime ==
    \A j, k \in calls : j.pc = "read" /\ k.pc = "read" /\ j.who = k.who => j = k

\* Accounts and requests are told by their fields as well.
AccountFields == {"state", "role", "active", "password", "pin"}
CallFields == {"pc", "id", "kind", "who", "at", "asked", "read", "mine"}

\* An account there is or was has the credential of its role.
AccountsFit ==
    /\ account = [c \in People |-> account[c]]
    /\ \A c \in People :
          /\ account[c] = [f \in AccountFields |-> account[c][f]]
          /\ account[c].state # "absent" => FitsRole(account[c])

\* An update that has read the account knows its role and brings what it lacks.
Informed(k) ==
    /\ k.who \in People
    /\ account[k.who].state # "absent" /\ account[k.who].role = k.read
    /\ NeedsNothingNew(k.asked, k.read, Get(k.asked, "role", k.read))

CallShaped(k) ==
    /\ k = [f \in DOMAIN k |-> k[f]] /\ "pc" \in DOMAIN k
    /\ k.pc \in {"sent", "read"} => DOMAIN k = CallFields

CallsInformed == \A k \in calls : CallShaped(k) /\ (k.pc = "read" => Informed(k))

CredentialInv == AccountsFit /\ CallsInformed

\* At first accounts are cashiers with a PIN, and nothing is asked for.
LEMMA CredentialInit == TeamInit => CredentialInv
<1> SUFFICES ASSUME TeamInit PROVE CredentialInv
  OBVIOUS
<1>1. PICK hired : account = [c \in People |-> IF c \in hired THEN Employed ELSE NoAccount]
  BY DEF TeamInit
<1>2. /\ NoAccount.state = "absent"
      /\ NoAccount = [f \in AccountFields |-> NoAccount[f]]
  BY DEF NoAccount, AccountFields
<1>3. /\ Employed.role = "cashier" /\ Employed.pin = TRUE /\ Employed.password = FALSE
      /\ Employed = [f \in AccountFields |-> Employed[f]]
  BY DEF Employed, NoAccount, AccountFields
<1>4. FitsRole(Employed)
  BY <1>3 DEF FitsRole
<1>5. AccountsFit
  BY <1>1, <1>2, <1>3, <1>4 DEF AccountsFit
<1>6. calls \in {{}, {Reload("load")}}
  BY DEF TeamInit
<1>7. CallsInformed
  BY <1>6 DEF CallsInformed, CallShaped, Reload
<1> QED
  BY <1>5, <1>7 DEF CredentialInv

\* A step that leaves the accounts alone and adds no informed request.
LEMMA AccountsStay ==
    ASSUME CredentialInv, UNCHANGED account,
           \A k \in calls' : k \in calls \/ (CallShaped(k) /\ k.pc # "read")
    PROVE  CredentialInv'
BY DEF CredentialInv, AccountsFit, CallsInformed, CallShaped, Informed

\* New requests and loads.
LEMMA CallsShaped ==
    /\ \A kind : CallShaped(Reload(kind)) /\ Reload(kind).pc # "read"
    /\ \A kind, who, at, asked, mine :
          /\ CallShaped(Asked(kind, who, at, asked, mine))
          /\ Asked(kind, who, at, asked, mine).pc = "sent"
<1>1. ASSUME NEW kind PROVE CallShaped(Reload(kind)) /\ Reload(kind).pc # "read"
  BY DEF CallShaped, Reload
<1>2. ASSUME NEW kind, NEW who, NEW at, NEW asked, NEW mine, NEW k,
             k = Asked(kind, who, at, asked, mine)
      PROVE  CallShaped(k) /\ k.pc = "sent"
  BY <1>2 DEF CallShaped, Asked, CallFields
<1> QED
  BY <1>1, <1>2

\* What becomes of a request that is decided.
LEMMA BecomesShaped ==
    ASSUME CredentialInv, NEW k, CallShaped(k), NEW pc, pc \in {"ok", "refused"}, Becomes(k, pc)
    PROVE  \A j \in calls' : j \in calls \/ (CallShaped(j) /\ j.pc # "read")
<1>1. /\ CallShaped([k EXCEPT !.pc = pc])
      /\ [k EXCEPT !.pc = pc].pc = pc
  BY DEF CallShaped
<1> QED
  BY <1>1 DEF Becomes

\* Decisions that change no account: staff, stalls and terminals.
LEMMA DecideKeeps ==
    ASSUME CredentialInv, NEW k, CallShaped(k), k.pc = "sent",
           k.kind \notin {"newUser", "deleteUser"}, Takes(k)
    PROVE  CredentialInv'
<1>1. UNCHANGED account /\ \E pc \in {"ok", "refused"} : Becomes(k, pc)
  BY DEF Takes, Assigns, Unassigns, CreatesStall, DeletesStall, Deregisters, Decide, Refuse,
         staffVars
<1> QED
  BY <1>1, BecomesShaped, AccountsStay

\* An account that is changed, and what the other requests know of it.
LEMMA AccountChanges ==
    ASSUME CredentialInv, NEW c \in People, NEW row,
           row = [f \in AccountFields |-> row[f]],
           row.state # "absent" => FitsRole(row),
           account' = [account EXCEPT ![c] = row],
           \A k \in calls' : k \in calls \/ (CallShaped(k) /\ k.pc # "read"),
           \A k \in calls' : k.pc = "read" /\ k.who = c =>
               row.state # "absent" /\ row.role = account[c].role
    PROVE  CredentialInv'
<1>1. /\ account' = [d \in People |-> account'[d]] /\ account'[c] = row
      /\ \A d \in People \ {c} : account'[d] = account[d]
  BY DEF CredentialInv, AccountsFit
<1>2. AccountsFit'
  BY <1>1 DEF CredentialInv, AccountsFit
<1>3. ASSUME NEW k \in calls'
      PROVE  CallShaped(k) /\ (k.pc = "read" => Informed(k)')
  BY <1>1 DEF CredentialInv, CallsInformed, Informed
<1> QED
  BY <1>2, <1>3 DEF CredentialInv, CallsInformed, CallShaped

\* A new account has the credential that its request was checked for.
LEMMA CreateKeeps ==
    ASSUME CredentialInv, NEW k, CallShaped(k), CreatesUser(k)
    PROVE  CredentialInv'
<1> DEFINE c == k.who
           row == [state |-> "live", role |-> k.asked.role, active |-> k.asked.active,
                   password |-> k.asked.password, pin |-> k.asked.pin]
<1>1. CASE account[c].state = "absent" /\ FitsRole(k.asked)
  <2>1. account' = [account EXCEPT ![c] = row] /\ Becomes(k, "ok")
    BY <1>1 DEF CreatesUser, Decide
  <2>2. \A j \in calls' : j \in calls \/ (CallShaped(j) /\ j.pc # "read")
    BY <2>1, BecomesShaped
  <2>3. row = [f \in AccountFields |-> row[f]] /\ FitsRole(row)
    BY <1>1 DEF AccountFields, FitsRole
  <2>4. \A j \in calls' : j.pc = "read" => j.who # c
    BY <1>1, <2>2 DEF CredentialInv, CallsInformed, Informed
  <2>5. CASE c \in People
    <3> HIDE DEF c, row
    <3> QED
      BY <2>1, <2>2, <2>3, <2>4, <2>5, AccountChanges
  <2>6. CASE c \notin People
    <3>1. UNCHANGED account
      BY <2>1, <2>6 DEF CredentialInv, AccountsFit
    <3> QED
      BY <2>2, <3>1, AccountsStay
  <2> QED
    BY <2>5, <2>6
<1>2. CASE ~(account[c].state = "absent" /\ FitsRole(k.asked))
  <2>1. Becomes(k, "refused") /\ UNCHANGED account
    BY <1>2 DEF CreatesUser, Decide, Refuse, staffVars
  <2> QED
    BY <2>1, BecomesShaped, AccountsStay
<1> QED
  BY <1>1, <1>2

\* A deleted account keeps its role and its credential.
LEMMA DeleteKeeps ==
    ASSUME CredentialInv, NEW k, CallShaped(k), DeletesUser(k)
    PROVE  CredentialInv'
<1> DEFINE c == k.who
           row == [account[c] EXCEPT !.state = "deleted", !.active = FALSE]
<1>1. CASE c \in Members
  <2>1. /\ account' = [account EXCEPT ![c].state = "deleted", ![c].active = FALSE]
        /\ Becomes(k, "ok")
    BY <1>1 DEF DeletesUser, Decide
  <2>2. c \in People /\ account[c].state = "live"
    BY <1>1 DEF Members
  <2>3. account' = [account EXCEPT ![c] = row]
    BY <2>1, <2>2 DEF CredentialInv, AccountsFit
  <2>4. \A j \in calls' : j \in calls \/ (CallShaped(j) /\ j.pc # "read")
    BY <2>1, BecomesShaped
  <2>5. /\ row = [f \in AccountFields |-> row[f]] /\ row.state = "deleted"
        /\ row.role = account[c].role /\ row.pin = account[c].pin
        /\ row.password = account[c].password
    BY <2>2 DEF CredentialInv, AccountsFit, AccountFields
  <2>6. FitsRole(account[c])
    BY <2>2 DEF CredentialInv, AccountsFit
  <2>7. FitsRole(row)
    BY <2>5, <2>6 DEF FitsRole
  <2> HIDE DEF c, row
  <2> QED
    BY <2>2, <2>3, <2>4, <2>5, <2>7, AccountChanges
<1>2. CASE c \notin Members
  <2>1. Becomes(k, "refused") /\ UNCHANGED account
    BY <1>2 DEF DeletesUser, Decide, Refuse, staffVars
  <2> QED
    BY <2>1, BecomesShaped, AccountsStay
<1> QED
  BY <1>1, <1>2

\* A request that takes effect in one step, of this tab or of another manager.
LEMMA TakesKeeps ==
    ASSUME CredentialInv, NEW k, CallShaped(k), k.pc = "sent", Takes(k)
    PROVE  CredentialInv'
BY DecideKeeps, CreateKeeps, DeleteKeeps DEF Takes

\* An update reads the account before its transaction.
LEMMA ReadKeeps ==
    ASSUME CredentialInv, NEW k \in calls, ReadAccount(k)
    PROVE  CredentialInv'
<1> DEFINE old == account[k.who].role
           after == [k EXCEPT !.pc = "read", !.read = old]
<1>1. CallShaped(k) /\ k.pc = "sent" /\ UNCHANGED account
  BY DEF CredentialInv, CallsInformed, ReadAccount, Refuse, staffVars
<1>2. CASE k.who \in Members /\ NeedsNothingNew(k.asked, old, Get(k.asked, "role", old))
  <2>1. calls' = (calls \ {k}) \cup {after}
    BY <1>2 DEF ReadAccount
  <2>2. /\ CallShaped(after) /\ after.who = k.who /\ after.asked = k.asked /\ after.read = old
    BY <1>1 DEF CallShaped, CallFields
  <2>3. k.who \in People /\ account[k.who].state = "live"
    BY <1>2 DEF Members
  <2> HIDE DEF after
  <2>4. Informed(after)
    BY <1>2, <2>2, <2>3 DEF Informed
  <2> QED
    BY <1>1, <2>1, <2>2, <2>4 DEF CredentialInv, AccountsFit, CallsInformed, CallShaped, Informed
<1>3. CASE ~(k.who \in Members /\ NeedsNothingNew(k.asked, old, Get(k.asked, "role", old)))
  <2>1. Becomes(k, "refused")
    BY <1>3 DEF ReadAccount, Refuse
  <2> QED
    BY <1>1, <2>1, BecomesShaped, AccountsStay
<1> QED
  BY <1>2, <1>3

\* What the rules make of an account that still has the role they were applied to.
LEMMA RewrittenFits ==
    ASSUME NEW a, a = [f \in AccountFields |-> a[f]], FitsRole(a), NEW asked,
           NeedsNothingNew(asked, a.role, Get(asked, "role", a.role))
    PROVE  /\ Rewritten(a, asked, a.role) =
                 [f \in AccountFields |-> Rewritten(a, asked, a.role)[f]]
           /\ Rewritten(a, asked, a.role).state = a.state
           /\ FitsRole(Rewritten(a, asked, a.role))
<1> DEFINE new == Get(asked, "role", a.role)
           b == Rewritten(a, asked, a.role)
           pin == new = "cashier" /\ (a.pin \/ asked.pin)
           password == new # "cashier" /\ (a.password \/ asked.password)
<1>1. /\ b = [f \in AccountFields |-> b[f]]
      /\ b.state = a.state /\ b.role = new /\ b.pin = pin /\ b.password = password
  <2>1. b = [a EXCEPT !.role = new, !.active = Get(asked, "active", a.active),
                      !.pin = pin, !.password = password]
    BY DEF Rewritten
  <2> HIDE DEF b, new, pin, password
  <2> QED
    BY <2>1 DEF AccountFields
<1>2. pin <=> new = "cashier"
  BY DEF FitsRole, NeedsNothingNew
<1>3. password <=> new # "cashier"
  BY DEF FitsRole, NeedsNothingNew
<1> HIDE DEF b, new, pin, password
<1>4. FitsRole(b)
  BY <1>1, <1>2, <1>3 DEF FitsRole
<1> QED
  BY <1>1, <1>4 DEF b

\* The update that was alone writes over the role it has read.
LEMMA WriteKeeps ==
    ASSUME CredentialInv, OneUpdateAtATime, NEW k \in calls, WriteAccount(k)
    PROVE  CredentialInv'
<1> DEFINE c == k.who
           row == Rewritten(account[c], k.asked, k.read)
<1>1. /\ k.pc = "read" /\ Becomes(k, "ok") /\ account' = [account EXCEPT ![c] = row]
  BY DEF WriteAccount
<1>2. CallShaped(k) /\ Informed(k)
  BY <1>1 DEF CredentialInv, CallsInformed
<1>3. \A j \in calls' : j \in calls \/ (CallShaped(j) /\ j.pc # "read")
  BY <1>1, <1>2, BecomesShaped
<1>4. /\ row = [f \in AccountFields |-> row[f]] /\ FitsRole(row)
  <2>1. /\ account[c] = [f \in AccountFields |-> account[c][f]] /\ FitsRole(account[c])
        /\ k.read = account[c].role
        /\ NeedsNothingNew(k.asked, account[c].role, Get(k.asked, "role", account[c].role))
    BY <1>2 DEF Informed, CredentialInv, AccountsFit
  <2> QED
    BY <2>1, RewrittenFits
<1>5. \A j \in calls' : j.pc = "read" => j.who # c
  <2>1. ASSUME NEW j \in calls', j.pc = "read", j.who = c PROVE FALSE
    <3>1. j \in calls /\ j = k
      BY <1>1, <1>3, <2>1 DEF OneUpdateAtATime
    <3>2. [k EXCEPT !.pc = "ok"].pc = "ok"
      BY <1>2 DEF CallShaped
    <3> QED
      BY <1>1, <2>1, <3>1, <3>2 DEF Becomes
  <2> QED
    BY <2>1
<1>6. c \in People
  BY <1>2 DEF Informed
<1> HIDE DEF c, row
<1> QED
  BY <1>1, <1>3, <1>4, <1>5, <1>6, AccountChanges

\* One step of the accounts' screens, with updates that do not overlap.
LEMMA CredentialStep ==
    ASSUME CredentialInv, OneUpdateAtATime, ManagementNext
    PROVE  CredentialInv'
<1>1. CASE ScreenNext /\ UNCHANGED teamVars
  BY <1>1, AccountsStay DEF teamVars, staffVars, tabVars
<1>2. ASSUME NEW kind, NEW who, NEW at, NEW asked, NEW mine,
             calls' = calls \cup {Asked(kind, who, at, asked, mine)}, UNCHANGED account
      PROVE  CredentialInv'
  BY <1>2, CallsShaped, AccountsStay
<1>3. ASSUME NEW kind, NEW who, NEW at, NEW asked, NEW mine,
             Request(kind, who, at, asked, mine)
      PROVE  CredentialInv'
  BY <1>2, <1>3 DEF Request, staffVars
<1>4. ASSUME NEW k \in calls, Commit(k) PROVE CredentialInv'
  BY <1>4, TakesKeeps DEF Commit, CredentialInv, CallsInformed
<1>5. ASSUME NEW k \in calls, Answer(k) \/ ReadList(k) \/ ShowList(k) \/ FailList(k)
      PROVE  CredentialInv'
  <2>1. CASE Answer(k)
    <3>1. \A j \in calls' : j \in calls \/ j = Reload(k.kind)
      BY <2>1 DEF Answer
    <3> QED
      BY <2>1, <3>1, CallsShaped, AccountsStay DEF Answer, staffVars
  <2>2. CASE ReadList(k)
    <3> DEFINE after == [pc |-> "answered", kind |-> k.kind, mine |-> TRUE,
                         answer |-> TeamList]
    <3>1. calls' = (calls \ {k}) \cup {after} /\ UNCHANGED account
      BY <2>2 DEF ReadList, staffVars
    <3>2. CallShaped(after) /\ after.pc # "read"
      BY DEF CallShaped
    <3> HIDE DEF after
    <3> QED
      BY <3>1, <3>2, AccountsStay
  <2>3. CASE ShowList(k) \/ FailList(k)
    BY <2>3, AccountsStay DEF ShowList, FailList, staffVars
  <2> QED
    BY <1>5, <2>1, <2>2, <2>3
<1>6. ASSUME NEW d \in Terminals, NEW s \in StallIds, RegisterTerminal(d, s)
      PROVE  CredentialInv'
  BY <1>6, CallsShaped, AccountsStay DEF RegisterTerminal
<1>7. CASE AutoReload
  BY <1>7, CallsShaped, AccountsStay DEF AutoReload, staffVars
<1>8. ASSUME NEW kind, NEW who, NEW at, OtherTeamManager(kind, who, at)
      PROVE  CredentialInv'
  <2> DEFINE k == Asked(kind, who, at, << >>, FALSE)
  <2>1. Takes(k)
    BY <1>8 DEF OtherTeamManager
  <2>2. CallShaped(k) /\ k.pc = "sent"
    BY CallsShaped
  <2> HIDE DEF k
  <2> QED
    BY <2>1, <2>2, TakesKeeps
<1>9. ASSUME NEW c, NEW e, OtherEdit(c, e) \/ AddUser(c, e) PROVE CredentialInv'
  BY <1>3, <1>9 DEF OtherEdit, AddUser, Change
<1>10. ASSUME NEW s, SelectStall(s) \/ HandleAddStall(s) PROVE CredentialInv'
  BY <1>3, <1>10, AccountsStay DEF SelectStall, HandleAddStall, Change, staffVars
<1>11. ASSUME NEW c, HandleAssign(c) \/ HandleUnassign(c) PROVE CredentialInv'
  <2>1. CASE HandleAssign(c)
    <3>1. CASE ShownAt(c) = {}
      BY <1>3, <2>1, <3>1 DEF HandleAssign, Change
    <3>2. CASE ShownAt(c) # {}
      BY <2>1, <3>2, AccountsStay DEF HandleAssign, staffVars
    <3> QED
      BY <3>1, <3>2
  <2>2. CASE HandleUnassign(c)
    BY <1>3, <2>2 DEF HandleUnassign, Change
  <2> QED
    BY <1>11, <2>1, <2>2
<1>12. CASE HandleConfirmTransfer \/ HandleDeleteStall
  BY <1>3, <1>12 DEF HandleConfirmTransfer, HandleDeleteStall, Change
<1>13. CASE CancelTransfer \/ CloseForm
  BY <1>13, AccountsStay DEF CancelTransfer, CloseForm, staffVars
<1>14. ASSUME NEW d, HandleDeregisterDevice(d) PROVE CredentialInv'
  BY <1>3, <1>14 DEF HandleDeregisterDevice, Change
<1>15. ASSUME NEW c, ToggleUserActive(c) \/ DeleteUser(c) \/ OpenForm(c) PROVE CredentialInv'
  BY <1>3, <1>15, AccountsStay DEF ToggleUserActive, DeleteUser, OpenForm, Change, staffVars
<1>16. ASSUME NEW e, SaveUser(e) PROVE CredentialInv'
  BY <1>3, <1>16 DEF SaveUser, Change
<1> QED
  BY <1>1, <1>4, <1>5, <1>6, <1>7, <1>8, <1>9, <1>10, <1>11, <1>12, <1>13, <1>14, <1>15, <1>16,
     ReadKeeps, WriteKeeps DEF ManagementNext, TeamNext, Served

\* As long as no two updates of one account overlap between the read of updateUser and
\* its transaction, every account has exactly the credential of its role, whatever
\* else is created, deleted, edited and by whom.
THEOREM OverlapIsTheCause ==
    ManagementSpec /\ []OneUpdateAtATime => []OneCredential
<1>1. CredentialInv /\ OneUpdateAtATime /\ [ManagementNext]_allVars => CredentialInv'
  <2>1. CASE UNCHANGED allVars /\ CredentialInv
    BY <2>1, AccountsStay DEF allVars, teamVars, staffVars, tabVars
  <2> QED
    BY <2>1, CredentialStep
<1>2. CredentialInv => OneCredential
  BY DEF CredentialInv, AccountsFit, OneCredential, Members
<1> QED
  BY <1>1, <1>2, CredentialInit, PTL DEF ManagementSpec
=============================================================================
