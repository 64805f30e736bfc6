---------------------------- MODULE SalesReports ----------------------------
(***************************************************************************)
(* The sales report over the orders CashSettlement settles.  A report      *)
(* covers a period of calendar days in the business's time zone and is put *)
(* together from queries that run side by side, each at a moment of its    *)
(* own; a report is followed here through one of its parts.  Instants are  *)
(* whole hours, UTC, since 1 January 2026; a calendar day ends with its    *)
(* last hour.                                                              *)
(***************************************************************************)
EXTENDS CashSettlement, FiniteSetsExt, SequencesExt

CONSTANTS
    Stalls,
    Offset,        \* REPORT_TIMEZONE_OFFSET in hours
    Moments,       \* bound: the instants considered, in January to March 2026
    CustomDays,    \* bound: the days a manager picks for a custom period
    PageSize       \* orders on a page of the ledger

VARIABLES
    now,
    sale,     \* created_at and stall_id of the orders
    deleted,  \* the stalls with is_deleted
    report    \* the report that is being made or was made last

salesVars == <<vars, now, sale, deleted, report>>
-----------------------------------------------------------------------------
(* The calendar of the first months of 2026. *)

\* The first days of December 2025, January, ... , April 2026.
MonthStarts == <<0 - 31, 0, 31, 59, 90>>

LocalDay(t) == (t + Offset) \div 24
LocalHour(t) == (t + Offset) % 24
Weekday(d) == (d + 3) % 7  \* 0 is Monday

ASSUME OrdersAssumption == IsFiniteSet(Orders)
ASSUME CalendarAssumption ==
    /\ Offset \in Int
    /\ Moments \subseteq Int
    /\ \A t \in Moments : LocalDay(t) \in 0..89  \* local dates, January to March
    /\ CustomDays \subseteq Int
    /\ PageSize \in Nat \ {0}

MonthOf(d) == CHOOSE m \in 1..4 : MonthStarts[m] <= d /\ d < MonthStarts[m + 1]
DaysIn(m) == MonthStarts[m + 1] - MonthStarts[m]
-----------------------------------------------------------------------------
(* report-range.util.js *)

\* parseDateOnly, without and with endOfDay
DayStart(d) == 24 * d - Offset
DayEnd(d) == 24 * d + 23 - Offset

Periods ==
    [range : {"today", "week", "month"}, first : {0}, last : {0}]
        \cup {[range |-> "custom", first |-> a, last |-> b] : a \in CustomDays, b \in CustomDays}

\* resolveDateRange; nothing bounds a report of an earlier last day.
Dated(p) == p.range = "custom" => p.first <= p.last

FirstDay(p) ==
    LET today == LocalDay(now) IN
    CASE p.range = "custom" -> p.first
      [] p.range = "today" -> today
      [] p.range = "week" -> today - Weekday(today)
      [] p.range = "month" -> MonthStarts[MonthOf(today)]

LastDay(p) == IF p.range = "custom" THEN p.last ELSE LocalDay(now)

\* resolvePreviousDateRange of the instants from and to
Previous(range, from, to) ==
    CASE range = "today" -> <<from - 24, to - 24>>
      [] range = "week" -> <<from - 168, to - 168>>
      [] range = "month" ->
            LET day == LocalDay(to)
                m == MonthOf(day)
                lastDay == Min({day - MonthStarts[m] + 1, DaysIn(m - 1)})
            IN  <<DayStart(MonthStarts[m - 1]), DayEnd(MonthStarts[m - 1] + lastDay - 1)>>
      [] range = "custom" -> <<from - (to - from + 1), from - 1>>

DayCount(from, to) == LocalDay(to) - LocalDay(from) + 1

Granularity(range, from, to) ==
    IF range = "today" \/ (range = "custom" /\ DayCount(from, to) = 1) THEN "hour"
    ELSE IF range = "custom" /\ DayCount(from, to) > 31 THEN "week"
    ELSE "day"
-----------------------------------------------------------------------------
(* report.repository.js and the mapping of its rows to points. *)

Between(t, from, to) == from <= t /\ t <= to
OfStall(o, s) == s = "all" \/ sale[o].stall = s

\* The sums count paid orders of stalls that are not deleted.
Sales(from, to, s) ==
    {o \in Orders : /\ order[o].status = "paid"
                    /\ Between(sale[o].at, from, to)
                    /\ OfStall(o, s)
                    /\ sale[o].stall \notin deleted}

\* The ledger lists every order, those of deleted stalls too.
Entries(from, to, s) ==
    {o \in Orders : /\ order[o].status # "none"
                    /\ Between(sale[o].at, from, to)
                    /\ OfStall(o, s)}

\* Points: what each bucket of a part shows.  A bucket the mapping does not
\* list is not shown, whatever the query returned for it.
GroupBy(S, key, Buckets) == [b \in Buckets |-> {o \in S : key[o] = b}]

HourPoints(from, to, s) ==
    GroupBy(Sales(from, to, s), [o \in Orders |-> LocalHour(sale[o].at)], 0..23)

\* A week is shown to its Sunday.
ShownEnd(range, from, to) == IF range = "week" THEN from + 167 ELSE to

DayPoints(range, from, to, s) ==
    GroupBy(Sales(from, to, s), [o \in Orders |-> LocalDay(sale[o].at)],
            LocalDay(from)..LocalDay(ShownEnd(range, from, to)))

\* Faulty variant: a week that is not full is left out.
WeekCountCutOff(from, to) == DayCount(from, to) \div 7

WeekCount(from, to) == (DayCount(from, to) + 6) \div 7

WeekPoints(from, to, s) ==
    GroupBy(Sales(from, to, s), [o \in Orders |-> (LocalDay(sale[o].at) - LocalDay(from)) \div 7],
            0..(WeekCount(from, to) - 1))

TrendPoints(range, from, to, s) ==
    CASE Granularity(range, from, to) = "hour" -> HourPoints(from, to, s)
      [] Granularity(range, from, to) = "day" -> DayPoints(range, from, to, s)
      [] Granularity(range, from, to) = "week" -> WeekPoints(from, to, s)

\* The orders newest first.  created_at keeps no fractions of its unit, and the
\* default sort has no second key: orders of one instant come in any order.
Listings(S) ==
    {f \in SetToSeqs(S) : \A i, j \in DOMAIN f : i < j => sale[f[i]].at >= sale[f[j]].at}

PageCount(S) == IF S = {} THEN 1 ELSE (Cardinality(S) + PageSize - 1) \div PageSize

Page(f, p) == {f[i] : i \in {j \in DOMAIN f : (p - 1) * PageSize < j /\ j <= p * PageSize}}

\* Every page comes from a query of its own.
Ledgers(S) ==
    {[p \in 1..PageCount(S) |-> Page(listing[p], p)] :
        listing \in [1..PageCount(S) -> Listings(S)]}

\* What the query of a part may answer.
PointsOf(part, range, from, to, s) ==
    CASE part = "summary" -> {<<Sales(from, to, s)>>}
      [] part = "stalls" -> {GroupBy(Sales(from, to, s), [o \in Orders |-> sale[o].stall], Stalls)}
      [] part = "hours" -> {HourPoints(from, to, s)}
      [] part = "trend" -> {TrendPoints(range, from, to, s)}
      [] part = "previous" ->
            {<<Sales(Previous(range, from, to)[1], Previous(range, from, to)[2], s)>>}
      [] part = "ledger" -> Ledgers(Entries(from, to, s))

Parts == {"summary", "stalls", "hours", "trend", "previous", "ledger"}

\* REPORTING_TOTAL_USD_SQL in hundredths of a cent: a riel price at the rate of
\* the order, divided to four decimals.
ReportingTotal(o) ==
    IF order[o].currency = "khr"
    THEN (2 * 10000 * order[o].totalKhr + order[o].rate) \div (2 * order[o].rate)
    ELSE 100 * order[o].totalUsd

\* roundUsd of a SUM, in cents
Revenue(S) == (MapThenSumSet(ReportingTotal, S) + 50) \div 100
-----------------------------------------------------------------------------
NoReport == [pc |-> "none"]

SalesInit ==
    /\ Init
    /\ now \in Moments
    /\ sale = [o \in Orders |-> [at |-> now, stall |-> "none"]]
    /\ deleted = {}
    /\ report = NoReport

\* Time passes.
Pass ==
    /\ \E t \in Moments : now < t /\ now' = t
    /\ UNCHANGED <<vars, sale, deleted, report>>

SetRate(r) == UpdateRate(r) /\ UNCHANGED <<now, sale, deleted, report>>

Sell(o, usd, khr, currency, s) ==
    /\ s \notin deleted
    /\ PlaceOrder(o, usd, khr, currency)
    /\ sale' = [sale EXCEPT ![o] = [at |-> now, stall |-> s]]
    /\ UNCHANGED <<now, deleted, report>>

Settle(o, usd, khr) == ConfirmCash(o, usd, khr) /\ UNCHANGED <<now, sale, deleted, report>>

DeleteStall(s) ==
    /\ s \notin deleted
    /\ deleted' = deleted \cup {s}
    /\ UNCHANGED <<vars, now, sale, report>>

\* getSalesReport resolves the period against the clock; what is settled at this
\* moment is noted for the property below.
RequestReport(p, s, part) ==
    LET from == DayStart(FirstDay(p))
        to == DayEnd(LastDay(p))
    IN  /\ report = NoReport
        /\ Dated(p)
        /\ report' = [pc |-> "reading", range |-> p.range, stall |-> s, part |-> part,
                      from |-> from, to |-> to, first |-> FirstDay(p), last |-> LastDay(p),
                      before |-> {o \in Orders : order[o].status = "paid"},
                      points |-> << >>]
        /\ UNCHANGED <<vars, now, sale, deleted>>

\* The query of the part is answered, and its rows are mapped.
ReadPart ==
    /\ report.pc = "reading"
    /\ \E points \in PointsOf(report.part, report.range, report.from, report.to, report.stall) :
          report' = [report EXCEPT !.pc = "made", !.points = points]
    /\ UNCHANGED <<vars, now, sale, deleted>>

SalesNext ==
    \/ Pass
    \/ \E r \in OfferedRates : SetRate(r)
    \/ \E o \in Orders, usd \in UsdTotals, khr \in KhrTotals, c \in {"usd", "khr"},
          s \in Stalls : Sell(o, usd, khr, c, s)
    \/ \E o \in Orders, usd \in UsdTenders, khr \in KhrTenders : Settle(o, usd, khr)
    \/ \E s \in Stalls : DeleteStall(s)
    \/ \E p \in Periods, s \in Stalls \cup {"all"}, part \in Parts : RequestReport(p, s, part)
    \/ ReadPart

SalesSpec == SalesInit /\ [][SalesNext]_salesVars
-----------------------------------------------------------------------------
\* The calendar days of the local dates the manager asked for.
InPeriod(o) == LocalDay(sale[o].at) \in report.first..report.last

Shown(o) == {b \in DOMAIN report.points : o \in report.points[b]}

\* Another order of the report was placed at the same instant.
Tied(o) ==
    \E q \in Orders \ {o} :
        order[q].status # "none" /\ OfStall(q, report.stall) /\ sale[q].at = sale[o].at

\* Every part of a report is complete: an order that was settled when the report
\* was asked for, on one of its local calendar days, appears in exactly one
\* hour, day, week, stall or ledger page, and nothing appears that is outside
\* the period or unsettled.  The sums leave deleted stalls out, and only orders
\* of one instant may change places between two pages of the ledger.  The days
\* of the comparison come before the period.
EachSaleCountedOnce ==
    report.pc = "made" =>
        /\ \A o \in report.before :
              /\ InPeriod(o) /\ OfStall(o, report.stall)
              /\ IF report.part = "ledger" THEN ~Tied(o) ELSE sale[o].stall \notin deleted
              => Cardinality(Shown(o)) = IF report.part = "previous" THEN 0 ELSE 1
        /\ \A o \in Orders : Shown(o) # {} =>
              /\ OfStall(o, report.stall)
              /\ IF report.part = "previous"
                 THEN LocalDay(sale[o].at) < report.first
                 ELSE InPeriod(o)
              /\ report.part # "ledger" => order[o].status = "paid"

\* What an order adds to the revenue is its total at the rate it was placed at,
\* whichever rate the owner sets later; rounding may cost or gain half a cent and
\* half a hundredth of one.
RevenueAtOwnRate ==
    report.pc = "made" =>
        \A o \in Orders : Shown(o) # {} =>
            LET off == Revenue({o}) * order[o].rate - Required(order[o])
            IN  200 * off <= 101 * order[o].rate /\ 0 - 200 * off <= 101 * order[o].rate

\* The report tells the sales of its period.
ReportTellsSales == EachSaleCountedOnce /\ RevenueAtOwnRate
=============================================================================
