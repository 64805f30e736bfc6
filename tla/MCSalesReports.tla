--------------------------- MODULE MCSalesReports ---------------------------
(***************************************************************************)
(* Amounts, instants and periods for checking SalesReports with TLC.       *)
(* Amounts: a cent, a half cent short of the tie and across it, totals in  *)
(* either currency, tender in one or both, and a rate the backend refuses. *)
(* Instants, local time: the evening of 28 February, a Sunday's first hour  *)
(* on 1 March, Monday's first hour, noon on 31 March, whose previous month *)
(* has no 31st.  Custom periods of a day, a month and more.                *)
(***************************************************************************)
EXTENDS SalesReports

CONSTANTS o1, o2

MCOfferedRates == {4000, 4050, 4100}
MCUsdTotals == {1, 250, 999}
MCKhrTotals == {1, 10000, 40979}
MCUsdTenders == {0, 1, 251, 1000}
MCKhrTenders == {0, 1, 20, 21, 20500, 41000}

MCOffset == 7
MCMoments == {24 * 58 + 16, 24 * 59 - 7, 24 * 60 - 7, 24 * 89 + 5}
MCCustomDays == {30, 58, 89}

\* Every amount is settled by itself; reports are made over two orders, one in
\* dollars and one in riel.
SmallAmounts ==
    \A o \in Orders : order[o].status # "none" =>
        /\ order[o].totalUsd = 250 /\ order[o].totalKhr = 10000 /\ order[o].rate = 4000
        /\ order[o].receivedUsd \in {0, 1000} /\ order[o].receivedKhr = 0
        /\ order[o].currency = IF o = o1 THEN "khr" ELSE "usd"
OneQuestion ==
    \/ /\ report = NoReport /\ deleted = {}
       /\ now = 24 * 58 + 16
       /\ order[o2].status = "none"
    \/ SmallAmounts /\ rate = 4000 /\ report.pc # "made" /\ Cardinality(deleted) <= 1

Symmetry == Permutations(Stalls)
=============================================================================
