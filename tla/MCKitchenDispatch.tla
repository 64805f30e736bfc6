------------------------- MODULE MCKitchenDispatch -------------------------
(***************************************************************************)
(* Model values and symmetry for checking KitchenDispatch with TLC.        *)
(***************************************************************************)
EXTENDS KitchenDispatch, TLC

CONSTANTS o1, o2, w1, w2, h1, h2, c1, c2

OneOrder == {o1}
OneWorker == {w1}
TwoWorkers == {w1, w2}
OneHandler == {h1}
TwoHandlers == {h1, h2}
OneChat == {c1}
TwoChats == {c1, c2}

\* Bound: a dispatch that outlasts its lock is combined with taps, payments and
\* reconnections, not with crashes, faults and manual retries.
OneKindOfTrouble ==
    \/ budget.slow = MaxSlow
    \/ /\ budget.crashes = MaxCrashes
       /\ budget.faults = MaxFaults
       /\ budget.requeues = MaxRequeues

\* The actors and the rows are interchangeable in the safety runs.
Symmetry == Permutations(Orders) \cup Permutations(Workers)
            \cup Permutations(Handlers) \cup Permutations(Chats)
=============================================================================
