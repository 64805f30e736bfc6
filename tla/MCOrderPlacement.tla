-------------------------- MODULE MCOrderPlacement --------------------------
(***************************************************************************)
(* Bounds for checking OrderPlacement with TLC.  The actors are            *)
(* interchangeable; the properties speak of fairness, so the symmetry is   *)
(* taken by hand: FirstRequest and FirstAdmin start first.                 *)
(***************************************************************************)
EXTENDS OrderPlacement, TLC

FirstRequest == CHOOSE r \in Requests : TRUE
FirstAdmin == CHOOSE a \in Admins : TRUE
FirstBody == CHOOSE b \in Bodies : TRUE
FirstCashier == CHOOSE c \in Cashiers : TRUE

InOrder ==
    /\ request[FirstRequest].pc = "new" => \A r \in Requests : request[r].pc = "new"
    /\ admin[FirstAdmin].pc = "new" => \A a \in Admins : admin[a].pc = "new"
    /\ request[FirstRequest].body \in {FirstBody, None}

\* Bound: requests of different content meet one assignment change, requests of
\* the same content two.  The other cashier is new, and one of two first
\* assignments is his, without requests beside them.
DifferentBodies == \E r \in Requests : request[r].body \notin {FirstBody, None}
FirstAssignments ==
    LET others == {a \in Admins : admin[a].cashier \notin {FirstCashier, None}} IN
    /\ others \subseteq Admins \ {FirstAdmin}
    /\ \A c \in Cashiers \ {FirstCashier} : assignment[c] # None => others # {}
    /\ others # {} => \A r \in Requests : request[r].pc = "new"
    /\ \A r \in Requests : request[r].cashier \in {FirstCashier, None}
FewAtOnce ==
    /\ InOrder
    /\ FirstAssignments
    /\ DifferentBodies => \A a \in Admins \ {FirstAdmin} : admin[a].pc = "new"
=============================================================================
