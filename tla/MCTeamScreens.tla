---------------------------- MODULE MCTeamScreens ----------------------------
(***************************************************************************)
(* Changes for checking the management screens with TLC.  Of the catalog:  *)
(* each column alone, two of them, and a whole record as the editor and    *)
(* the POST send it.  Of accounts: an end of employment as a client of the *)
(* API may send it, a promotion and a return to the till with their new    *)
(* credential, and a whole new cashier.                                    *)
(***************************************************************************)
EXTENDS TeamScreens

CONSTANTS c1, c2, s1, s2, p1, p2, u1, u2

MCUpdates ==
    {[category |-> c2], [price |-> 2], [visible |-> FALSE], [stalls |-> {s1}],
     [category |-> c1, price |-> 1, stalls |-> {s1, s2}, visible |-> TRUE]}

Absent == [state |-> "absent", category |-> c1, price |-> 1, at |-> << >>]
Sold(c) == [state |-> "live", category |-> c, price |-> 1,
            at |-> [s \in StallIds |-> [price |-> 1, visible |-> TRUE]]]

MCMenus == {p1 :> Sold(c1) @@ p2 :> Sold(c2), p1 :> Sold(c2) @@ p2 :> Absent}

MCChanges == {[price |-> 2]}

MCRosters == [stalls |-> {{u1}}, users |-> {{u1}}]

MCEdits ==
    {[active |-> FALSE, password |-> FALSE, pin |-> FALSE],
     [role |-> "manager", password |-> TRUE, pin |-> FALSE],
     [role |-> "cashier", active |-> TRUE, password |-> FALSE, pin |-> TRUE]}
=============================================================================
