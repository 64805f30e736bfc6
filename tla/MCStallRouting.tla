---------------------------- MODULE MCStallRouting ----------------------------
(***************************************************************************)
(* Model values and symmetry for checking StallRouting with TLC: the       *)
(* second stall has no ticket, it competes for the group.                  *)
(***************************************************************************)
EXTENDS StallRouting, TLC

CONSTANTS s1, s2

TwoStalls == {s1, s2}
AllOfFirst == [k \in Tickets |-> s1]

Symmetry == Permutations(Links) \cup Permutations(Starts) \cup Permutations(Tickets)
=============================================================================
