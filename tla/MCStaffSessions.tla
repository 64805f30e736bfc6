--------------------------- MODULE MCStaffSessions ---------------------------
(* Terminals are interchangeable, and so are stalls and sockets. *)
EXTENDS StaffSessions, TLC

Symmetry == Permutations(Devices) \cup Permutations(Stalls) \cup Permutations(Sockets)
=============================================================================
