-------------------------- MODULE MCServerProcess --------------------------
(***************************************************************************)
(* Symmetry for checking ServerProcess with TLC.                           *)
(***************************************************************************)
EXTENDS ServerProcess, TLC

Symmetry == Permutations(Hosts)
=============================================================================
