------------------------------ MODULE MCInFlight ------------------------------
(* A small instance of InFlight.                                           *)
EXTENDS InFlight, TLC

Symmetry == Permutations(Requests)
=============================================================================
