--------------------------- MODULE MCReconciliation ---------------------------
(* Reconciliation on a small day: every request reserves one token and uses  *)
(* one or two, and the pool is large enough for all of them.                 *)
EXTENDS Reconciliation

MCSizes == {[tokens |-> 1, upper |-> 1]}
=============================================================================
