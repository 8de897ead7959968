---------------------------- MODULE MCQuotaLedger ----------------------------
(* A small instance of QuotaLedger.                                        *)
EXTENDS QuotaLedger, TLC

\* With limit 20 the large size leaves 1 token, the STRICT boundary, where the
\* small one fits but its upper bound does not; with limit 21 it leaves 2, just
\* above the boundary, where the small one is admitted.
MCSizes == {[tokens |-> 19, upper |-> 20], [tokens |-> 1, upper |-> 2]}

Symmetry == Permutations(Requests)
=============================================================================
