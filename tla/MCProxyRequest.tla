---------------------------- MODULE MCProxyRequest ----------------------------
(* Small instances of ProxyRequest.                                        *)
EXTENDS ProxyRequest, TLC

MCSizes == {[tokens |-> 2, upper |-> 3]}

MCKinds == {[route |-> "legacy", mode |-> "json"], [route |-> "prepare", mode |-> "stream"]}
JsonOnly == {[route |-> "legacy", mode |-> "json"]}

Symmetry == Permutations(Requests)
=============================================================================
