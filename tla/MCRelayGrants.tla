---------------------------- MODULE MCRelayGrants ----------------------------
(* Small instances of RelayGrants.                                         *)
EXTENDS RelayGrants

MCSizes == {[tokens |-> 2, upper |-> 3]}
=============================================================================
