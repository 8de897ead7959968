----------------------------- MODULE MCGateway -----------------------------
(* A small instance of Gateway: one request, another loader in its isolate *)
(* and a second isolate that serves edits.                                 *)
EXTENDS Gateway

CONSTANTS here, there, other

MCSizes == {[tokens |-> 2, upper |-> 3]}
MCKinds == [route : {"legacy", "prepare"}, mode : {"json", "stream"}]
MCHomeOf == [c \in Loaders |-> here]
=============================================================================
