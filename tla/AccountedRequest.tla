--------------------------- MODULE AccountedRequest ---------------------------
(***************************************************************************)
(* What the gateway promises about a request on either route, without its  *)
(* messages, handlers, leases and clocks: tokens are held before anything  *)
(* is sent upstream, a request is sent at most once, usage is charged only *)
(* for what was sent, tokens that may be spent are not given back, and an  *)
(* account, once closed, stays closed.                                     *)
(***************************************************************************)
CONSTANT Requests

VARIABLES
    account,   \* what the ledger says of each request
    sent       \* the requests that were sent upstream

\* free: given back by the one who held it; resolved: the reconciliation or an
\* operator decided.
Account == {"none", "held", "doubt", "charged", "free", "resolved"}
Closed == {"charged", "free", "resolved"}

ContractInit ==
    /\ account = [r \in Requests |-> "none"]
    /\ sent = {}

Moves(r, from, to) ==
    /\ account[r] \in from
    /\ account' = [account EXCEPT ![r] = to]
    /\ UNCHANGED sent

Hold(r) == r \notin sent /\ Moves(r, {"none"}, "held")

\* A request goes out once, and only while its tokens are accounted for.
Send(r) ==
    /\ r \notin sent
    /\ account[r] \notin {"none", "free"}
    /\ sent' = sent \cup {r}
    /\ UNCHANGED account

Doubt(r) == Moves(r, {"held"}, "doubt")
Free(r) == r \notin sent /\ Moves(r, {"held"}, "free")
Charge(r) == r \in sent /\ Moves(r, {"held", "doubt"}, "charged")
Resolve(r) == Moves(r, {"held", "doubt"}, "resolved")

\* The day is deleted once every account of it is closed.
Forget ==
    /\ \A r \in Requests : account[r] \in Closed \cup {"none"}
    /\ account' = [r \in Requests |-> "none"]
    /\ UNCHANGED sent

ContractNext ==
    \/ \E r \in Requests : Hold(r) \/ Send(r) \/ Doubt(r) \/ Free(r) \/ Charge(r) \/ Resolve(r)
    \/ Forget

ContractSpec == ContractInit /\ [][ContractNext]_<<account, sent>>
=============================================================================
