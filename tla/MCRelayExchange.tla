--------------------------- MODULE MCRelayExchange ---------------------------
(* A small instance of RelayExchange.                                      *)
EXTENDS RelayExchange, TLC

CONSTANTS r1, k1

\* The ingress call of r1 reaches Deno twice.
MCCalls == {<<r1, 1>>, <<r1, 2>>}
MCKeyOf == (r1 :> k1)
\* Reserves 1356 tokens with an upper bound of 1612, or less when clamped.
MCDemand == [input |-> 100, output |-> 1000]
MCSizes == {SizeOf(b) : b \in {x \in Budgets : x.kind = "resolved"}}
=============================================================================
