----------------------------- MODULE TokenBudget -----------------------------
(***************************************************************************)
(* resolveTokenBudget: how many tokens a request reserves, how many it may *)
(* produce, and when it is turned away, from what the pool has left.       *)
(*                                                                         *)
(* The code compares remaining / limit with 0.2 and rounds products with   *)
(* 0.05 and 0.02 in floating point; over the range of token counts this    *)
(* agrees with the integer forms used here.                                *)
(***************************************************************************)
EXTENDS Integers

\* Number.MAX_SAFE_INTEGER is far beyond any count of tokens.
OutputLimitMode == {"REJECT", "CLAMP"}

Larger(a, b) == IF a < b THEN b ELSE a

\* Math.ceil(n / d)
CeilDiv(n, d) == (n + d - 1) \div d

\* safetyMargin: wider once at most a fifth of the pool is left.
SafetyMargin(input, remaining, limit) ==
    IF 5 * remaining =< limit
    THEN Larger(512, CeilDiv(input, 20))
    ELSE Larger(256, CeilDiv(input, 50))

UpperBoundOf(input, output) == input + output + Larger(512, CeilDiv(input, 20))

\* validArguments: a pool that settled more than its limit has a negative rest.
ValidArguments(remaining, limit) == limit > 0 /\ remaining >= 0 /\ remaining =< limit

NoBudget(kind) == [kind |-> kind, tokens |-> 0, upper |-> 0, out |-> 0]

\* decideOutput: the output a request may produce, -1 when it is rejected.
DecideOutput(input, output, margin, remaining, mode) ==
    IF input + output + margin =< remaining THEN output
    ELSE IF mode = "CLAMP" /\ remaining - input - margin > 0
    THEN remaining - input - margin
    ELSE -1

ResolveTokenBudget(input, output, remaining, limit, mode) ==
    LET margin == SafetyMargin(input, remaining, limit)
        upper == UpperBoundOf(input, output)
        out == DecideOutput(input, output, margin, remaining, mode)
    IN  IF ~ValidArguments(remaining, limit) THEN NoBudget("arithmetic_error")
        ELSE IF upper > limit THEN NoBudget("request_too_large")
        ELSE IF out < 0 THEN NoBudget("quota_exceeded")
        ELSE [kind |-> "resolved", tokens |-> input + out + margin, upper |-> upper, out |-> out]
=============================================================================
