---------------------------- MODULE Tokenization ----------------------------
(***************************************************************************)
(* How many input tokens a request is estimated at: routeTokenization, the *)
(* tokenizer object with its lazily built encoder and its fallback to      *)
(* bytes, and the Deno service. Each answer is a set of what may come back.*)
(***************************************************************************)
EXTENDS Normalize

CONSTANTS
    MaxWork,     \* MAX_BPE_WORK_UNITS of the tokenizer object
    Threshold,   \* input bytes from which the Deno service is asked
    MaxInputBytes

ASSUME TokenizationAssumption == {MaxWork, Threshold, MaxInputBytes} \subseteq Nat

\* The encoder gives no more tokens than bytes (external).
EncoderAssumption == \A t \in Texts : t.tokens =< t.bytes
ASSUME EncoderBounded == EncoderAssumption

TokensOf(texts) == Total([i \in DOMAIN texts |-> texts[i].tokens])

\* estimatedInputTokensOf
EstimatedInputTokens(base, request) == base + request.opaque + request.count * 4 + 3

Exact(request) == EstimatedInputTokens(TokensOf(request.texts), request)

\* Fault: the fallback counts a token for every four bytes.
FaultConservativeEstimate(request) ==
    EstimatedInputTokens(BytesOf(request.texts) \div 4, request)

\* conservativeEstimate: a byte is at least as much as a token.
ConservativeEstimate(request) == EstimatedInputTokens(BytesOf(request.texts), request)

\* A text is one piece of the splitting pattern; its work is the square of its bytes.
WithinWorkLimit(request) ==
    Total([i \in DOMAIN request.texts |-> request.texts[i].bytes * request.texts[i].bytes]) =< MaxWork

Resolved(tokens) == [kind |-> "resolved", tokens |-> tokens]
Unresolved(kind) == [kind |-> kind, tokens |-> 0]

\* encodeWithFallback: the encoder may throw for a text.
EncodeWithFallback(request) ==
    IF ~WithinWorkLimit(request) THEN {Unresolved("request_too_large")}
    ELSE {Resolved(Exact(request)), Resolved(ConservativeEstimate(request))}

\* estimate: an encoder that cannot be built is tried again with the next request.
\* Each outcome with whether there is an encoder afterwards.
Estimate(ready, request) ==
    {<<TRUE, o>> : o \in EncodeWithFallback(request)} \cup
    (IF ready THEN {} ELSE {<<FALSE, Resolved(ConservativeEstimate(request))>>})

\* tokenizeInput: the limits, then the RPC, which may fail.
TokenizeInput(ready, request) ==
    {<<ready, Unresolved("unavailable")>>} \cup Estimate(ready, request)

NoCount == -1

\* The service's /tokenize: a count, or a status without one when the text is too
\* large, the request malformed or the encoder throws.
HandleTokenize(request) ==
    {NoCount} \cup (IF BytesOf(request.texts) > MaxInputBytes THEN {} ELSE {TokensOf(request.texts)})

\* tokenizeWithDeno: a timeout, a network failure, a status or a body that is not
\* the contract's leave it without a count.
TokenizeWithDeno(request) ==
    {IF n = NoCount THEN Unresolved("unavailable") ELSE Resolved(EstimatedInputTokens(n, request)) :
        n \in HandleTokenize(request)}

\* routeTokenization, when Deno tokenization is configured or not.
RouteTokenization(deno, ready, request) ==
    IF deno /\ BytesOf(request.texts) >= Threshold
    THEN {<<ready, o>> : o \in TokenizeWithDeno(request)}
    ELSE TokenizeInput(ready, request)
=============================================================================
