------------------------------ MODULE DataPath ------------------------------
(***************************************************************************)
(* What happens to the data of one request: its body is judged on one of   *)
(* the three routes, its tokens estimated, its output limit granted and    *)
(* put into the upstream body, and usage is read from the answer. Once the *)
(* request is on its way upstream the gateway keeps nothing of its body.   *)
(***************************************************************************)
EXTENDS Ingress, TokenBudget, PreparedBody, UsageReaders

CONSTANTS
    Requested,    \* the requests that may arrive
    Remaining,    \* what may be left of the pool
    PoolLimit

ASSUME DataPathAssumption ==
    /\ Requested \subseteq Request
    /\ PoolLimit \in Nat \ {0} /\ Remaining \subseteq 0..PoolLimit

VARIABLES
    stage,       \* where the request is
    route,       \* legacy, prepare or relay
    request,     \* the request itself, until it is sent
    ready,       \* whether the tokenizer object has its encoder
    reply,       \* what a Deno service answered
    disturbed,   \* whether a service failed or its answer was replaced
    estimate,    \* the estimated input tokens
    grant,       \* what the budget came to, and what was left of the pool
    answer       \* what the client was told

pathVars == <<stage, route, request, ready, reply, disturbed, estimate, grant, answer>>
allVars == <<pathVars, bodyVars, readerVars>>

Nothing == [kind |-> "none"]
NoReply == Reply(0, "none")
NoGrant == [kind |-> "none", out |-> 0, left |-> 0]

DataPathInit ==
    /\ stage = "arrived" /\ request \in Requested
    /\ route \in IF request.endpoint = "chat" THEN {"legacy"} ELSE {"legacy", "prepare", "relay"}
    /\ ready \in BOOLEAN
    /\ reply = NoReply /\ disturbed = FALSE /\ estimate = 0
    /\ grant = NoGrant /\ answer = Proceeds
    /\ BodyInit /\ ReadersInit

At(location) == stage = location

\* The request goes on, or the client gets its answer.
Goes(location, public) ==
    /\ stage' = IF public = Proceeds THEN location ELSE "refused"
    /\ answer' = public

-----------------------------------------------------------------------------
(* Ingress                                                                 *)

\* The legacy path up to the tokenization.
ReadBody ==
    /\ At("arrived") /\ route = "legacy"
    /\ Goes("tokenize", IF LegacyIngress(request) = Proceeds
                        THEN ClassifyModel(request) ELSE LegacyIngress(request))
    /\ UNCHANGED <<route, request, ready, reply, disturbed, estimate, grant, bodyVars, readerVars>>

Tokenize ==
    /\ At("tokenize")
    /\ \E deno \in BOOLEAN : \E o \in RouteTokenization(deno, ready, Normalized(request)) :
          /\ ready' = o[1]
          /\ estimate' = o[2].tokens
          /\ disturbed' = (disturbed \/ o[2].kind = "unavailable")
          /\ Goes("budget", CASE o[2].kind = "resolved" -> Proceeds
                              [] o[2].kind = "request_too_large" -> PublicError("request_too_large")
                              [] o[2].kind = "unavailable" -> Internal)
    /\ UNCHANGED <<route, request, reply, grant, bodyVars, readerVars>>

\* /prepare answers, or something else does.
Prepare ==
    /\ At("arrived") /\ route = "prepare"
    /\ stage' = "replied"
    /\ \/ reply' = HandlePrepare(request) /\ UNCHANGED disturbed
       \/ reply' \in ForeignReplies /\ disturbed' = TRUE
    /\ UNCHANGED <<route, request, ready, estimate, grant, answer, bodyVars, readerVars>>

PrepareAnswered ==
    /\ At("replied") /\ route = "prepare"
    /\ Goes("budget", IF ClassifyReply(reply) = Proceeds
                      THEN ClassifyModel(request) ELSE ClassifyReply(reply))
    /\ estimate' = Exact(Normalized(request))
    /\ UNCHANGED <<route, request, ready, reply, disturbed, grant, bodyVars, readerVars>>

\* handleRelay up to the budget of its decision.
Relay ==
    /\ At("arrived") /\ route = "relay"
    /\ reply' = IF HandleRelayIngress(request).status = 200
                THEN RelayDecision(request) ELSE HandleRelayIngress(request)
    /\ Goes("budget", RelayPublic(reply'))
    /\ estimate' = Exact(Normalized(request))
    /\ UNCHANGED <<route, request, ready, disturbed, grant, bodyVars, readerVars>>

-----------------------------------------------------------------------------
(* The budget and what is sent                                             *)

\* The relay's budget refusals come back as envelopes of the same status.
BudgetAnswer(kind) ==
    CASE kind = "resolved" -> Proceeds
      [] kind = "request_too_large" -> Answer(413, kind)
      [] kind = "quota_exceeded" -> Answer(429, "insufficient_quota")
      [] kind = "arithmetic_error" -> Internal

ResolveBudget ==
    /\ At("budget")
    /\ \E left \in Remaining, mode \in OutputLimitMode :
          LET budget == ResolveTokenBudget(estimate, Normalized(request).max, left, PoolLimit, mode)
          IN  /\ grant' = [kind |-> budget.kind, out |-> budget.out, left |-> left]
              /\ stage' = IF budget.kind = "resolved" THEN "granted" ELSE "answered"
              /\ answer' = BudgetAnswer(budget.kind)
    /\ UNCHANGED <<route, request, ready, reply, disturbed, estimate, bodyVars, readerVars>>

\* The body that goes upstream; on the prepare route the marker stands for the limit.
UpstreamForm == BuildUpstreamBody(request.endpoint, request.body, grant.out)

\* From here on only bytes are handled.
Forgets ==
    /\ request' = Nothing
    /\ estimate' = 0 /\ grant' = NoGrant /\ reply' = NoReply
    /\ UNCHANGED <<route, ready, disturbed>>

Send ==
    /\ At("granted") /\ route # "prepare"
    /\ stage' = "sent" /\ Forgets
    /\ UNCHANGED <<answer, bodyVars, readerVars>>

\* The body the service prepared, or one that was altered on its way: the limit is
\* gone, the marker stands twice, the comma is missing, or it ends in the opening.
AlteredBodies ==
    {<<"o1", "o2", "x", "comma">>, Opening \o Marker, <<"o1", "o2">> \o Marker \o <<"x", "x">>,
     <<"o1", "o2", "m1">>, <<"x">> \o Opening}

ReceivePrepared ==
    /\ At("granted") /\ route = "prepare"
    /\ stage' = "preflight"
    /\ \/ (\E bytes \in Prepared : Receives(bytes)) /\ disturbed' = disturbed
       \/ (\E bytes \in AlteredBodies : Receives(bytes)) /\ disturbed' = TRUE
    /\ request' = Nothing
    /\ estimate' = 0 /\ grant' = NoGrant /\ reply' = NoReply
    /\ UNCHANGED <<route, ready, answer, readerVars>>

Preflight ==
    /\ At("preflight")
    /\ \E n \in 1..Len(source) : PreflightRead(n)
    /\ \/ output' # <<>> /\ Goes("pulled", Proceeds)
       \/ output' = <<>> /\ Len(prefix') < Len(Opening) /\ Matches(prefix')
          /\ Goes("preflight", Proceeds)
       \/ output' = <<>> /\ ~(Len(prefix') < Len(Opening) /\ Matches(prefix'))
          /\ Goes("preflight", Internal)
    /\ UNCHANGED <<route, request, ready, reply, disturbed, estimate, grant, readerVars>>

PullBody ==
    /\ At("pulled")
    /\ \E n \in 1..Len(source) : Pull(n)
    /\ UNCHANGED <<pathVars, readerVars>>

\* The connection to Deno breaks, or the body ends within its opening.
BodyBreaks ==
    /\ stage \in {"preflight", "pulled"}
    /\ At("pulled") => source # <<>>
    /\ stage' = "answered" /\ answer' = Internal
    /\ disturbed' = TRUE
    /\ source' = <<>> /\ UNCHANGED <<prefix, output>>
    /\ UNCHANGED <<route, request, ready, reply, estimate, grant, readerVars>>

BodySent ==
    /\ At("pulled") /\ source = <<>>
    /\ stage' = "sent" /\ prefix' = <<>> /\ output' = <<>>
    /\ UNCHANGED <<source, route, request, ready, reply, disturbed, estimate, grant, answer, readerVars>>

-----------------------------------------------------------------------------
(* The answer                                                              *)

\* An error of upstream passes through every route as it is; it looks at nothing.
UpstreamRefuses ==
    /\ At("sent")
    /\ \E status \in {400, 429, 500} :
          answer' = IF route = "relay" THEN RelayPublic(Reply(status, "none"))
                    ELSE Answer(status, "upstream")
    /\ stage' = "answered"
    /\ UNCHANGED <<route, request, ready, reply, disturbed, estimate, grant, bodyVars, readerVars>>

\* A streamed answer, shown to the readers of both routes.
UpstreamStreams ==
    /\ At("sent") /\ stage' = "streaming"
    /\ \E s \in Streams : ReadersStart(s)
    /\ UNCHANGED <<route, request, ready, reply, disturbed, estimate, grant, answer, bodyVars>>

ReadChunk ==
    /\ At("streaming")
    /\ \E n \in 1..(Len(stream) - seen) : ChunkArrives(n)
    /\ UNCHANGED <<pathVars, bodyVars>>

EndOfStream ==
    /\ At("streaming") /\ StreamCloses
    /\ stage' = "read"
    /\ UNCHANGED <<route, request, ready, reply, disturbed, estimate, grant, answer, bodyVars>>

DataPathNext ==
    \/ ReadBody \/ Tokenize \/ Prepare \/ PrepareAnswered \/ Relay
    \/ ResolveBudget \/ Send \/ ReceivePrepared \/ Preflight \/ PullBody \/ BodyBreaks \/ BodySent
    \/ UpstreamRefuses \/ UpstreamStreams \/ ReadChunk \/ EndOfStream

DataPathSpec == DataPathInit /\ [][DataPathNext]_allVars

-----------------------------------------------------------------------------
(* Properties                                                              *)

\* What the gateway itself would tell the client of this request.
Verdict ==
    IF LegacyIngress(request) = Proceeds THEN ClassifyModel(request) ELSE LegacyIngress(request)

\* Requests that the Deno services cannot handle although the gateway could.
Unhandled ==
    \/ route = "prepare" /\ request.indexKey
    \/ request.model = "long"

(***************************************************************************)
(* A client is told the same about its request on every route: a refusal   *)
(* has the status that the gateway's own normalization gives, whatever     *)
(* stands between the gateway and /prepare answers, and what one route     *)
(* refuses none lets through. The differences the code has are named: the  *)
(* relay's strict parser, the work limit of the tokenizer object, and      *)
(* requests the services answer with an internal error.                    *)
(***************************************************************************)
RoutesAgree ==
    /\ stage = "refused" /\ request # Nothing =>
          \/ Verdict # Proceeds /\ answer.status = Verdict.status
          \/ answer = Internal /\ (disturbed \/ (route # "legacy" /\ Unhandled))
          \/ route = "relay" /\ request.json = "lax" /\ answer.status = 400
          \/ route = "legacy" /\ answer.status = 413 /\ ~WithinWorkLimit(Normalized(request))
    /\ stage \in {"tokenize", "budget", "granted"} => Verdict = Proceeds

(***************************************************************************)
(* The body that goes upstream is one the gateway would accept again, with *)
(* the same texts in the same order, the same count and the granted limit  *)
(* as its only one, and no part of type text is left in a /responses body  *)
(* (a function call has no content of its own): upstream charges for what  *)
(* was counted.                                                            *)
(***************************************************************************)
UpstreamFormCounted ==
    stage = "granted" =>
        /\ Normalized([request EXCEPT !.body = UpstreamForm]) =
              [Normalized(request) EXCEPT !.max = grant.out]
        /\ request.endpoint = "responses" /\ request.body.input = "items" =>
              \A i \in DOMAIN UpstreamForm.items :
                  LET item == UpstreamForm.items[i]
                  IN  item.type # "function_call" /\ item.content.shape = "parts" =>
                          \A j \in DOMAIN item.content.parts : item.content.parts[j].type # "text"

(***************************************************************************)
(* Whichever tokenizer answered, fallback included, the exact input tokens *)
(* and the granted output fit into what the pool had left, the smaller     *)
(* safety margin included; the client gets at least one token and no more  *)
(* than it asked for.                                                      *)
(***************************************************************************)
GrantCovered ==
    stage = "granted" =>
        /\ grant.out \in 1..Normalized(request).max
        /\ Exact(Normalized(request)) + grant.out + 256 =< grant.left

(***************************************************************************)
(* However the prepared body is cut into chunks, upstream receives the     *)
(* granted limit in the marker's place and every other byte unchanged,     *)
(* once and in order; a body that does not begin as agreed is never passed *)
(* on, and an unharmed one is never refused. (A second marker further on,  *)
(* which the service excludes, is noticed only within the same chunk.)     *)
(***************************************************************************)
PreparedBytesExact ==
    /\ stage = "pulled" =>
          /\ SubSeq(output, 1, 4) = <<"o1", "o2">> \o Limit \o <<"comma">>
          /\ ~disturbed => \E bytes \in Prepared : output \o source = Replace(bytes)
    /\ stage = "refused" /\ request = Nothing => disturbed

(***************************************************************************)
(* For a stream with one usage event the direct route and the relay come   *)
(* to the same conclusion for every cut into chunks, when that event and   *)
(* what follows it fit into the relay's tail; neither ever finds usage     *)
(* that is not there, and the direct route never misses it.                *)
(***************************************************************************)
SameUsage ==
    stage = "read" =>
        LET sent == TailHasUsage(stream)
            starts == {i \in DOMAIN stream : i = 1 \/ stream[i - 1] = "b"}
            fits == \E i \in starts : /\ Len(stream) - i + 1 =< RingCapacity
                                      /\ TailHasUsage(SubSeq(stream, i, Len(stream)))
        IN  /\ direct.found = sent
            /\ relayed.found => sent
            /\ fits => relayed.found
=============================================================================
