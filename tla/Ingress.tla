------------------------------- MODULE Ingress -------------------------------
(***************************************************************************)
(* What becomes of a request body on its three routes: read and normalized *)
(* by the gateway itself, prepared by the Deno service's /prepare, or sent *)
(* to the Deno relay. The services answer over HTTP, and the gateway turns *)
(* their answers into its public errors.                                   *)
(***************************************************************************)
EXTENDS Tokenization

\* raw: the bytes of the body against the limit. json: lax is what JSON.parse takes
\* and the relay's strict parser does not (a key twice, bytes that are no UTF-8).
\* indexKey: a property named like an array index, which JSON.stringify puts first.
\* model: long is an unknown model whose name fits into no metadata header.
Request == [endpoint : {"chat", "responses"}, raw : {"fits", "over"},
            json : {"object", "lax", "bad"}, indexKey : BOOLEAN,
            model : {"known", "unknown", "long"}, body : Body]

Normalized(request) ==
    IF request.endpoint = "chat"
    THEN NormalizeChatCompletions(request.body, MaxInputBytes)
    ELSE NormalizeResponses(request.body, MaxInputBytes)

\* A public answer; Proceeds when there is none yet.
Answer(status, code) == [status |-> status, code |-> code]
Proceeds == Answer(0, "none")
Internal == Answer(500, "internal_error")

\* mapPrepareError, and the errors of the legacy path.
PublicError(error) ==
    CASE error = "invalid_body" -> Answer(400, "invalid_request")
      [] error = "non_text" -> Answer(400, "non_text_input")
      [] error = "max_tokens_conflict" -> Answer(400, "max_tokens_conflict")
      [] error \in {"input_too_large", "request_too_large"} -> Answer(413, "request_too_large")

\* Every route counts the bytes as they arrive and stops at the limit.
WithinRawLimit(request) == request.raw = "fits"
\* JSON.parse, and parseRelayJsonBody.
IsJson(request) == request.json # "bad"
IsStrictJson(request) == request.json = "object"

\* readJsonBody and the normalization by the gateway.
LegacyIngress(request) ==
    CASE ~WithinRawLimit(request) -> PublicError("request_too_large")
      [] WithinRawLimit(request) /\ ~IsJson(request) -> PublicError("invalid_body")
      [] OTHER -> LET error == Normalized(request).error
                  IN  IF error = "none" THEN Proceeds ELSE PublicError(error)

\* classifyModel on a model without a pool.
ClassifyModel(request) ==
    IF request.model = "known" THEN Proceeds ELSE Answer(403, "model_requires_paid")

-----------------------------------------------------------------------------
(* /prepare                                                                *)

\* An HTTP answer of a Deno service; code is that of its error envelope.
Reply(status, code) == [status |-> status, code |-> code]

\* The body begins with the marker, and the metadata fit into their header.
MarkerComesFirst(request) == ~request.indexKey
MetadataFit(request) == request.model # "long"

\* handlePrepare
HandlePrepare(request) ==
    LET error == Normalized(request).error IN
    CASE ~WithinRawLimit(request) -> Reply(413, "request_too_large")
      [] WithinRawLimit(request) /\ ~IsJson(request) -> Reply(400, "invalid_body")
      [] WithinRawLimit(request) /\ IsJson(request) /\ error # "none" ->
            Reply(IF error = "input_too_large" THEN 413 ELSE 400, error)
      [] OTHER -> IF MarkerComesFirst(request) /\ MetadataFit(request)
                  THEN Reply(200, "metadata") ELSE Reply(500, "none")

\* Fault: a status of 400 or 413 is believed without its envelope.
FaultClassifyReply(reply) ==
    CASE reply.status = 200 /\ reply.code = "metadata" -> Proceeds
      [] reply.status = 400 -> PublicError("invalid_body")
      [] reply.status = 413 -> PublicError("request_too_large")
      [] OTHER -> Internal

\* classifySuccessResponse: JSON, with valid metadata and a body.
IsPrepared(reply) == reply.status = 200 /\ reply.code = "metadata"

\* The codes an envelope may carry, by its status.
EnvelopeCodes(status) ==
    CASE status = 400 -> {"invalid_body", "non_text", "max_tokens_conflict"}
      [] status = 413 -> {"input_too_large", "request_too_large"}
      [] OTHER -> {}

\* prepareWithDeno: the client is blamed only with a code for that status.
ClassifyReply(reply) ==
    CASE IsPrepared(reply) -> Proceeds
      [] reply.code \in EnvelopeCodes(reply.status) -> PublicError(reply.code)
      [] OTHER -> Internal

\* What can arrive instead of the service's answer: its own failures (a body that
\* breaks off, an encoder that throws, a wrong token), an answer of something in
\* between, or none (a timeout, a network failure: status 0).
ForeignReplies ==
    {Reply(status, "none") : status \in {0, 200, 400, 401, 413, 429, 500}}
        \cup {Reply(400, "request_too_large"), Reply(500, "invalid_body")}

-----------------------------------------------------------------------------
(* The relay                                                               *)

\* handleRelay until the request is accepted.
HandleRelayIngress(request) ==
    LET error == Normalized(request).error IN
    CASE ~WithinRawLimit(request) -> Reply(413, "request_too_large")
      [] WithinRawLimit(request) /\ ~IsStrictJson(request) -> Reply(400, "invalid_request")
      [] WithinRawLimit(request) /\ IsStrictJson(request) /\ error # "none" ->
            IF error = "input_too_large"
            THEN Reply(413, "request_too_large") ELSE Reply(400, "invalid_request")
      [] OTHER -> Reply(200, "none")

\* The decision of RelayDecisionController on the metadata, as handleRelay passes
\* it on; a model name of more than 256 bytes is no decision request at all.
RelayDecision(request) ==
    CASE request.model = "known" -> Reply(200, "none")
      [] request.model = "unknown" -> Reply(403, "model_requires_paid")
      [] request.model = "long" -> Reply(500, "internal_error")

\* relayErrorCodeStatus
CodeStatus(code) ==
    CASE code = "invalid_request" -> 400
      [] code \in {"client_disabled", "model_requires_paid", "model_not_allowed"} -> 403
      [] code = "duplicate_idempotency_key" -> 409
      [] code = "request_too_large" -> 413
      [] code \in {"insufficient_quota", "worker_concurrency_exceeded"} -> 429
      [] OTHER -> 500

\* relayPublicResponse and relayFailureResponse: an envelope is mapped, and is an
\* internal error when its code does not fit its status; anything else is upstream's.
RelayPublic(reply) ==
    CASE reply.status = 200 -> Proceeds
      [] reply.status # 200 /\ reply.code = "none" -> Answer(reply.status, "upstream")
      [] OTHER -> IF CodeStatus(reply.code) = reply.status /\ reply.status # 500
                  THEN Answer(reply.status, reply.code) ELSE Internal
=============================================================================
