------------------------------ MODULE Normalize ------------------------------
(***************************************************************************)
(* normalizeChatCompletions and normalizeResponses: which request bodies   *)
(* are accepted, what they count as, and the form in which a body of       *)
(* /responses is sent upstream.                                            *)
(*                                                                         *)
(* A text is known by its length in UTF-8 and its exact number of tokens;  *)
(* the texts of a request stay a sequence instead of being joined.         *)
(***************************************************************************)
EXTENDS Integers, Sequences, FiniteSetsExt, SequencesExt

CONSTANT Texts   \* the texts a request is made of: [bytes, tokens]

ASSUME TextsAssumption ==
    Texts \subseteq [bytes : Nat \ {0}, tokens : Nat \ {0}]

\* DEFAULT_MAX_OUTPUT_TOKENS
DefaultMaxOutput == 4096

\* nontext stands for the types of NON_TEXT_PART_TYPES; odd for a part of another
\* type, of no type or without a text.
Part == [type : {"text", "input_text", "output_text", "summary_text", "nontext", "odd"},
         text : Texts]

\* A content is a string (its one text is in parts), an array of parts, or neither.
Content == [shape : {"string", "parts", "other"}, parts : Seq(Part)]

\* An item of input, or a chat message. whole: the string fields its type needs
\* are there, and the arguments of a call are JSON; opaque: bytes of
\* encrypted_content; extras: name, tool_calls and the like, serialized.
Item == [type : {"message", "function_call", "function_call_output", "reasoning", "odd"},
         role : {"assistant", "user", "odd"}, content : Content, whole : BOOLEAN,
         opaque : Nat, extras : Seq(Texts)]

\* An output limit that is missing, or is no positive integer.
NoLimit == 0
BadLimit == -1

\* What JSON.parse returned, as far as the normalization tells apart. An input that
\* is a string is kept as one item; a chat message with calls is one of type
\* function_call. hasModel: a
\* non-empty model; foreign: a field that refers to stored state, or instructions
\* that are no string; extras: instructions, tools and tool_choice, serialized;
\* max: max_output_tokens or max_completion_tokens; legacyMax: max_tokens.
Body == {b \in [hasModel : BOOLEAN, input : {"string", "items", "other"}, items : Seq(Item),
                foreign : BOOLEAN, extras : Seq(Texts), tools : BOOLEAN,
                max : {NoLimit, BadLimit} \cup (Nat \ {0}),
                legacyMax : {NoLimit, BadLimit} \cup (Nat \ {0})] :
            b.input = "string" => Len(b.items) = 1}

-----------------------------------------------------------------------------
Refused(error) == [error |-> error, texts |-> <<>>]
Accepted(texts) == [error |-> "none", texts |-> texts]

TextsOf(parts) == [i \in DOMAIN parts |-> parts[i].text]

\* The first error of a sequence of walks, or all their texts.
FirstError(walks) ==
    LET failed == {i \in DOMAIN walks : walks[i].error # "none"}
    IN  IF failed # {} THEN Refused(walks[Min(failed)].error)
        ELSE Accepted(FlattenSeq([i \in DOMAIN walks |-> walks[i].texts]))

WalkPart(part, allowed, unknownError) ==
    CASE part.type = "nontext" -> Refused("non_text")
      [] part.type \in allowed -> Accepted(<<part.text>>)
      [] OTHER -> Refused(unknownError)

WalkContent(content, allowed, unknownError) ==
    CASE content.shape = "other" -> Refused(unknownError)
      [] content.shape = "string" -> Accepted(TextsOf(content.parts))
      [] OTHER -> FirstError([i \in DOMAIN content.parts |->
                                WalkPart(content.parts[i], allowed, unknownError)])

ValidRole(role) == role # "odd"
AllowedTypes(role) == IF role = "assistant" THEN {"output_text", "text"} ELSE {"input_text", "text"}

WalkResponseMessage(item) ==
    IF ~ValidRole(item.role) THEN Refused("invalid_body")
    ELSE WalkContent(item.content, AllowedTypes(item.role), "invalid_body")

WalkItem(item) ==
    CASE item.type = "message" -> WalkResponseMessage(item)
      [] item.type = "function_call" /\ item.whole -> Accepted(item.extras)
      [] item.type = "function_call_output" /\ item.whole ->
            FirstError(<<Accepted(item.extras),
                         WalkContent(item.content, {"input_text", "text"}, "invalid_body")>>)
      [] item.type = "reasoning" /\ item.whole /\ item.content.shape = "parts" ->
            WalkContent(item.content, {"summary_text"}, "invalid_body")
      [] OTHER -> Refused("invalid_body")

WalkChatMessage(message) ==
    FirstError(<<WalkContent(message.content, {"text", "input_text"}, "non_text"),
                 Accepted(message.extras)>>)

-----------------------------------------------------------------------------
\* What a request counts as; error is "none" when it is accepted.
NormalizedRequest(error, texts, opaque, count, max, toolUse) ==
    [error |-> error, texts |-> texts, opaque |-> opaque, count |-> count,
     max |-> max, toolUse |-> toolUse]
NotNormalized(error) == NormalizedRequest(error, <<>>, 0, 0, 0, FALSE)

Total(numbers) ==
    LET sum[n \in 0..Len(numbers)] == IF n = 0 THEN 0 ELSE sum[n - 1] + numbers[n]
    IN  sum[Len(numbers)]
BytesOf(texts) == Total([i \in DOMAIN texts |-> texts[i].bytes])

LimitOr(limit, other) == IF limit = NoLimit THEN other ELSE limit

NormalizeChatCompletions(body, maxInputBytes) ==
    LET walk == FirstError([i \in DOMAIN body.items |-> WalkChatMessage(body.items[i])])
        texts == walk.texts \o body.extras
        calls == \E i \in DOMAIN body.items : body.items[i].type # "message"
    IN  CASE ~body.hasModel \/ body.input # "items" -> NotNormalized("invalid_body")
          [] BadLimit \in {body.max, body.legacyMax} -> NotNormalized("invalid_body")
          [] /\ NoLimit \notin {body.max, body.legacyMax}
             /\ body.max # body.legacyMax -> NotNormalized("max_tokens_conflict")
          [] walk.error # "none" -> NotNormalized(walk.error)
          [] BytesOf(texts) > maxInputBytes -> NotNormalized("input_too_large")
          [] OTHER -> NormalizedRequest("none", texts, 0, Len(body.items),
                          LimitOr(body.max, LimitOr(body.legacyMax, DefaultMaxOutput)),
                          body.tools \/ calls)

\* An input that is a string is one text and counts as one message.
NormalizeResponses(body, maxInputBytes) ==
    LET walk == IF body.input = "string" THEN Accepted(TextsOf(body.items[1].content.parts))
                ELSE FirstError([i \in DOMAIN body.items |-> WalkItem(body.items[i])])
        texts == walk.texts \o body.extras
        opaque == Total([i \in DOMAIN body.items |-> body.items[i].opaque])
        calls == \E i \in DOMAIN body.items :
                    body.items[i].type \in {"function_call", "function_call_output"}
    IN  CASE ~body.hasModel \/ body.input = "other" \/ body.foreign -> NotNormalized("invalid_body")
          [] walk.error # "none" -> NotNormalized(walk.error)
          [] body.max = BadLimit -> NotNormalized("invalid_body")
          [] BytesOf(texts) + opaque > maxInputBytes -> NotNormalized("input_too_large")
          [] OTHER -> NormalizedRequest("none", texts, opaque, Len(body.items),
                                        LimitOr(body.max, DefaultMaxOutput),
                                        body.tools \/ calls)

-----------------------------------------------------------------------------
(* The upstream form.                                                      *)

NormalizeTextParts(content, type) ==
    IF content.shape # "parts" THEN content
    ELSE [content EXCEPT !.parts = [i \in DOMAIN @ |->
            IF @[i].type = "text" THEN [@[i] EXCEPT !.type = type] ELSE @[i]]]

\* Fault: every text part becomes input_text, whoever wrote it.
FaultNormalizeInputItem(item) ==
    [item EXCEPT !.content = NormalizeTextParts(@, "input_text")]

NormalizeInputItem(item) ==
    CASE item.type = "message" /\ ValidRole(item.role) ->
            [item EXCEPT !.content = NormalizeTextParts(@,
                IF item.role = "assistant" THEN "output_text" ELSE "input_text")]
      [] item.type = "function_call_output" ->
            [item EXCEPT !.content = NormalizeTextParts(@, "input_text")]
      [] OTHER -> item

NormalizeUpstreamBody(body) ==
    IF body.input # "items" THEN body
    ELSE [body EXCEPT !.items = [i \in DOMAIN @ |-> NormalizeInputItem(@[i])]]

\* buildUpstreamBody: the granted limit is the only one that is sent.
BuildUpstreamBody(endpoint, body, granted) ==
    IF endpoint = "chat"
    THEN [body EXCEPT !.max = granted, !.legacyMax = NoLimit]
    ELSE [NormalizeUpstreamBody(body) EXCEPT !.max = granted]
=============================================================================
