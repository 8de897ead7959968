------------------------------ MODULE MCDataPath ------------------------------
EXTENDS DataPath

\* A short text, and a long unbroken one, beyond the work limit, that costs a
\* token for every byte.
MCTexts == {[bytes |-> 2, tokens |-> 1], [bytes |-> 3, tokens |-> 3]}

short == [bytes |-> 2, tokens |-> 1]
long == [bytes |-> 3, tokens |-> 3]

PartOf(type) == [type |-> type, text |-> short]
StringOf(text) == [shape |-> "string", parts |-> <<[type |-> "text", text |-> text]>>]
PartsOf(parts) == [shape |-> "parts", parts |-> parts]
NeitherShape == [shape |-> "other", parts |-> <<>>]

MCParts == {PartOf(type) : type \in {"text", "input_text", "output_text", "summary_text", "nontext", "odd"}}
MCContents ==
    {StringOf(long), NeitherShape, PartsOf(<<>>)} \cup {PartsOf(<<p>>) : p \in MCParts} \cup
    {PartsOf(<<PartOf("output_text"), p>>) : p \in {PartOf("text"), PartOf("nontext")}}

ItemOf(type, role, content, whole, opaque) ==
    [type |-> type, role |-> role, content |-> content, whole |-> whole, opaque |-> opaque,
     extras |-> IF type = "message" THEN <<>> ELSE <<short>>]
Messages(contents) ==
    {ItemOf("message", role, c, TRUE, 0) : role \in {"assistant", "user", "odd"}, c \in contents}
Outputs == {ItemOf("function_call_output", "user", c, TRUE, 0) : c \in MCContents}
Others ==
    {ItemOf(type, "user", StringOf(short), whole, 0) :
        type \in {"function_call", "function_call_output", "odd"}, whole \in BOOLEAN} \cup
    {ItemOf("reasoning", "user", PartsOf(<<p>>), whole, 2) : p \in MCParts, whole \in BOOLEAN}
MCItems == Messages(MCContents) \cup Outputs \cup Others

\* A second item, on top of the first.
Seconds == {ItemOf("message", "user", PartsOf(<<PartOf("nontext")>>), TRUE, 0),
            ItemOf("message", "assistant", PartsOf(<<PartOf("text")>>), TRUE, 0),
            ItemOf("reasoning", "user", PartsOf(<<PartOf("summary_text")>>), TRUE, 2)}

BodyOf(items) ==
    [hasModel |-> TRUE, input |-> "items", items |-> items, foreign |-> FALSE,
     extras |-> <<>>, tools |-> FALSE, max |-> 1000, legacyMax |-> NoLimit]
Plain == BodyOf(<<ItemOf("message", "user", StringOf(short), TRUE, 0)>>)

MCBodies ==
    {BodyOf(<<i>>) : i \in MCItems} \cup {BodyOf(<<i, j>>) : i \in MCItems, j \in Seconds} \cup
    {[Plain EXCEPT !.hasModel = FALSE], [Plain EXCEPT !.foreign = TRUE],
     [Plain EXCEPT !.input = "string"], [Plain EXCEPT !.input = "other"],
     [Plain EXCEPT !.tools = TRUE, !.extras = <<long, long>>]} \cup
    {[Plain EXCEPT !.max = a, !.legacyMax = b] : a \in {NoLimit, BadLimit, 1000, 7},
                                                 b \in {NoLimit, BadLimit, 1000}}

RequestOf(endpoint, body) ==
    [endpoint |-> endpoint, raw |-> "fits", json |-> "object", indexKey |-> FALSE,
     model |-> "known", body |-> body]
MCRequested ==
    {RequestOf("chat", b) : b \in {b \in MCBodies : Len(b.items) = 1}} \cup
    {RequestOf("responses", b) : b \in {b \in MCBodies : b.legacyMax = NoLimit}} \cup
    {[RequestOf(endpoint, Plain) EXCEPT !.raw = raw, !.json = json, !.model = model,
                                        !.indexKey = indexKey] :
        endpoint \in {"chat", "responses"}, raw \in {"fits", "over"},
        json \in {"object", "lax", "bad"}, model \in {"known", "unknown", "long"},
        indexKey \in BOOLEAN}
=============================================================================
