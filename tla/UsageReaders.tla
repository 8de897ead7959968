---------------------------- MODULE UsageReaders ----------------------------
(***************************************************************************)
(* How usage is found in a streamed answer. On the direct route proxyStream*)
(* collects the text of each event; the Deno relay keeps a ring of the most*)
(* recent bytes and looks at it when a chunk mentions usage and again at   *)
(* the end. Both see the same bytes, cut into any chunks.                  *)
(*                                                                         *)
(* In a stream q is a quote, u the word usage, n the value null, v1 v2 the *)
(* beginning and the end of an object with total_tokens, x any other text, *)
(* and b the blank line between events. The needles "usage" and            *)
(* response.completed are both q u q here. Every event is valid JSON in    *)
(* full, for which findUsage and findBalancedUsage agree.                  *)
(***************************************************************************)
EXTENDS Integers, Sequences, FiniteSetsExt, SequencesExt

CONSTANTS
    RingCapacity,    \* tailCapacityBytes
    MaxEvents        \* bound on the events of a stream

ASSUME UsageAssumption == RingCapacity \in Nat \ {0} /\ MaxEvents \in Nat

Text == <<"q", "x", "q">>
Needle == <<"q", "u", "q">>
UsageValue == <<"v1", "v2">>
UsageEvents == {Needle \o UsageValue, Text \o Needle \o UsageValue}
OtherEvents == {Text, Needle \o <<"n">>}

\* Events, each with a blank line behind or before it.
Ended(events) == FlattenSeq([i \in DOMAIN events |-> events[i] \o <<"b">>])
Following(events) == FlattenSeq([i \in DOMAIN events |-> <<"b">> \o events[i]])

\* Upstream sends one event with the usage, among others; a stream may break
\* off behind any event or leave out the last blank line.
Streams ==
    LET parts == BoundedSeq(OtherEvents, MaxEvents - 1)
    IN  {Ended(s) : s \in parts} \cup
        {Ended(s) \o e \o Following(t) \o end :
            s \in parts, e \in UsageEvents, t \in parts, end \in {<<>>, <<"b">>}}

-----------------------------------------------------------------------------
Within(text, needle) ==
    \E i \in 1..(Len(text) - Len(needle) + 1) : SubSeq(text, i, i + Len(needle) - 1) = needle

\* Quotes are paired from the beginning of the text on: one opens a string when an
\* even number stands before it.
Opens(text, i) ==
    text[i] = "q" /\ Cardinality({j \in 1..(i - 1) : text[j] = "q"}) % 2 = 0

\* findBalancedUsage: the string usage, followed by an object with total_tokens.
HasUsage(text) ==
    \E i \in 1..(Len(text) - 4) :
        Opens(text, i) /\ SubSeq(text, i, i + 4) = Needle \o UsageValue

\* parseEvent and the loop of extractUsageFromTailText look at each event alone.
EventHasUsage(event) == Within(event, Needle) /\ HasUsage(event)
Boundaries(text) == {i \in DOMAIN text : text[i] = "b"}
LastEvent(text) == SubSeq(text, Max(Boundaries(text) \cup {0}) + 1, Len(text))
ClosedEvents(text) ==
    {SubSeq(text, Max({j \in Boundaries(text) : j < i} \cup {0}) + 1, i - 1) : i \in Boundaries(text)}

\* extractUsageFromTailText
TailHasUsage(text) ==
    \E event \in ClosedEvents(text) \cup {LastEvent(text)} : EventHasUsage(event)

-----------------------------------------------------------------------------
VARIABLES
    stream,     \* what upstream sends
    seen,       \* how much of it has arrived
    direct,     \* proxyStream: pendingEvent and whether usage was found
    relayed     \* forwardEventStream: the ring and whether usage was found

readerVars == <<stream, seen, direct, relayed>>

\* buffer, writeIndex and totalBytes of RingTailBuffer
EmptyRing == [buffer |-> [i \in 0..RingCapacity - 1 |-> "x"], at |-> 0, total |-> 0]

ReadersStart(s) ==
    /\ stream' = s /\ seen' = 0
    /\ direct' = [pending |-> <<>>, found |-> FALSE]
    /\ relayed' = [ring |-> EmptyRing, found |-> FALSE]

ReadersInit ==
    /\ stream = <<>> /\ seen = 0
    /\ direct = [pending |-> <<>>, found |-> FALSE]
    /\ relayed = [ring |-> EmptyRing, found |-> FALSE]

\* The buffer with bytes laid in from a place on, without wrapping.
Laid(buffer, from, bytes) ==
    [i \in DOMAIN buffer |-> IF i \in from..(from + Len(bytes) - 1)
                             THEN bytes[i - from + 1] ELSE buffer[i]]

\* Fault: after wrapping the next write begins where the first part ended.
FaultRingWrite(ring, chunk) ==
    LET len == Len(chunk)
        first == Min({len, RingCapacity - ring.at})
        wrapped == Laid(Laid(ring.buffer, ring.at, SubSeq(chunk, 1, first)),
                        0, SubSeq(chunk, first + 1, len))
    IN  [buffer |-> wrapped, total |-> ring.total + len, at |-> (ring.at + first) % RingCapacity]

\* write
RingWrite(ring, chunk) ==
    LET len == Len(chunk)
        first == Min({len, RingCapacity - ring.at})
        wrapped == Laid(Laid(ring.buffer, ring.at, SubSeq(chunk, 1, first)),
                        0, SubSeq(chunk, first + 1, len))
    IN  IF len >= RingCapacity
        THEN [buffer |-> Laid(ring.buffer, 0, SubSeq(chunk, len - RingCapacity + 1, len)),
              at |-> 0, total |-> ring.total + len]
        ELSE [buffer |-> wrapped, total |-> ring.total + len,
              at |-> (ring.at + len) % RingCapacity]

\* getTail
RingTail(ring) ==
    IF ring.total < RingCapacity
    THEN [i \in 1..ring.total |-> ring.buffer[i - 1]]
    ELSE [i \in 1..RingCapacity |-> ring.buffer[(ring.at + i - 1) % RingCapacity]]

\* transform and consumeEventText: nothing is read any more once usage was found.
DirectReads(chunk) ==
    LET text == direct.pending \o chunk
    IN  IF direct.found THEN direct
        ELSE [pending |-> LastEvent(text),
              found |-> \E event \in ClosedEvents(text) : EventHasUsage(event)]

\* pull: the tail is searched only when this chunk holds a whole needle.
RelayReads(chunk) ==
    LET ring == RingWrite(relayed.ring, chunk)
    IN  [ring |-> ring,
         found |-> relayed.found \/ (Within(chunk, Needle) /\ TailHasUsage(RingTail(ring)))]

ChunkArrives(n) ==
    LET chunk == SubSeq(stream, seen + 1, seen + n)
    IN  /\ n \in 1..(Len(stream) - seen)
        /\ seen' = seen + n
        /\ direct' = DirectReads(chunk)
        /\ relayed' = RelayReads(chunk)
        /\ UNCHANGED stream

\* flush, and the end of the relay's stream: what is left is searched once more.
StreamCloses ==
    /\ seen = Len(stream)
    /\ direct' = [direct EXCEPT !.found = @ \/ EventHasUsage(direct.pending)]
    /\ relayed' = [relayed EXCEPT !.found = @ \/ TailHasUsage(RingTail(relayed.ring))]
    /\ UNCHANGED <<stream, seen>>
=============================================================================
