---------------------------- MODULE PreparedBody ----------------------------
(***************************************************************************)
(* preflightPreparedOutput: the body that the Deno service prepared starts *)
(* with a marker in the place of the output limit. The gateway reads it in *)
(* whatever chunks arrive, checks its beginning, puts the granted limit in *)
(* the place of the marker and passes the rest on unread.                  *)
(*                                                                         *)
(* The opening {"max_output_tokens": is the two bytes o1 o2 here, the      *)
(* quoted marker the bytes m1 m2, the comma behind it one byte; every other*)
(* byte is x.                                                              *)
(***************************************************************************)
EXTENDS Integers, Sequences, FiniteSetsExt, SequencesExt

CONSTANT
    PrefixBytes,      \* PREPARED_BODY_PREFIX_BYTES: how much of the body is looked at
    MaxRest           \* bound on what follows the marker

ASSUME PreparedAssumption == PrefixBytes \in Nat /\ MaxRest \in Nat

Marker == <<"m1", "m2">>
Opening == <<"o1", "o2">> \o Marker \o <<"comma">>
Limit == <<"granted">>

Occurrences(bytes, needle) ==
    {i \in 1..(Len(bytes) - Len(needle) + 1) : SubSeq(bytes, i, i + Len(needle) - 1) = needle}

\* The service sends a body only when the marker occurs in it once; the marker's
\* own bytes may be anywhere in the client's text.
Prepared ==
    {Opening \o rest : rest \in {s \in BoundedSeq({"x", "m1", "m2"}, MaxRest) :
                                    Occurrences(s, Marker) = {}}}

\* replaceExactOccurrence
Replace(bytes) ==
    LET at == Min(Occurrences(bytes, Marker))
    IN  SubSeq(bytes, 1, at - 1) \o Limit \o SubSeq(bytes, at + Len(Marker), Len(bytes))

-----------------------------------------------------------------------------
VARIABLES
    source,    \* what is still to be read of the prepared body
    prefix,    \* the bytes retained of its beginning
    output     \* what was handed to the upstream call

bodyVars == <<source, prefix, output>>

BodyInit == source = <<>> /\ prefix = <<>> /\ output = <<>>

Receives(bytes) == source' = bytes /\ prefix' = <<>> /\ output' = <<>>

Smaller(a, b) == IF a < b THEN a ELSE b

\* consumeFirstPropertyByte, for as many bytes as the parser takes of a chunk.
Taken(chunk) == SubSeq(chunk, 1, Smaller(Len(chunk), Len(Opening) - Len(prefix)))
Matches(bytes) == \A i \in DOMAIN bytes : bytes[i] = Opening[i]

\* Fault: the bytes behind the opening are kept as tail as well.
FaultTailOf(chunk, retained) == chunk

\* sameChunkTail: what the prefix did not take of its last chunk.
TailOf(chunk, retained) == SubSeq(chunk, retained + 1, Len(chunk))

\* One chunk during the preflight: more is needed, the body is refused, or it is
\* accepted and its beginning queued with the limit in place.
PreflightRead(n) ==
    LET chunk == SubSeq(source, 1, n)
        parsed == prefix \o Taken(chunk)
        more == SubSeq(chunk, Len(Taken(chunk)) + 1,
                       Smaller(n, Len(Taken(chunk)) + PrefixBytes - Len(parsed)))
        kept == parsed \o more
        valid == Matches(parsed) /\ Cardinality(Occurrences(kept, Marker)) = 1
    IN  /\ Len(prefix) < Len(Opening) /\ n \in 1..Len(source)
        /\ source' = SubSeq(source, n + 1, Len(source))
        /\ prefix' = kept
        /\ output' = IF Len(parsed) < Len(Opening) \/ ~valid THEN output
                     ELSE Replace(kept) \o TailOf(chunk, Len(Taken(chunk)) + Len(more))

\* The parser has seen the comma after the marker.
Opened == Len(prefix) >= Len(Opening)

\* The stream that upstream reads pulls the next chunk.
Pull(n) ==
    /\ Opened /\ n \in 1..Len(source)
    /\ output' = output \o SubSeq(source, 1, n)
    /\ source' = SubSeq(source, n + 1, Len(source))
    /\ UNCHANGED prefix
=============================================================================
