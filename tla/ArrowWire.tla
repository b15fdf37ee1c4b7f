----------------------------- MODULE ArrowWire ------------------------------
(***************************************************************************)
(* The framing validator of an Arrow IPC Stream (StreamWireValidator,      *)
(* src/src/arrow.rs).  It walks the same bytes the Arrow decoder will see, *)
(* in whatever chunks they arrive, and adds up what decoding them will     *)
(* cost before a byte is decoded.                                          *)
(*                                                                         *)
(* A stream is a sequence of messages.  What the validator does with a     *)
(* byte depends on which message the byte belongs to and on how much of    *)
(* it has been read, so the bytes themselves are left out: a message is a  *)
(* record of the lengths and fields the code reads out of it, and a chunk  *)
(* is a number of bytes.  A message without metadata is the end marker.    *)
(***************************************************************************)
EXTENDS Integers, Sequences, FiniteSets, FiniteSetsExt

CONSTANTS
    Limits,        \* ArrowIpcLimits: source, decoded, output, metadata, block,
                   \* cells (of a range) and cell (bytes of display text)
    Dictionaries   \* dictionary identifiers

WordBytes   == 4   \* the length word, and the continuation marker before it
PrefixBytes == 8   \* the decoded length in front of a compressed buffer

Larger(a, b)  == IF a > b THEN a ELSE b
Smaller(a, b) == IF a < b THEN a ELSE b

-----------------------------------------------------------------------------
(* What a message costs *)

HeaderBytes(m)  == IF m.continued THEN 2 * WordBytes ELSE WordBytes
MessageBytes(m) == HeaderBytes(m) + m.metadata + m.body

\* The positions of the buffers that hold anything.
CompressedBuffers(m) ==
    IF m.compressed THEN {i \in DOMAIN m.buffers : m.buffers[i].encoded > 0}
                    ELSE {}

\* A decoded length of -1 says that the buffer is stored as it is.
Declared(b) == IF b.declared = -1 THEN b.encoded - PrefixBytes ELSE b.declared

ValidBuffers(m) ==
    \A i \in CompressedBuffers(m) :
        LET b == m.buffers[i]
        IN  /\ b.encoded >= PrefixBytes
            /\ b.offset + b.encoded <= m.body
            /\ \A j \in CompressedBuffers(m) \ {i} :
                  \/ b.offset + b.encoded <= m.buffers[j].offset
                  \/ m.buffers[j].offset + m.buffers[j].encoded <= b.offset

\* validate_stream_message: one schema, and it comes first.
ValidMessage(m, schemaSeen) ==
    /\ m.kind # "tensor"
    /\ (m.kind = "schema") = ~schemaSeen
    /\ m.kind = "schema" => m.native
    /\ m.metadata + m.body <= Limits.block
    /\ ValidBuffers(m)

-----------------------------------------------------------------------------
(* The validator *)

NewWire ==
    [phase |-> "header", at |-> 1, read |-> 0, target |-> WordBytes,
     prefix |-> <<>>, decodedBody |-> 0, schemaSeen |-> FALSE,
     declared |-> 0, records |-> 0, dictionaries |-> 0,
     dictionary |-> [d \in Dictionaries |-> 0],
     peak |-> 0, transient |-> 0, concat |-> 0]

FailedWire(w) == [w EXCEPT !.phase = "failed"]

\* decoder_buffered_bytes: what the decoder holds of an unfinished message.
BufferedBytes(w, messages) ==
    CASE w.phase = "finished" -> 0
      [] w.phase = "body"     -> messages[w.at].metadata + w.read
      [] OTHER                -> w.read

\* record_completed_message, and back to the next header.  A delta is
\* concatenated with what its dictionary held before.
CompleteMessage(w, m) ==
    LET before == IF m.delta THEN w.dictionary[m.id] ELSE 0
        now    == before + w.decodedBody
        header == [w EXCEPT !.phase = "header", !.at = @ + 1, !.read = 0,
                            !.target = WordBytes, !.prefix = <<>>]
    IN  CASE m.kind = "record" ->
               [header EXCEPT !.records = @ + w.decodedBody,
                              !.transient = Larger(@, w.decodedBody)]
          [] m.kind = "dictionary" ->
               [header EXCEPT !.dictionaries = @ + w.decodedBody,
                              !.dictionary[m.id] = now,
                              !.concat = IF m.delta THEN Larger(@, now) ELSE @]
          [] OTHER -> header

TakeHeader(w, m, take) ==
    LET v == [w EXCEPT !.read = @ + take, !.peak = Larger(@, w.read + take)]
    IN  IF v.read < v.target THEN v
        ELSE IF v.target = WordBytes /\ m.kind = "magic" THEN FailedWire(v)
        ELSE IF v.target = WordBytes /\ m.continued
        THEN [v EXCEPT !.target = 2 * WordBytes]
        ELSE IF m.metadata = 0 THEN [v EXCEPT !.phase = "finished"]
        ELSE IF m.metadata > Limits.metadata THEN FailedWire(v)
        ELSE [v EXCEPT !.phase = "metadata", !.read = 0, !.target = m.metadata]

TakeMetadata(w, m, take) ==
    LET v    == [w EXCEPT !.read = @ + take, !.peak = Larger(@, w.read + take)]
        body == [v EXCEPT !.schemaSeen = @ \/ m.kind = "schema",
                          !.decodedBody = IF m.compressed THEN 0 ELSE m.body]
    IN  IF v.read < v.target THEN v
        ELSE IF ~ValidMessage(m, v.schemaSeen) THEN FailedWire(v)
        ELSE IF m.body = 0
        THEN CompleteMessage([body EXCEPT !.decodedBody = 0], m)
        ELSE [body EXCEPT !.phase = "body", !.read = 0, !.target = m.body,
                          !.prefix = [i \in CompressedBuffers(m) |-> 0],
                          !.peak = Larger(@, m.body + m.metadata)]

\* Only the prefix bytes of this fragment are looked at.
PrefixAfreshRead(w, b, i, take) ==
    LET from == Larger(w.read, b.offset)
        to   == Smaller(w.read + take, b.offset + PrefixBytes)
    IN  IF from < to THEN to - from ELSE w.prefix[i]

\* How much of the decoded-length prefix of buffer i has been seen once the
\* fragment that follows is in: a prefix may come in several fragments.
PrefixRead(w, b, i, take) ==
    LET from == Larger(w.read, b.offset)
        to   == Smaller(w.read + take, b.offset + PrefixBytes)
    IN  IF from < to THEN Larger(w.prefix[i], to - b.offset) ELSE w.prefix[i]

\* A buffer is accounted for when the last byte of its prefix arrives, once.
TakeBody(w, m, take) ==
    LET prefix == [i \in DOMAIN w.prefix |->
                      PrefixRead(w, m.buffers[i], i, take)]
        known  == {i \in DOMAIN prefix : /\ w.prefix[i] < PrefixBytes
                                         /\ prefix[i] = PrefixBytes}
        bytes  == MapThenSumSet(LAMBDA i : Declared(m.buffers[i]), known)
        v      == [w EXCEPT !.prefix = prefix, !.read = @ + take,
                            !.declared = @ + bytes, !.decodedBody = @ + bytes,
                            !.peak = Larger(@, m.metadata + w.read + take)]
    IN  IF \/ \E i \in known : Declared(m.buffers[i]) < 0
           \/ v.declared > Limits.decoded
        THEN FailedWire(v)
        ELSE IF v.read < v.target THEN v
        ELSE IF \E i \in DOMAIN prefix : prefix[i] < PrefixBytes
        THEN FailedWire(v)
        ELSE CompleteMessage(v, m)

\* The loop of feed: as much as the current part of the message wants.
RECURSIVE TakeBytes(_, _, _)
TakeBytes(w, messages, bytes) ==
    LET take == Smaller(w.target - w.read, bytes)
        m    == messages[w.at]
    IN  CASE bytes = 0 \/ w.phase = "failed" -> w
          [] w.phase = "finished" -> FailedWire(w)
          [] w.phase = "header" ->
               TakeBytes(TakeHeader(w, m, take), messages, bytes - take)
          [] w.phase = "metadata" ->
               TakeBytes(TakeMetadata(w, m, take), messages, bytes - take)
          [] w.phase = "body" ->
               TakeBytes(TakeBody(w, m, take), messages, bytes - take)

\* StreamWireValidator::feed
WireFeed(w, messages, bytes) ==
    TakeBytes([w EXCEPT !.peak = BufferedBytes(w, messages),
                        !.transient = 0, !.concat = 0],
              messages, bytes)

\* ensure_decode_memory_budget: what is retained, the chunk, what the
\* decoder buffers of a message and what it needs for a moment.
WithinDecodeBudget(w, decoded, ingress) ==
    Larger(decoded, w.records) + w.dictionaries + ingress + w.peak
      + w.transient + w.concat <= Limits.decoded

\* finish: at the end marker or between two messages, after the schema.
WireComplete(w) ==
    /\ w.schemaSeen
    /\ \/ w.phase = "finished"
       \/ w.phase = "header" /\ w.read = 0 /\ w.target = WordBytes

=============================================================================
