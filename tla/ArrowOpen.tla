----------------------------- MODULE ArrowOpen ------------------------------
(***************************************************************************)
(* The incremental open of one Arrow IPC source (ArrowIpcOpenOperation and *)
(* ArrowIpcSource, src/src/arrow.rs, as advance_open of                    *)
(* crates/tabulark-arrow-wasm/src/lib.rs drives it).  A File is recognised *)
(* by its magic and trailer, its footer is read, and the metadata of its   *)
(* blocks is indexed in batches of ranges; a Stream is read in chunks and  *)
(* its decoded batches are handed to the published table as deltas.        *)
(*                                                                         *)
(* `input' is the source and the options it is opened with; `issued' are   *)
(* the byte ranges of the step the host is working on.  A refused step     *)
(* ends the open and withdraws the published table.                        *)
(***************************************************************************)
EXTENDS ArrowWire, SequencesExt

CONSTANTS
    Inputs,          \* the sources and options considered
    MaxStepRanges,   \* ranges in one step
    StepBudget       \* bytes in one step (operation_budget_bytes)

VARIABLES input, open, issued, table

openVars == <<input, open, issued, table>>

None == [kind |-> "none"]

MagicBytes   == 6
TrailerBytes == 10
FileBytes    == 18   \* the shortest File: both magics and the footer length

\* ArrowIpcLimits::validate
ValidLimits(limits) ==
    /\ \A name \in DOMAIN limits : limits[name] > 0
    /\ \A name \in {"output", "metadata", "block", "cell"} :
          limits[name] <= limits.decoded

ASSUME ArrowAssumption ==
    /\ ValidLimits(Limits)
    /\ \A in \in Inputs : in.chunk \in 1 .. Limits.decoded
    /\ MaxStepRanges \in Nat \ {0}
    /\ StepBudget \in Nat \ {0}

-----------------------------------------------------------------------------
(* Sources *)

Messages == input.messages
Footer   == input.footer

ReadBytes(offset, length) == [offset |-> offset, length |-> length]

InSource(action) == action.offset + action.length <= input.length

\* file_block_spec
ValidBlock(b) ==
    /\ b.metadata >= 4 /\ b.metadata <= Limits.metadata
    /\ b.metadata + b.body <= Limits.block
    /\ InSource(ReadBytes(b.offset, b.metadata + b.body))

\* validate_schema, over the totals of the schema's fields.
ValidSchema(schema) ==
    /\ schema.fields <= Limits.fields
    /\ schema.depth <= Limits.depth
    /\ schema.metadata <= Limits.metadata

\* encapsulated_message: a block names a message of the kind and the length
\* its index says.
BlockHolds(b, kind) ==
    /\ b.message.continued => b.metadata >= 2 * WordBytes
    /\ b.message.kind = kind
    /\ b.message.body = b.body

\* The number of bytes up to the end of message k.
MessageEnd(messages, k) ==
    MapThenSumSet(LAMBDA i : MessageBytes(messages[i]), 1 .. k)

\* StreamDecoder (external): a message is decoded with the last byte of its
\* body, one without a body only when a byte after it arrives.
Decodes(messages, k, bytes) ==
    \/ messages[k].body > 0 /\ MessageEnd(messages, k) <= bytes
    \/ MessageEnd(messages, k) < bytes

DecodedBy(messages, bytes) ==
    SelectSeq([k \in 1 .. Len(messages) |-> k],
              LAMBDA k : messages[k].kind = "record" /\ Decodes(messages, k, bytes))

\* StreamDecoder::schema
SchemaKnown(messages, bytes) ==
    \E k \in 1 .. Len(messages) :
        messages[k].kind = "schema" /\ Decodes(messages, k, bytes)

\* StreamDecoder::finish refuses a last message that is not decoded.
DecoderFinished(messages, bytes) ==
    \A k \in 1 .. Len(messages) :
        MessageEnd(messages, k) = bytes =>
            messages[k].kind = "end" \/ Decodes(messages, k, bytes)

SumRows(messages, batches) ==
    FoldLeft(LAMBDA total, k : total + messages[k].rows, 0, batches)

SumMemory(messages, batches) ==
    FoldLeft(LAMBDA total, k : total + messages[k].memory, 0, batches)

-----------------------------------------------------------------------------
(* The open operation *)

OpenState(state) ==
    [state |-> state, wire |-> NewWire, offset |-> 0, batches |-> <<>>,
     offsets |-> <<0>>, decoded |-> 0, nextDictionary |-> 1, nextRecord |-> 1,
     index |-> <<>>, published |-> 0, announced |-> FALSE]

\* ArrowIpcOpenOperation::new
OpenRefused(in) ==
    \/ in.length > Limits.source
    \/ in.container = "file" /\ in.length < FileBytes

NewOpen(in) ==
    OpenState(IF \/ in.container = "stream"
                 \/ in.container = "auto" /\ in.length < FileBytes
              THEN "stream" ELSE "magic")

FailedOpen(o) == [o EXCEPT !.state = "failed"]

\* The blocks whose metadata is still to be read, dictionaries first.
BlocksLeft(o) ==
    SubSeq(Footer.dictionaries, o.nextDictionary, Len(Footer.dictionaries))
      \o SubSeq(Footer.records, o.nextRecord, Len(Footer.records))

MetadataComplete(o) == BlocksLeft(o) = <<>>

\* next_action of the states that read one range at a time
SingleAction(o) ==
    CASE o.state = "magic"   -> ReadBytes(0, MagicBytes)
      [] o.state = "trailer" -> ReadBytes(input.length - TrailerBytes,
                                          TrailerBytes)
      [] o.state = "footer"  -> ReadBytes(input.length - TrailerBytes
                                            - Footer.length, Footer.length)
      [] o.state = "stream"  -> ReadBytes(o.offset,
                                          Smaller(input.length - o.offset,
                                                  input.chunk))

MetadataAction(b) == ReadBytes(b.offset, b.metadata)

ActionBytes(actions) ==
    FoldLeft(LAMBDA total, a : total + a.length, 0, actions)

\* The longest run of pending metadata ranges within both limits.
IndexActions(o, maxRanges, maxBytes) ==
    LET blocks  == BlocksLeft(o)
        Run(n)  == [i \in 1 .. n |-> MetadataAction(blocks[i])]
        fitting == {n \in 0 .. Smaller(maxRanges, Len(blocks)) :
                       ActionBytes(Run(n)) <= maxBytes}
    IN  Run(Max(fitting))

\* next_actions; no action means that the open cannot go on.
NextActions(o, maxRanges, maxBytes) ==
    CASE o.state \in {"complete", "failed"} -> <<>>
      [] o.state = "index" -> IndexActions(o, maxRanges, maxBytes)
      [] OTHER -> IF SingleAction(o).length > maxBytes THEN <<>>
                  ELSE <<SingleAction(o)>>

-----------------------------------------------------------------------------
(* Feeding a File *)

CompleteOpen(o) == [o EXCEPT !.state = "complete"]

\* feed_file_metadata and feed_file_footer end alike.
IndexOrComplete(o) ==
    IF MetadataComplete(o) THEN CompleteOpen(o) ELSE [o EXCEPT !.state = "index"]

FeedMagic(o) ==
    CASE Messages[1].kind = "magic" -> [o EXCEPT !.state = "trailer"]
      [] Messages[1].kind # "magic" /\ input.container = "auto" ->
           [o EXCEPT !.state = "stream"]
      [] OTHER -> FailedOpen(o)

FeedTrailer(o) ==
    IF ~Footer.trailer
    THEN IF input.container = "auto" THEN [o EXCEPT !.state = "stream"]
                                     ELSE FailedOpen(o)
    ELSE IF \/ Footer.length > input.length - FileBytes
            \/ Footer.length > Limits.metadata
    THEN FailedOpen(o)
    ELSE [o EXCEPT !.state = "footer"]

FeedFooter(o) ==
    IF /\ Footer.readable
       /\ ValidSchema(input.schema)
       /\ \A b \in ToSet(Footer.dictionaries) \cup ToSet(Footer.records) :
             ValidBlock(b)
    THEN IndexOrComplete(o)
    ELSE FailedOpen(o)

\* A record that starts where its own rows end.
IndexBlockLate(o) ==
    LET b    == Footer.records[o.nextRecord]
        rows == o.offsets[Len(o.offsets)] + b.message.rows
    IN  IF o.state = "failed" THEN o
        ELSE IF o.nextDictionary <= Len(Footer.dictionaries)
        THEN [o EXCEPT !.nextDictionary = @ + 1]
        ELSE [o EXCEPT !.nextRecord = @ + 1, !.offsets = Append(@, rows),
                       !.index = Append(@, [start |-> rows,
                                            count |-> b.message.rows])]

\* index_file_metadata: one block, in footer order; records get their rows.
IndexBlock(o) ==
    LET d    == Footer.dictionaries[o.nextDictionary]
        b    == Footer.records[o.nextRecord]
        rows == o.offsets[Len(o.offsets)]
    IN  IF o.state = "failed" THEN o
        ELSE IF o.nextDictionary <= Len(Footer.dictionaries)
        THEN IF BlockHolds(d, "dictionary")
             THEN [o EXCEPT !.nextDictionary = @ + 1] ELSE FailedOpen(o)
        ELSE IF BlockHolds(b, "record")
        THEN [o EXCEPT !.nextRecord = @ + 1,
                       !.offsets = Append(@, rows + b.message.rows),
                       !.index = Append(@, [start |-> rows,
                                            count |-> b.message.rows])]
        ELSE FailedOpen(o)

FeedIndex(o, count) ==
    LET fed == FoldLeft(LAMBDA acc, i : IndexBlock(acc), o,
                        [i \in 1 .. count |-> i])
    IN  IF fed.state = "failed" THEN fed ELSE IndexOrComplete(fed)

-----------------------------------------------------------------------------
(* Feeding a Stream *)

\* One decoded batch, detached from the chunk it came in.
PushBatch(o, k) ==
    [o EXCEPT !.batches = Append(@, k),
              !.offsets = Append(@, @[Len(@)] + Messages[k].rows),
              !.decoded = @ + Messages[k].memory]

\* feed_stream_owned: validated and paid for before the decoder sees it.
FeedStream(o, bytes, eof) ==
    LET w     == WireFeed(o.wire, Messages, bytes)
        end   == o.offset + bytes
        fresh == SubSeq(DecodedBy(Messages, end), Len(o.batches) + 1,
                        Len(DecodedBy(Messages, end)))
        fed   == [FoldLeft(PushBatch, o, fresh)
                    EXCEPT !.wire = w, !.offset = end]
    IN  IF \/ w.phase = "failed"
           \/ ~WithinDecodeBudget(w, o.decoded, bytes)
           \/ \E k \in ToSet(fresh) : Messages[k].corrupt
           \/ fed.decoded > Limits.decoded
           \/ ~WithinDecodeBudget(w, fed.decoded, bytes)
           \/ SchemaKnown(Messages, end) /\ ~ValidSchema(input.schema)
           \/ eof /\ ~(WireComplete(w) /\ DecoderFinished(Messages, end))
        THEN FailedOpen(fed)
        ELSE IF eof THEN CompleteOpen(fed) ELSE fed


-----------------------------------------------------------------------------
(* Publishing *)

Table(kind, batches, offsets, decoded, exact, index) ==
    [kind |-> kind, batches |-> batches, offsets |-> offsets,
     decoded |-> decoded, exact |-> exact, index |-> index]

TableRows(t) == t.offsets[Len(t.offsets)]

\* take_stream_delta and take_completed_stream_delta: what was decoded since
\* the last publication, with the running totals.
StreamDelta(o, exact) ==
    [start |-> o.published,
     batches |-> SubSeq(o.batches, o.published + 1, Len(o.batches)),
     rows |-> o.offsets[Len(o.offsets)], decoded |-> o.decoded, exact |-> exact]

\* The first delta announces the schema even without a batch.
HasDelta(o) ==
    /\ o.state = "stream" /\ SchemaKnown(Messages, o.offset)
    /\ o.announced => o.published < Len(o.batches)

TakenDelta(o) == [o EXCEPT !.published = Len(o.batches), !.announced = TRUE]

EmptyStream == Table("stream", <<>>, <<0>>, 0, FALSE, <<>>)

\* append_stream_delta on the published table, and from_stream_delta on an
\* empty one: the delta must continue where the table ends and its totals
\* must agree.
DeltaApplies(t, delta) ==
    /\ delta.start = Len(t.batches)
    /\ delta.rows = TableRows(t) + SumRows(Messages, delta.batches)
    /\ delta.decoded = t.decoded + SumMemory(Messages, delta.batches)
    /\ delta.decoded <= Limits.decoded

AppendDelta(t, delta) ==
    LET Rows(n) == TableRows(t) + SumRows(Messages, SubSeq(delta.batches, 1, n))
    IN  Table("stream", t.batches \o delta.batches,
              t.offsets \o [n \in 1 .. Len(delta.batches) |-> Rows(n)],
              delta.decoded, delta.exact, <<>>)

Published == IF table = None THEN EmptyStream ELSE table

\* complete_file
FileTable(o) == Table("file", <<>>, o.offsets, 0, TRUE, o.index)

-----------------------------------------------------------------------------
\* A continued open that fails takes its published prefix with it.
EndOpen(o) ==
    /\ open' = FailedOpen(o)
    /\ issued' = <<>>
    /\ table' = None

\* The delta that is due, applied to the published table.
PublishDelta(o, exact, actions) ==
    LET delta == StreamDelta(o, exact)
    IN  IF DeltaApplies(Published, delta)
        THEN /\ open' = TakenDelta(o)
             /\ issued' = actions
             /\ table' = AppendDelta(Published, delta)
        ELSE EndOpen(o)

\* The open is over: the rest of a Stream, or the index of a File.
FinishOpen(o) ==
    IF open.state = "stream"
    THEN PublishDelta(o, TRUE, <<>>)
    ELSE open' = o /\ issued' = <<>> /\ table' = FileTable(o)

\* There is more to read.
GoOn(o, actions) ==
    IF actions = <<>> THEN EndOpen(o)
    ELSE IF HasDelta(o) THEN PublishDelta(o, FALSE, actions)
    ELSE open' = o /\ issued' = actions /\ UNCHANGED table

\* feed_many_owned on the whole result set of the step.
Fed ==
    LET last == issued[Len(issued)]
        eof  == last.offset + last.length = input.length
    IN  CASE open.state = "magic"   -> FeedMagic(open)
          [] open.state = "trailer" -> FeedTrailer(open)
          [] open.state = "footer"  -> FeedFooter(open)
          [] open.state = "index"   -> FeedIndex(open, Len(issued))
          [] open.state = "stream"  -> FeedStream(open, last.length, eof)

\* advance_open
FeedOpen ==
    /\ open.state \notin {"complete", "failed"}
    /\ CASE Fed.state = "failed"   -> EndOpen(Fed)
         [] Fed.state = "complete" -> FinishOpen(Fed)
         [] OTHER -> GoOn(Fed, NextActions(Fed, MaxStepRanges, StepBudget))
    /\ UNCHANGED input

OpenInit ==
    /\ input \in {in \in Inputs : ~OpenRefused(in)}
    /\ open = NewOpen(input)
    /\ issued = NextActions(open, MaxStepRanges, StepBudget)
    /\ issued # <<>>
    /\ table = None

=============================================================================
