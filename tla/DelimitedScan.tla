--------------------------- MODULE DelimitedScan ---------------------------
(***************************************************************************)
(* The delimited-text engine: CsvScanner reads a source once, in chunks of *)
(* any size, and keeps the schema, the row count and a sparse index of     *)
(* record boundaries, never the bytes; RangeDecoder reads a rectangle of   *)
(* cells from the checkpoint before it, while the scan may still run.      *)
(*                                                                         *)
(* A source is a sequence of byte classes and a field is the sequence of   *)
(* the absolute offsets of its bytes, so that two fields are equal only    *)
(* when they are the same bytes of the source.                             *)
(***************************************************************************)
EXTENDS Naturals, Integers, Sequences, SequencesExt, FiniteSetsExt

CONSTANTS Contents,       \* the sources: sequences over Bytes
          OptionSets,     \* the DelimitedOptions and CsvLimits to scan with
          Requests,       \* the ranges that are read
          ChunkSizes      \* lengths of the chunks the scan and the reads are fed

Delim == "delim"
Quote == "quote"
CR == "cr"
LF == "lf"
Text == "text"            \* any other byte of valid UTF-8
Invalid == "invalid"      \* a byte no UTF-8 text holds
BOM == <<"ef", "bb", "bf">>
Bytes == {Delim, Quote, CR, LF, Text, Invalid} \cup Range(BOM)

(***************************************************************************)
(* DelimitedOptions::validate.                                             *)
(***************************************************************************)
ValidOptions(o) ==
    /\ o.interval > 0
    /\ o.maxFieldBytes > 0 /\ o.maxColumns > 0
    /\ o.maxCells > 0 /\ o.maxBatchBytes > 0

\* DelimitedOptions with CsvLimits, and a RangeRequest: the counts are unsigned.
Options == [header : BOOLEAN, strict : BOOLEAN, interval : Nat, maxFieldBytes : Nat,
            maxColumns : Nat, maxCells : Nat, maxBatchBytes : Nat, maxDiagnostics : Nat]
Rectangles == [rowStart : Nat, rowCount : Nat, columnStart : Nat, columnCount : Nat]

ASSUME ConfigAssumption ==
    /\ Contents \subseteq Seq(Bytes)
    /\ OptionSets \subseteq Options /\ \A o \in OptionSets : ValidOptions(o)
    /\ Requests \subseteq Rectangles
    /\ ChunkSizes \subseteq Nat \ {0}

VARIABLES source,   \* the bytes, which only the caller holds
          opt,      \* the options of the open
          scan,     \* the CsvScanner
          dec,      \* the RangeDecoder of the read under way, or NoDecoder
          batch     \* the last terminal batch, or NoBatch

vars == <<source, opt, scan, dec, batch>>

NoDecoder == [active |-> FALSE]
NoBatch == [delivered |-> FALSE]
OK == "ok"

Byte(o) == source[o + 1]
Offsets(from, to) == [i \in 1 .. to - from |-> from + i - 1]
Min2(a, b) == IF a < b THEN a ELSE b

\* The ? operator: a step runs only when nothing before it failed.
Then(s, Op(_)) == IF s.error = OK THEN Op(s) ELSE s
Fail(s, code) == [s EXCEPT !.error = code]

-----------------------------------------------------------------------------
(* The csv_core reader, byte by byte: where a byte leads, whether it is     *)
(* copied to the field and whether it ends a field or a record. A CR ends   *)
(* the record at once; the LF after it belongs to the next read.            *)

Goes(to, copy, ends) == [to |-> to, copy |-> copy, ends |-> ends]

\* A delimiter or a terminator outside quotes.
EndsField(b) ==
    IF b = Delim THEN Goes("StartField", FALSE, "field")
    ELSE Goes(IF b = CR THEN "CRLF" ELSE "StartRecord", FALSE, "record")

Transition(state, b) ==
    CASE state \in {"StartRecord", "CRLF"} /\ b \in {CR, LF} ->
             Goes("StartRecord", FALSE, "none")
      [] state = "InQuotedField" /\ b = Quote -> Goes("InDoubleEscapedQuote", FALSE, "none")
      [] state = "InQuotedField" /\ b # Quote -> Goes("InQuotedField", TRUE, "none")
      [] state = "InDoubleEscapedQuote" /\ b = Quote -> Goes("InQuotedField", TRUE, "none")
      [] state \in {"StartRecord", "CRLF", "StartField"} /\ b = Quote ->
             Goes("InQuotedField", FALSE, "none")
      [] OTHER -> IF b \in {Delim, CR, LF} THEN EndsField(b)
                                           ELSE Goes("InField", TRUE, "none")

\* A byte order mark at offset o, and whether csv_core drops it: it does from the
\* first slice a reader is given, when the slice holds all of it. A slice that is
\* nothing else then reads as the end of the input, which is a failure there.
MarkAt(o) == o + 3 <= Len(source) /\ \A i \in 1 .. 3 : Byte(o + i - 1) = BOM[i]
DropsMark(r, from, to) == ~r.hasRead /\ from + 3 <= to /\ MarkAt(from)
FirstRead(r, from, to) == IF DropsMark(r, from, to) THEN from + 3 ELSE from
OnlyMark(r, from, to) == DropsMark(r, from, to) /\ from + 3 = to

\* What reading the empty slice at the end of the source reports.
FinalRecord(state) == state \notin {"StartRecord", "CRLF"}

-----------------------------------------------------------------------------
(* QuoteTracker: a second lexer, run beside csv_core to locate bad quotes.  *)

NewTracker == [state |-> "StartField", opening |-> -1]

\* One byte at offset o; issues collects the offsets of the problems.
TrackQuote(t, o) ==
    LET b == Byte(o)
        ends == b \in {Delim, CR, LF}
    IN  CASE t.lex.state = "StartField" /\ b = Quote ->
                 [t EXCEPT !.lex = [state |-> "Quoted", opening |-> o]]
          [] t.lex.state = "StartField" /\ b # Quote ->
                 [t EXCEPT !.lex.state = IF ends THEN "StartField" ELSE "Unquoted"]
          [] t.lex.state = "Unquoted" /\ b = Quote -> [t EXCEPT !.issues = Append(@, o)]
          [] t.lex.state = "Unquoted" /\ b # Quote ->
                 [t EXCEPT !.lex.state = IF ends THEN "StartField" ELSE "Unquoted"]
          [] t.lex.state = "Quoted" ->
                 [t EXCEPT !.lex.state = IF b = Quote THEN "AfterQuote" ELSE "Quoted"]
          [] t.lex.state = "AfterQuote" /\ b = Quote -> [t EXCEPT !.lex.state = "Quoted"]
          [] t.lex.state = "AfterQuote" /\ ends -> [t EXCEPT !.lex = NewTracker]
          [] OTHER -> [lex |-> [state |-> "Unquoted", opening |-> -1],
                       issues |-> Append(t.issues, o)]

\* Mutant: the tracker forgets its state between chunks.
ConsumeQuotesAfresh(lex, from, to) ==
    FoldLeft(TrackQuote, [lex |-> NewTracker, issues |-> <<>>], Offsets(from, to))

ConsumeQuotes(lex, from, to) ==
    FoldLeft(TrackQuote, [lex |-> lex, issues |-> <<>>], Offsets(from, to))

HandleDiagnostic(s, kind, row, offset) ==
    IF opt.strict THEN Fail(s, "PARSE_FAILED")
    ELSE IF Len(s.diagnostics) < opt.maxDiagnostics
         THEN [s EXCEPT !.diagnostics = Append(@, [kind |-> kind, row |-> row, offset |-> offset])]
         ELSE s

\* Every quote problem of the chunk is reported before its first byte is parsed.
QuoteDiagnostics(s, row, from, to) ==
    LET t == ConsumeQuotes(s.lexical, from, to)
    IN  FoldLeft(LAMBDA z, o : Then(z, LAMBDA y : HandleDiagnostic(y, "malformed-quote", row, o)),
                 [s EXCEPT !.lexical = t.lex], t.issues)

UnclosedQuote(s, row) ==
    IF s.lexical.state = "Quoted"
    THEN HandleDiagnostic(s, "malformed-quote", row, s.lexical.opening)
    ELSE s

ValidUtf8(field) == \A i \in DOMAIN field : Byte(field[i]) \in {Delim, Quote, CR, LF, Text}

\* from_utf8_lossy: one three-byte replacement character per bad byte.
Lossy(field) ==
    FoldLeft(LAMBDA out, o : out \o (IF ValidUtf8(<<o>>) THEN <<o>> ELSE <<-1, -1, -1>>),
             <<>>, field)

AppendField(s, o) ==
    IF Len(s.field) + 1 > opt.maxFieldBytes
    THEN Fail(s, "RESOURCE_LIMIT")
    ELSE [s EXCEPT !.field = Append(@, o)]

-----------------------------------------------------------------------------
(* CsvScanner.                                                              *)

NewScanner(o) ==
    [reader |-> "StartRecord", hasRead |-> FALSE, lexical |-> NewTracker,
     bomPrefix |-> 0, bomResolved |-> FALSE,
     received |-> 0, parserOffset |-> 0, recordStart |-> 0,
     field |-> <<>>, recordFields |-> 0,
     headerNames |-> <<>>, headerPending |-> o.header,
     rows |-> 0, columns |-> <<>>, version |-> 0,
     checkpoints |-> <<>>, diagnostics |-> <<>>, finished |-> FALSE, error |-> OK]

\* A column is named by its header field; without one it is numbered (<<>>).
EnsureColumns(s, count, names) ==
    IF count > opt.maxColumns THEN Fail(s, "RESOURCE_LIMIT")
    ELSE IF count <= Len(s.columns) THEN s
    ELSE [s EXCEPT !.columns = @ \o [i \in 1 .. count - Len(@) |->
                                        IF Len(@) + i \in DOMAIN names
                                        THEN names[Len(@) + i] ELSE <<>>],
                   !.version = @ + 1]

FinishField(s) ==
    LET s1 == [s EXCEPT !.recordFields = @ + 1]
        row == IF s.headerPending THEN -1 ELSE s.rows
        diagnosed(z) == IF ValidUtf8(z.field) THEN z
                        ELSE HandleDiagnostic(z, "invalid-utf8", row, z.recordStart)
        taken(z) == [z EXCEPT !.headerNames = IF z.headerPending THEN Append(@, Lossy(z.field)) ELSE @,
                              !.field = <<>>]
    IN  IF s1.recordFields > opt.maxColumns THEN Fail(s1, "RESOURCE_LIMIT")
        ELSE Then(diagnosed(s1), taken)

\* The record is the header, or a data row: the row is indexed first, and may
\* widen the schema.
HeaderRecord(s) ==
    Then(EnsureColumns([s EXCEPT !.headerNames = <<>>], s.recordFields, s.headerNames),
         LAMBDA z : [z EXCEPT !.headerPending = FALSE])

IndexRow(s) ==
    IF s.rows % opt.interval = 0
    THEN [s EXCEPT !.checkpoints = Append(@, [row |-> s.rows, offset |-> s.recordStart])]
    ELSE s

DataRecord(s) ==
    LET fields == s.recordFields
        ragged == s.columns # <<>> /\ fields # Len(s.columns)
        told(z) == IF ragged THEN HandleDiagnostic(z, "ragged-row", z.rows, z.recordStart) ELSE z
        fit(z) == EnsureColumns(z, fields, <<>>)
    IN  Then(Then(Then(IndexRow(s), told), fit), LAMBDA z : [z EXCEPT !.rows = @ + 1])

\* Mutant: the header does not move the start of the next record.
FinishRecordStale(s) ==
    Then(IF s.headerPending THEN HeaderRecord(s) ELSE DataRecord(s),
         LAMBDA z : [z EXCEPT !.recordFields = 0,
                              !.recordStart = IF s.headerPending THEN @ ELSE z.parserOffset])

FinishRecord(s) ==
    Then(IF s.headerPending THEN HeaderRecord(s) ELSE DataRecord(s),
         LAMBDA z : [z EXCEPT !.recordFields = 0, !.recordStart = z.parserOffset])

\* One byte through csv_core, with what it ends.
ReadByte(s, o) ==
    LET t == Transition(s.reader, Byte(o))
        copied == IF t.copy THEN AppendField(s, o) ELSE s
        at == Then(copied, LAMBDA z : [z EXCEPT !.reader = t.to, !.parserOffset = @ + 1])
        fielded == IF t.ends = "none" THEN at ELSE Then(at, FinishField)
    IN  IF t.ends = "record" THEN Then(fielded, FinishRecord) ELSE fielded

BeginSlice(s, from, to) ==
    LET read == [s EXCEPT !.hasRead = TRUE, !.parserOffset = FirstRead(s, from, to)]
    IN  IF OnlyMark(s, from, to) THEN Fail(read, "RUNTIME_FAILURE") ELSE read

ProcessBytes(s, from, to) ==
    FoldLeft(LAMBDA z, o : Then(z, LAMBDA y : ReadByte(y, o)),
             Then(QuoteDiagnostics(s, -1, from, to), LAMBDA z : BeginSlice(z, from, to)),
             Offsets(FirstRead(s, from, to), to))

\* The end of the source ends an open record too.
Finish(s) ==
    LET last(z) == IF FinalRecord(z.reader)
                   THEN Then(Then([z EXCEPT !.reader = "StartRecord"], FinishField), FinishRecord)
                   ELSE z
    IN  Then(Then(UnclosedQuote(s, -1), last), LAMBDA z : [z EXCEPT !.finished = TRUE])

\* How many bytes the prefix has taken when it stops: at the third, at the first
\* that no byte order mark has there, or at the end of the chunk.
PrefixTaken(held, to) ==
    LET stops == {n \in held .. Min2(3, to) :
                    \/ n = Min2(3, to)
                    \/ n > held /\ Byte(n - 1) # BOM[n]}
    IN  IF stops = {} THEN held ELSE Min(stops)

IsBomPrefix(n) == \A i \in 1 .. n : Byte(i - 1) = BOM[i]

ResolveBom(s, to, eof) ==
    LET n == PrefixTaken(s.bomPrefix, to)
        possible == IsBomPrefix(n)
        held == [s EXCEPT !.bomPrefix = n]
        resolved == [s EXCEPT !.bomPrefix = 0, !.bomResolved = TRUE]
    IN  IF possible /\ n < 3 /\ ~eof THEN [state |-> held, cursor |-> n]
        ELSE IF possible /\ n = 3
             THEN [state |-> [resolved EXCEPT !.parserOffset = 3, !.recordStart = 3], cursor |-> n]
             ELSE [state |-> ProcessBytes(resolved, 0, n), cursor |-> n]

\* feed_chunk: the bytes from received up to to.
FeedChunk(s, to) ==
    LET eof == to = Len(source)
        s1 == [s EXCEPT !.received = to]
        r == IF s.bomResolved THEN [state |-> s1, cursor |-> s.received]
                              ELSE ResolveBom(s1, to, eof)
        parse(z) == IF z.bomResolved /\ r.cursor < to THEN ProcessBytes(z, r.cursor, to) ELSE z
        close(z) == IF eof THEN Finish(z) ELSE z
    IN  Then(Then(r.state, parse), close)

(***************************************************************************)
(* The caller scans the next chunk of the source.                          *)
(***************************************************************************)
Scan(n) ==
    /\ ~scan.finished /\ scan.error = OK
    /\ n <= Len(source) - scan.received \/ (source = <<>> /\ n = Min(ChunkSizes))
    /\ scan' = FeedChunk(scan, Min2(scan.received + n, Len(source)))
    /\ UNCHANGED <<source, opt, dec, batch>>

-----------------------------------------------------------------------------
(* RangeDecoder.                                                            *)

RowEnd(q) == q.rowStart + q.rowCount
ColumnEnd(q) == q.columnStart + q.columnCount
InRange(d) == d.row >= d.request.rowStart /\ d.row < RowEnd(d.request)

\* validate_range and the first test of plan_range: OK or the error's code.
RangeRefusal(q) ==
    IF q.rowCount * q.columnCount > opt.maxCells THEN "RESOURCE_LIMIT"
    ELSE IF ColumnEnd(q) > Len(scan.columns) THEN "INVALID_RANGE"
    ELSE IF q.rowCount > 0 /\ ~scan.finished /\ q.rowStart >= scan.rows THEN "RANGE_NOT_INDEXED"
    ELSE OK

\* Mutant: strictly before, so that the first row of a checkpoint is missed.
PlanRangeBefore(q) ==
    LET before == {i \in DOMAIN scan.checkpoints : scan.checkpoints[i].row < q.rowStart}
    IN  IF before = {} THEN [row |-> scan.rows, offset |-> scan.parserOffset]
        ELSE scan.checkpoints[Max(before)]

\* The nearest checkpoint at or before the first row; none before the first record.
PlanRange(q) ==
    LET before == {i \in DOMAIN scan.checkpoints : scan.checkpoints[i].row <= q.rowStart}
    IN  IF before = {} THEN [row |-> scan.rows, offset |-> scan.parserOffset]
        ELSE scan.checkpoints[Max(before)]

NewDecoder(q, checkpoint) ==
    [active |-> TRUE, request |-> q, width |-> Len(scan.columns), version |-> scan.version,
     reader |-> "StartRecord", hasRead |-> FALSE, lexical |-> NewTracker, expected |-> checkpoint.offset,
     field |-> <<>>, fieldIndex |-> 0, row |-> checkpoint.row,
     selected |-> [c \in 1 .. q.columnCount |-> <<>>], rows |-> <<>>,
     batchBytes |-> 4 * q.columnCount,
     diagnostics |-> <<>>, done |-> q.rowCount = 0, error |-> OK]

\* StringColumnBuilder::push for each selected column: an offset, the bytes, and
\* a byte of validity bitmap for every eighth value.
RowBytes(d) ==
    LET cell(c) == IF d.selected[c] = <<>> THEN 0 ELSE Len(d.selected[c][1])
        bitmap == IF Len(d.rows) % 8 = 0 THEN 1 ELSE 0
    IN  FoldLeft(LAMBDA sum, c : sum + 4 + cell(c) + bitmap, 0, Offsets(1, d.request.columnCount + 1))

DecodeField(d) ==
    LET index == d.fieldIndex + 1
        d1 == [d EXCEPT !.fieldIndex = index]
        wanted == InRange(d) /\ index \in d.request.columnStart + 1 .. ColumnEnd(d.request)
        diagnosed(z) == IF wanted /\ ~ValidUtf8(z.field)
                        THEN HandleDiagnostic(z, "invalid-utf8", z.row, z.expected) ELSE z
        taken(z) == [z EXCEPT !.selected = IF wanted
                                           THEN [@ EXCEPT ![index - z.request.columnStart] = <<Lossy(z.field)>>]
                                           ELSE @,
                              !.field = <<>>]
    IN  IF index > opt.maxColumns THEN Fail(d1, "RESOURCE_LIMIT") ELSE Then(diagnosed(d1), taken)

PushRow(d) ==
    IF ~InRange(d) THEN d
    ELSE IF d.batchBytes + RowBytes(d) > opt.maxBatchBytes THEN Fail(d, "RESOURCE_LIMIT")
    ELSE [d EXCEPT !.batchBytes = @ + RowBytes(d), !.rows = Append(@, d.selected)]

DecodeRecord(d) ==
    LET told == IF d.fieldIndex # d.width
                THEN HandleDiagnostic(d, "ragged-row", d.row, d.expected) ELSE d
        next(z) == [z EXCEPT !.fieldIndex = 0,
                             !.selected = [c \in DOMAIN @ |-> <<>>],
                             !.row = @ + 1,
                             !.done = Len(z.rows) = z.request.rowCount]
    IN  Then(Then(told, PushRow), next)

\* The reader stops at the byte that completes the range.
DecodeByte(d, o) ==
    LET t == Transition(d.reader, Byte(o))
        copied == IF t.copy THEN AppendField(d, o) ELSE d
        at == Then(copied, LAMBDA z : [z EXCEPT !.reader = t.to, !.expected = @ + 1])
        fielded == IF t.ends = "none" THEN at ELSE Then(at, DecodeField)
    IN  IF d.done THEN d
        ELSE IF t.ends = "record" THEN Then(fielded, DecodeRecord) ELSE fielded

DecodeEof(d) ==
    LET last(z) == IF FinalRecord(z.reader)
                   THEN Then(Then([z EXCEPT !.reader = "StartRecord"], DecodeField), DecodeRecord)
                   ELSE z
    IN  Then(Then(UnclosedQuote(d, d.row), last), LAMBDA z : [z EXCEPT !.done = TRUE])

BeginDecode(d, from, to) ==
    LET read == [d EXCEPT !.hasRead = TRUE, !.expected = FirstRead(d, from, to)]
    IN  IF OnlyMark(d, from, to) THEN Fail(read, "RUNTIME_FAILURE") ELSE read

DecodeChunk(d, to) ==
    LET from == d.expected
        fed == FoldLeft(LAMBDA z, o : Then(z, LAMBDA y : DecodeByte(y, o)),
                        Then(QuoteDiagnostics(d, d.row, from, to), LAMBDA z : BeginDecode(z, from, to)),
                        Offsets(FirstRead(d, from, to), to))
    IN  Then(fed, LAMBDA z : IF ~z.done /\ to = Len(source) THEN DecodeEof(z) ELSE z)

BuildBatch(d) ==
    [delivered |-> TRUE, request |-> d.request, version |-> d.version, rows |-> d.rows,
     complete |-> Len(d.rows) = d.request.rowCount]

(***************************************************************************)
(* A read begins: it is refused, answered at once (no rows) or planned     *)
(* from a checkpoint with the schema of this moment.                       *)
(***************************************************************************)
BeginRange(q) ==
    /\ ~dec.active /\ scan.error = OK /\ RangeRefusal(q) = OK
    /\ 4 * q.columnCount <= opt.maxBatchBytes
    /\ LET d == NewDecoder(q, PlanRange(q))
       IN  IF d.done THEN dec' = NoDecoder /\ batch' = BuildBatch(d)
                     ELSE dec' = d /\ batch' = NoBatch
    /\ UNCHANGED <<source, opt, scan>>

(***************************************************************************)
(* The next chunk of a read; an error ends it without a batch.             *)
(***************************************************************************)
FeedRange(n) ==
    /\ dec.active
    /\ n <= Len(source) - dec.expected \/ (dec.expected = Len(source) /\ n = Min(ChunkSizes))
    /\ LET d == DecodeChunk(dec, Min2(dec.expected + n, Len(source)))
       IN  IF d.error # OK THEN dec' = NoDecoder /\ batch' = NoBatch
           ELSE IF d.done THEN dec' = NoDecoder /\ batch' = BuildBatch(d)
           ELSE dec' = d /\ UNCHANGED batch
    /\ UNCHANGED <<source, opt, scan>>

Init ==
    /\ source \in Contents
    /\ opt \in OptionSets
    /\ scan = NewScanner(opt)
    /\ dec = NoDecoder
    /\ batch = NoBatch

Next == \/ \E n \in ChunkSizes : Scan(n) \/ FeedRange(n)
        \/ \E q \in Requests : BeginRange(q)

Spec == Init /\ [][Next]_vars

-----------------------------------------------------------------------------
(* The reference: the whole source parsed at once, without chunks, index or *)
(* ranges.                                                                  *)

ReferenceByte(p, o) ==
    LET t == Transition(p.reader, Byte(o))
        field == IF t.copy THEN Append(p.field, o) ELSE p.field
        record == IF t.ends = "none" THEN p.record ELSE Append(p.record, field)
    IN  [reader |-> t.to,
         field |-> IF t.ends = "none" THEN field ELSE <<>>,
         record |-> IF t.ends = "record" THEN <<>> ELSE record,
         records |-> IF t.ends = "record" THEN Append(p.records, record) ELSE p.records]

ReferenceParse(from, to) ==
    FoldLeft(ReferenceByte, [reader |-> "StartRecord", field |-> <<>>, record |-> <<>>, records |-> <<>>],
             Offsets(from, to))

\* The records from an offset to the end, every byte of them kept.
ReferenceRecords(from) ==
    LET p == ReferenceParse(from, Len(source))
    IN  IF FinalRecord(p.reader) THEN Append(p.records, Append(p.record, p.field)) ELSE p.records

TextStart == IF MarkAt(0) THEN 3 ELSE 0
AllRecords == ReferenceRecords(TextStart)
HeaderNames == IF opt.header /\ AllRecords # <<>>
               THEN [i \in DOMAIN AllRecords[1] |-> Lossy(AllRecords[1][i])] ELSE <<>>
DataRows == IF opt.header /\ AllRecords # <<>> THEN Tail(AllRecords) ELSE AllRecords
Rest(rows, from) == SubSeq(rows, from + 1, Len(rows))

\* No text begins with a second mark, and no record after it with one: the sources
\* of which csv_core drops nothing, wherever a reader starts.
RecordStarts == {TextStart} \cup
    {o \in TextStart + 1 .. Len(source) :
        Len(ReferenceParse(TextStart, o).records) > Len(ReferenceParse(TextStart, o - 1).records)}
PlainStart == ~MarkAt(TextStart)
PlainRecords == \A o \in TextStart .. Len(source) : MarkAt(o) => o \notin RecordStarts

\* The two lexers that read the same bytes agree on what a quote means.
Agree(lexical, reader) ==
    /\ lexical.state = "Quoted" <=> reader = "InQuotedField"
    /\ lexical.state = "AfterQuote" <=> reader = "InDoubleEscapedQuote"
    /\ lexical.state = "Unquoted" <=> reader = "InField"

(***************************************************************************)
(* Types and bounds: limits are never exceeded by what the scanner or a    *)
(* decoder retains, and the quote tracker is in step with csv_core in both *)
(* (an unclosed-quote diagnostic would be spurious or missing otherwise),  *)
(* unless csv_core dropped a mark that the tracker has read.               *)
(***************************************************************************)
ScanInv ==
    /\ scan.received \in 0 .. Len(source)
    /\ scan.parserOffset \in 0 .. scan.received
    /\ scan.recordStart \in 0 .. scan.parserOffset
    /\ Len(scan.field) <= opt.maxFieldBytes
    /\ Len(scan.columns) <= opt.maxColumns
    /\ Len(scan.diagnostics) <= opt.maxDiagnostics
    /\ PlainStart /\ scan.error = OK /\ ~scan.finished => Agree(scan.lexical, scan.reader)
    /\ dec.active => /\ dec.batchBytes <= opt.maxBatchBytes
                     /\ dec.expected \in 0 .. Len(source)
                     /\ PlainRecords => Agree(dec.lexical, dec.reader)

(***************************************************************************)
(* However the source is cut into chunks, also inside a byte order mark, a *)
(* CRLF or a quoted field: the index has a checkpoint for every            *)
(* interval-th row, the records from its offset on, every byte of them     *)
(* kept, are exactly the rows from that row on, and the finished scan      *)
(* counts the rows and columns, and names the columns, of the whole source *)
(* parsed at once. The one exception is a text that begins with a mark of  *)
(* its own after the one of the file: the scan's reader may drop it.       *)
(***************************************************************************)
IndexExact ==
    PlainStart /\ scan.error = OK =>
      /\ Len(scan.checkpoints) = (scan.rows + opt.interval - 1) \div opt.interval
      /\ \A i \in DOMAIN scan.checkpoints :
             /\ scan.checkpoints[i].row = (i - 1) * opt.interval
             /\ ReferenceRecords(scan.checkpoints[i].offset) = Rest(DataRows, scan.checkpoints[i].row)
      /\ IsPrefix([i \in 1 .. Min2(Len(scan.columns), Len(HeaderNames)) |-> scan.columns[i]], HeaderNames)
      /\ scan.finished => /\ scan.rows = Len(DataRows)
                          /\ Len(scan.columns) = Max({0} \cup {Len(AllRecords[i]) : i \in DOMAIN AllRecords})

(***************************************************************************)
(* A delivered batch holds the requested cells of the whole source, null   *)
(* where a short row has none, and is complete exactly when every          *)
(* requested row exists, whichever checkpoint and chunks it was decoded    *)
(* from and however far the scan had come when it began.                   *)
(***************************************************************************)
BatchExact ==
    batch.delivered =>
      LET q == batch.request
          rows == SubSeq(DataRows, q.rowStart + 1, Min2(RowEnd(q), Len(DataRows)))
          cell(row, c) == IF c \in DOMAIN row THEN <<Lossy(row[c])>> ELSE <<>>
      IN  /\ batch.rows = [i \in DOMAIN rows |->
                             [c \in 1 .. q.columnCount |-> cell(rows[i], q.columnStart + c)]]
          /\ batch.complete <=> Len(rows) = q.rowCount

(***************************************************************************)
(* That holds of every source of which no record begins with a byte order  *)
(* mark: the reader of a decoder is a fresh one (build_reader), and        *)
(* csv_core drops a mark that begins its first slice. BatchExact alone is  *)
(* violated by a source with such a record.                                *)
(***************************************************************************)
RangeExact == PlainRecords => BatchExact
=============================================================================
