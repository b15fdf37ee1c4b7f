----------------------------- MODULE ParquetRead -----------------------------
(***************************************************************************)
(* One Parquet file from its first footer byte to the rows of a read       *)
(* (ParquetOpenOperation, OpenedParquetSource and ParquetReadOperation of  *)
(* src/src/parquet.rs).  The host fetches the ranges an operation asks     *)
(* for; whenever they are fed, the read decodes again from its first page  *)
(* until a byte is missing, or the rows are there.                         *)
(*                                                                         *)
(* parquet-rs is external: `script' is the sequence of calls it makes on   *)
(* the reader for the pages of the projection.                             *)
(***************************************************************************)
EXTENDS ParquetPlan, ParquetPreview
LOCAL INSTANCE SequencesExt
LOCAL INSTANCE FiniteSetsExt

CONSTANTS
    HeaderBytes, FooterBytes,
    Scenarios       \* [file, request, display, limits] to open and read

VARIABLES
    file, ask,      \* the scenario: the file, and what is asked of it
    phase,          \* opening, opened, reading, decoding, preview, done, failed
    source,         \* the reader of the open file
    reader,         \* the reader of the read under way
    expected,       \* the range asked for next
    planned,        \* the chunk ranges after it
    asked,          \* the ranges the host is fetching
    plan,           \* what the read returns and how it fetches it
    script, pc,     \* the decoder's calls, and the one it is at
    attempts,       \* decode attempts begun
    delivered,      \* the bodies the decoder got in this attempt
    standard,       \* the standard columns, once decoded for a display
    scanners,       \* the preview scanners of a display read
    fetched,        \* the bytes the read was fed
    outcome         \* how it ended

vars == <<file, ask, phase, source, reader, expected, planned, asked, plan,
          script, pc, attempts, delivered, standard, scanners, fetched, outcome>>
scenario == <<file, ask>>
readState == <<reader, planned, asked, plan, script, pc, attempts, delivered,
               standard, scanners, fetched>>

pages == file.pages
limits == ask.limits
OpenLimit == limits.metadata + FooterBytes + HeaderBytes

----------------------------------------------------------------------------
\* validate_metadata
MetadataError(r) ==
    CASE file.memory > limits.metadata -> "limit"
      [] Len(file.groups) > limits.groups -> "limit"
      [] TotalColumns(file) > limits.columns -> "limit"
      [] TotalRows(file) > limits.rows -> "limit"
      [] Retained(r.segments) > OpenLimit -> "limit"
      [] file.features = "unsupported" -> "unsupported"
      [] OTHER -> "ok"

\* advance of the open: the trailing magic, the metadata parquet-rs loads, the
\* leading magic.  What it needs next, or how it ends.
OpenNeeds(r) ==
    LET magic == Action(file.length - HeaderBytes, HeaderBytes)
        tail == GetRead(pages, r, file.length - FooterBytes)
        start == file.length - FooterBytes - file.footer
        body == GetBytes(pages, r, start, file.footer)
        gap(answer) == answer.reader.missing
        needs(action) == [end |-> "more", action |-> action]
        ends(how) == [end |-> how, action |-> None]
    IN  CASE Locate(r.segments, magic.offset, magic.length) = None -> needs(magic)
          [] file.magic = "encrypted" -> ends("unsupported")
          [] file.magic = "damaged" -> ends("parse")
          [] tail.outcome = "missing" -> needs(gap(tail))
          [] Len(tail.bytes) < FooterBytes \/ start < 0 -> ends("parse")
          [] body.outcome = "missing" -> needs(gap(body))
          [] Locate(r.segments, 0, HeaderBytes) = None -> needs(Action(0, HeaderBytes))
          [] file.leading # "good" -> ends("parse")
          [] OTHER -> ends("ok")

\* What the open does with it: a range must fit the staging budget.
OpenWithin(r, next) ==
    IF next.end = "more" /\ ~FitsPeak(r.segments, r.coalesce, next.action, 0, OpenLimit)
    THEN [end |-> "limit", action |-> None] ELSE next
OpenStep(r) == OpenWithin(r, OpenNeeds(r))

\* ParquetOpenOperation::new
OpenInit ==
    LET r == NewReader(file.length, limits.prefetch)
        first == OpenStep(r)
        short == file.length < FooterBytes + HeaderBytes
        large == file.length > limits.source \/ first.end = "limit"
    IN  /\ source = r
        /\ expected = first.action
        /\ phase = IF short \/ large THEN "failed" ELSE "opening"
        /\ outcome = IF short THEN "parse" ELSE IF large THEN "limit" ELSE "none"

\* The open after a step: another range, the metadata, or an error.
SettleOpen(fed, next) ==
    LET end == IF next.end = "ok" THEN MetadataError(fed) ELSE next.end
    IN  /\ source' = fed
        /\ expected' = next.action
        /\ IF next.end = "more" THEN UNCHANGED <<phase, outcome>>
           ELSE /\ phase' = IF end = "ok" THEN "opened" ELSE "failed"
                /\ outcome' = IF end = "ok" THEN outcome ELSE end

\* feed_owned and advance of the open.
FeedOpen ==
    LET fed == [source EXCEPT
                  !.segments = InsertRange(@, source.coalesce, expected)]
    IN  /\ phase = "opening"
        /\ SettleOpen(fed, OpenStep(fed))
        /\ UNCHANGED <<scenario, readState>>

----------------------------------------------------------------------------
\* The columns a display read previews (fixed_list_preview_specs) and those
\* it decodes.
Previewed(columns) ==
    IF ask.display THEN {c \in columns : file.kinds[c] = "list"} ELSE {}
StandardColumns == plan.columns \ Previewed(plan.columns)

\* The row groups of a scanner, with the rows of them it selects.
ScanGroups(range, groups) ==
    LET order == SetToSortSeq({g \in groups : range.rows > 0}, LAMBDA a, b : a < b)
    IN  [k \in DOMAIN order |->
            LET g == order[k]
            IN  [group |-> g,
                 scanner |-> NewScanner(
                     Max({range.rowStart, GroupStart(file, g)}) - GroupStart(file, g),
                     Min({RowsEnd(range), GroupEnd(file, g)}) - GroupStart(file, g),
                     file.groups[g].rows)]]

NewPreview(column, range, groups, budget) ==
    LET limit == ElementLimit(range.rows, budget)
    IN  [column |-> column, groups |-> ScanGroups(range, groups),
         page |-> 1, peeked |-> FALSE, cells |-> <<>>,
         max |-> Max({0, limit}), fallback |-> limit < 0,
         complete |-> range.rows = 0 \/ limit < 0]

NewPreviews(columns, range, groups) ==
    LET order == SetToSortSeq(Previewed(columns), LAMBDA a, b : a < b)
        budget == (limits.decoded \div 2) \div Max({1, Len(order)})
    IN  [k \in DOMAIN order |-> NewPreview(order[k], range, groups, budget)]

\* The calls of the decoder for one column, page by page (external).
ColumnPages(column, groups) ==
    LET order == SetToSortSeq(groups, LAMBDA a, b : a < b)
    IN  FlattenSeq([k \in DOMAIN order |->
                      file.groups[order[k]].chunks[column].pages])

RowsBefore(list, i) ==
    FoldSeq(LAMBDA page, sum : sum + page.rows, 0, SubSeq(list, 1, i - 1))

PageCalls(column, list, i, skip, count) ==
    LET from == RowsBefore(list, i)
        upTo == from + list[i].rows
        peek == [op |-> "peek", column |-> column, page |-> list[i]]
        next == [op |-> "next", column |-> column, page |-> list[i]]
        continues == list[i].levels # <<>> /\ list[i].levels[1].repetition = 1
        wanted(k) == LET f == RowsBefore(list, k) IN f < skip + count
        list1 == file.kinds[column] = "list"
    IN  IF list1
        THEN IF wanted(i) \/ (continues /\ from = skip + count)
             THEN <<peek, next>>
             ELSE IF i > 1 /\ wanted(i - 1) THEN <<peek>> ELSE <<>>
        ELSE IF ~wanted(i) THEN <<>>
        ELSE IF list[i].kind = "index" THEN <<peek>>
        ELSE IF list[i].kind = "dict"
        THEN IF from < skip THEN <<peek, next>> ELSE <<next>>
        ELSE IF upTo <= skip THEN <<peek>>
        ELSE IF from < skip THEN <<peek, next>> ELSE <<next>>

\* The batch a page is read for: of its first row or, in a column of lists, of
\* the row before, which may go on in it.
BatchOf(column, list, i, skip) ==
    LET first == RowsBefore(list, i) - skip
                 - (IF file.kinds[column] = "list" THEN 1 ELSE 0)
    IN  (Max({0, first}) \div limits.batch) + 1

\* The decoder hands out a batch: so many rows are decoded by now.
BatchEnd(rows) == [op |-> "batch", rows |-> rows]

Script(columns, groups, skip, count) ==
    LET order == SetToSortSeq(columns, LAMBDA a, b : a < b)
        batches == IF count = 0 \/ columns = {} THEN 0
                   ELSE ((count - 1) \div limits.batch) + 1
        calls(b, c) ==
            LET list == ColumnPages(c, groups)
            IN  FlattenSeq([i \in DOMAIN list |->
                    IF BatchOf(c, list, i, skip) = b
                    THEN PageCalls(c, list, i, skip, count) ELSE <<>>])
    IN  FlattenSeq([b \in 1 .. batches |->
            FlattenSeq([k \in DOMAIN order |-> calls(b, order[k])])
            \o <<BatchEnd(Min({b * limits.batch, count}))>>])

NoPlan == [range |-> CellRange(0, 0, 0, 0), columns |-> {}, groups |-> {},
           lazy |-> FALSE]

\* What advance does first: the next planned range, or a decode attempt.
Resume(ranges) ==
    IF ranges # <<>>
    THEN /\ expected' = Head(ranges)
         /\ planned' = Tail(ranges)
         /\ phase' = "reading"
         /\ UNCHANGED <<attempts, pc, delivered>>
    ELSE /\ expected' = None
         /\ planned' = <<>>
         /\ attempts' = attempts + 1
         /\ pc' = 1
         /\ delivered' = IF standard THEN delivered ELSE <<>>
         /\ phase' = IF script' # <<>> /\ ~standard THEN "decoding" ELSE "preview"

\* begin_read_with_display: the cache budget of a lazy read is what the
\* operation, the decoder and the metadata may hold.
BeginRead ==
    LET request == PlanRange(file, ask.request, limits.cells)
        range == request.range
        columns == SourceColumns(range)
        projected == PlanProjected(file, range, columns, limits)
        lazyCache == limits.operation + limits.decoded
                     + Less(limits.metadata, Retained(source.segments) + file.memory)
        refused == IF request.error # "ok" THEN request.error
                   ELSE IF range.cols = 0 THEN "ok" ELSE projected.error
    IN  /\ phase = "opened"
        /\ IF refused # "ok" \/ range.cols = 0
           THEN /\ phase' = IF refused = "ok" THEN "done" ELSE "failed"
                /\ outcome' = refused
                /\ UNCHANGED <<expected, readState>>
           ELSE /\ plan' = [range |-> range, columns |-> columns,
                            groups |-> projected.groups, lazy |-> projected.lazy]
                /\ reader' = Fork(source, projected.lazy, limits.decoded, lazyCache)
                /\ script' = Script(columns \ Previewed(columns), projected.groups,
                                    projected.skip, range.rows)
                /\ scanners' = NewPreviews(columns, range, projected.groups)
                /\ Resume(projected.ranges)
                /\ UNCHANGED <<asked, standard, fetched, outcome>>
        /\ UNCHANGED <<scenario, source>>

----------------------------------------------------------------------------
Fail(how) ==
    /\ phase' = "failed"
    /\ outcome' = how
    /\ expected' = None
    /\ asked' = <<>>
    /\ planned' = <<>>

\* next_actions: a prefix of the planned ranges, at most so many and so many
\* bytes, that the cache has room for.
Batch(n) ==
    LET ranges == <<expected>> \o planned
        sizes == {k \in 1 .. Min({n, Len(ranges)}) :
                    Length(SubSeq(ranges, 1, k)) <= limits.step}
    IN  SubSeq(ranges, 1, Max({0} \cup sizes))

BatchFits(batch) ==
    \A k \in DOMAIN batch :
        FitsPeak(reader.segments, reader.coalesce, batch[k],
                 Length(batch) - batch[k].length,
                 CacheLimit(reader, limits.operation))

IssueRanges(n) ==
    /\ phase = "reading"
    /\ asked = <<>>
    /\ IF Batch(n) # <<>> /\ BatchFits(Batch(n))
       THEN /\ asked' = Batch(n)
            /\ UNCHANGED <<phase, expected, planned, outcome>>
       ELSE Fail("limit")
    /\ UNCHANGED <<scenario, source, reader, plan, script, pc, attempts,
                   delivered, standard, scanners, fetched>>

\* feed_many_owned: each result is admitted again beside those still waiting.
RECURSIVE Admit(_, _)
Admit(segments, batch) ==
    LET first == Head(batch)
        waiting == Length(Tail(batch))
    IN  IF batch = <<>> THEN [fits |-> TRUE, segments |-> segments]
        ELSE IF ~FitsPeak(segments, reader.coalesce, first, waiting,
                          CacheLimit(reader, limits.operation))
        THEN [fits |-> FALSE, segments |-> segments]
        ELSE Admit(InsertRange(segments, reader.coalesce, first), Tail(batch))

FeedRanges ==
    LET fed == Admit(reader.segments, asked)
        rest == SubSeq(planned, Len(asked), Len(planned))
    IN  /\ phase = "reading"
        /\ asked # <<>>
        /\ reader' = [reader EXCEPT !.segments = fed.segments, !.missing = None]
        /\ fetched' = fetched \cup UNION {Positions(asked[k]) : k \in DOMAIN asked}
        /\ UNCHANGED <<scenario, source, plan, script, standard, scanners>>
        /\ IF fed.fits
           THEN Resume(rest) /\ asked' = <<>> /\ UNCHANGED outcome
           ELSE Fail("limit") /\ UNCHANGED <<pc, attempts, delivered>>

\* resolve_missing_or_error: a lazy read asks for what is missing, within the
\* attempts and the cache it may use.
Stop(answer) ==
    LET gap == answer.reader.missing
        room == FitsPeak(answer.reader.segments, reader.coalesce, gap, 0,
                         CacheLimit(reader, limits.operation))
    IN  IF answer.outcome # "missing" THEN Fail(answer.outcome)
        ELSE IF ~plan.lazy THEN Fail("runtime")
        ELSE IF attempts + 1 > AttemptLimit(file, limits) \/ ~room
        THEN Fail("limit")
        ELSE /\ expected' = gap
             /\ phase' = "reading"
             /\ UNCHANGED <<asked, planned, outcome>>

----------------------------------------------------------------------------
\* One call of the decoder on a page: peek_next_page or get_next_page.  A page
\* already peeked is read at its body.
WithHeader(got) ==
    IF got.outcome = "ok" /\ PageHeader(pages, got.bytes) = None
    THEN [got EXCEPT !.outcome = "header"] ELSE got
HeaderAt(r, offset) == WithHeader(GetRead(pages, r, offset))

BodyAfter(cursor, body) ==
    IF cursor.outcome # "ok" THEN cursor
    ELSE GetBytes(pages, cursor.reader, body.offset, body.length)
NextPage(r, page, peeked) ==
    BodyAfter(IF peeked THEN GetRead(pages, r, BodyOf(page).offset)
              ELSE HeaderAt(r, page.at),
              BodyOf(page))

Peeked(call) ==
    \E k \in 1 .. pc - 1 : script[k] = [call EXCEPT !.op = "peek"]

\* What the decoder does with the answer to its call.
TakePage(call, answer) ==
    LET body == [column |-> call.column, at |-> call.page.at,
                 bytes |-> answer.bytes]
    IN  /\ reader' = answer.reader
        /\ IF answer.outcome = "ok"
           THEN /\ pc' = pc + 1
                /\ delivered' = IF call.op = "peek" THEN delivered
                                ELSE Append(delivered, body)
                /\ UNCHANGED <<phase, expected, planned, asked, outcome>>
           ELSE Stop(answer) /\ UNCHANGED <<pc, delivered>>

DecodePage ==
    LET call == script[pc]
    IN  /\ phase = "decoding"
        /\ pc <= Len(script)
        /\ call.op # "batch"
        /\ TakePage(call, IF call.op = "peek" THEN HeaderAt(reader, call.page.at)
                          ELSE NextPage(reader, call.page, Peeked(call)))
        /\ UNCHANGED <<scenario, source, plan, script, attempts, standard, scanners,
                       fetched>>

\* After every batch the arrays decoded so far fit the decoder and, with the
\* cache, the operation.
BatchDecoded ==
    LET decoded == script[pc].rows * Cardinality(StandardColumns) * file.cellBytes
        fits == /\ decoded <= limits.decoded
                /\ decoded + Retained(reader.segments)
                     <= CacheLimit(reader, limits.operation)
    IN  /\ phase = "decoding"
        /\ pc <= Len(script)
        /\ script[pc].op = "batch"
        /\ IF fits THEN pc' = pc + 1 /\ UNCHANGED <<phase, expected, planned, asked, outcome>>
           ELSE Fail("limit") /\ UNCHANGED pc
        /\ UNCHANGED <<scenario, source, reader, plan, script, attempts, delivered,
                       standard, scanners, fetched>>

\* All rows are decoded; before the lists are scanned, the bodies that were
\* decoded go.
StandardDecoded ==
    /\ phase = "decoding"
    /\ pc > Len(script)
    /\ phase' = "preview"
    /\ standard' = TRUE
    /\ reader' = IF scanners = <<>> THEN reader ELSE ReleaseConsumed(reader)
    /\ UNCHANGED <<scenario, source, expected, planned, asked, plan, script, pc,
                   attempts, delivered, scanners, fetched, outcome>>

----------------------------------------------------------------------------
\* The scanner that is still at work, its row group and its page.
Current == Min({k \in DOMAIN scanners : ~scanners[k].complete})
ChunkPages(s) == file.groups[Head(s.groups).group].chunks[s.column].pages

NextGroup(s) ==
    [s EXCEPT !.groups = Tail(@), !.page = 1, !.peeked = FALSE,
              !.complete = Len(s.groups) = 1]

FallBack(s) ==
    [s EXCEPT !.fallback = TRUE, !.complete = TRUE, !.groups = <<>>]

Scanned(r, s, result) == [reader |-> r, scanner |-> s, outcome |-> result]

\* peek_next_page of the scanner; past its last page the row group is done.
PeekAnswered(s, answer) ==
    Scanned(answer.reader,
            IF answer.outcome = "ok" THEN [s EXCEPT !.peeked = TRUE] ELSE s,
            answer.outcome)
PeekPreview(s) ==
    LET list == ChunkPages(s)
        group == Head(s.groups).scanner
    IN  IF s.page <= Len(list) THEN PeekAnswered(s, HeaderAt(reader, list[s.page].at))
        ELSE IF group.row # group.rows THEN Scanned(reader, s, "parse")
        ELSE Scanned(reader, NextGroup([s EXCEPT !.cells = FinishRow(group, @)]), "ok")

\* The body of the peeked page: fetched before the page reader moves
\* (BodyPreview), taken (TakenPreview), decoded into the cells and released
\* (DecodedPreview).
Moved(s) == [s EXCEPT !.page = @ + 1, !.peeked = FALSE]

DecodedPreview(s, r, done) ==
    LET after == [Moved(s) EXCEPT !.groups[1].scanner = done.scanner,
                                  !.cells = done.cells]
    IN  Scanned(ReleaseConsumed(r),
                IF done.outcome = "finished" THEN NextGroup(after) ELSE after,
                CASE done.outcome = "bad" -> "parse"
                  [] done.outcome = "unsupported" -> "unsupported"
                  [] OTHER -> "ok")

TakenPreview(s, page, body) ==
    IF body.outcome # "ok" THEN Scanned(body.reader, Moved(s), body.outcome)
    ELSE IF body.bytes # [k \in 1 .. page.body |-> BodyOf(page).offset + k - 1]
    THEN Scanned(body.reader, Moved(s), "parse")
    ELSE DecodedPreview(s, body.reader,
                        ProcessPage(Head(s.groups).scanner, s.cells, page, s.max))

StagedPreview(s, page, ready) ==
    IF ready.outcome # "ok" THEN Scanned(ready.reader, s, ready.outcome)
    ELSE TakenPreview(s, page, NextPage(ready.reader, page, TRUE))

BodyPreview(s) ==
    LET page == ChunkPages(s)[s.page]
    IN  IF page.kind = "index" THEN Scanned(reader, Moved(s), "ok")
        ELSE StagedPreview(s, page, EnsureNextPageBody(pages, reader))

\* A scanner after its step: an encoding it does not know and a page too large
\* leave the column to its placeholder.
SettlePreview(step) ==
    LET abandoned == step.outcome \in {"unsupported", "limit"}
        scanned == IF abandoned THEN FallBack(step.scanner) ELSE step.scanner
        kept == IF abandoned THEN ReleaseAbandoned(step.reader) ELSE step.reader
    IN  /\ reader' = kept
        /\ scanners' = [scanners EXCEPT ![Current] = scanned]
        /\ IF abandoned \/ step.outcome = "ok"
           THEN UNCHANGED <<phase, expected, planned, asked, outcome>>
           ELSE Stop([reader |-> kept, outcome |-> step.outcome])

\* advance of a scanner, a page at a time.
PreviewPage ==
    LET s == scanners[Current]
    IN  /\ phase = "preview"
        /\ \E k \in DOMAIN scanners : ~scanners[k].complete
        /\ SettlePreview(IF s.peeked THEN BodyPreview(s) ELSE PeekPreview(s))
        /\ UNCHANGED <<scenario, source, plan, script, pc, attempts, delivered,
                       standard, fetched>>

\* take_display_array and the encoding of the batch.
Finish ==
    LET short == \E k \in DOMAIN scanners :
                    /\ ~scanners[k].fallback
                    /\ Len(scanners[k].cells) # plan.range.rows
    IN  /\ phase = "preview"
        /\ \A k \in DOMAIN scanners : scanners[k].complete
        /\ IF short THEN Fail("runtime") /\ UNCHANGED reader
           ELSE /\ phase' = "done"
                /\ outcome' = "ok"
                /\ reader' = ReleaseSkipped(reader)
                /\ UNCHANGED <<expected, planned, asked>>
        /\ UNCHANGED <<scenario, source, plan, script, pc, attempts, delivered,
                       standard, scanners, fetched>>

----------------------------------------------------------------------------
Init ==
    /\ \E s \in Scenarios : file = s.file /\ ask = [request |-> s.request,
                                                   display |-> s.display,
                                                   limits |-> s.limits]
    /\ OpenInit
    /\ reader = NewReader(file.length, limits.prefetch)
    /\ planned = <<>> /\ asked = <<>> /\ plan = NoPlan
    /\ script = <<>> /\ pc = 1 /\ attempts = 0 /\ delivered = <<>>
    /\ standard = FALSE /\ scanners = <<>>
    /\ fetched = {}

Next ==
    \/ FeedOpen
    \/ BeginRead
    \/ \E n \in 1 .. limits.ranges : IssueRanges(n)
    \/ FeedRanges
    \/ DecodePage
    \/ BatchDecoded
    \/ StandardDecoded
    \/ PreviewPage
    \/ Finish

\* The Worker answers every step it is given and continues what it began.
Spec == Init /\ [][Next]_vars /\ WF_vars(Next)

----------------------------------------------------------------------------
\* The cache holds what it says it holds: the bytes of the file at their
\* places, in segments that neither overlap nor, where they are coalesced,
\* touch; it stays within its budget, and a range is asked for only where
\* nothing is cached.
Sound(r, budget) ==
    LET s == r.segments
    IN  /\ \A i \in DOMAIN s : s[i].bytes # <<>>
                 /\ \A k \in DOMAIN s[i].bytes : s[i].bytes[k] = s[i].offset + k - 1
        /\ \A i \in DOMAIN s : i > 1 =>
              SegmentEnd(s[i - 1]) + (IF r.coalesce THEN 1 ELSE 0) <= s[i].offset
        /\ Retained(s) <= budget

ParquetInv ==
    /\ phase \in {"opening", "opened", "reading", "decoding", "preview", "done",
                  "failed"}
    /\ Sound(source, OpenLimit)
    /\ plan # NoPlan => Sound(reader, CacheLimit(reader, limits.operation))
    /\ phase = "opening" /\ expected # None =>
          Positions(expected) \cap Cached(source.segments) = {}
    /\ phase = "reading" /\ plan.lazy =>
          Positions(expected) \cap Cached(reader.segments) = {}

=============================================================================
