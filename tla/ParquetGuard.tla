---------------------------- MODULE ParquetGuard ----------------------------
(***************************************************************************)
(* A reader that parquet-rs decodes from (ChunkReader for                  *)
(* SparseChunkReader) and the guard of its lazy page reads                 *)
(* (PageDecompressionGuard): a header the decoder passes is remembered     *)
(* with the body it announces, the body is handed out only after its       *)
(* decompressed size was admitted, and what is not cached is left in       *)
(* `missing' for the operation to ask for.                                 *)
(*                                                                         *)
(* A call answers [reader, outcome, bytes]; every outcome but "ok" ends    *)
(* the decoder's attempt.                                                  *)
(***************************************************************************)
EXTENDS Integers, Sequences, FiniteSets
LOCAL INSTANCE SequencesExt
LOCAL INSTANCE FiniteSetsExt

-----------------------------------------------------------------------------
(***************************************************************************)
(* The sparse cache of a Parquet source (SparseChunkReader of              *)
(* src/src/parquet.rs): the segments of the file fetched so far, in the    *)
(* order of their offsets.  The byte of the file at position p stands as   *)
(* the number p, so that a segment that holds the bytes of another place   *)
(* is told apart; Zero is a byte of a merge buffer nothing was copied to.  *)
(*                                                                         *)
(* A reader of the open file, and of a read that stages whole column       *)
(* chunks, coalesces the segments that touch; a lazy page reader keeps     *)
(* adjacent windows apart and joins them for one lookup at a time.         *)
(***************************************************************************)

CONSTANT None             \* no action, no bytes, no guard
Zero == -1

Action(offset, length) == [offset |-> offset, length |-> length]
ActionEnd(action) == action.offset + action.length
Positions(action) == action.offset .. ActionEnd(action) - 1

SegmentEnd(segment) == segment.offset + Len(segment.bytes)
SegmentPositions(segment) == segment.offset .. SegmentEnd(segment) - 1

Cached(segments) ==
    UNION {SegmentPositions(segments[i]) : i \in DOMAIN segments}

\* retained_bytes
Retained(segments) ==
    FoldSeq(LAMBDA segment, sum : sum + Len(segment.bytes), 0, segments)

Length(actions) == FoldSeq(LAMBDA action, sum : sum + action.length, 0, actions)

----------------------------------------------------------------------------
\* Mutant: segments that only touch are not made one.
TouchedOverlapping(segments, coalesce, action) ==
    {i \in DOMAIN segments :
        /\ segments[i].offset < ActionEnd(action)
        /\ action.offset < SegmentEnd(segments[i])}

\* The segments an incoming range is merged with: those it overlaps and,
\* when the reader coalesces, those it touches.
Touched(segments, coalesce, action) ==
    LET slack == IF coalesce THEN 0 ELSE 1
    IN  {i \in DOMAIN segments :
            /\ segments[i].offset + slack <= ActionEnd(action)
            /\ action.offset + slack <= SegmentEnd(segments[i])}

MergedStart(segments, touched, action) ==
    Min({action.offset} \cup {segments[i].offset : i \in touched})

MergedEnd(segments, touched, action) ==
    Max({ActionEnd(action)} \cup {SegmentEnd(segments[i]) : i \in touched})

\* The buffer of a merge: the old segments are copied first, then the ingress.
MergeBytes(segments, touched, action) ==
    LET start == MergedStart(segments, touched, action)
        old(p) == {i \in touched : p \in SegmentPositions(segments[i])}
        copied(p) ==
            IF old(p) = {} THEN Zero
            ELSE LET i == Max(old(p))
                 IN  segments[i].bytes[p - segments[i].offset + 1]
    IN  [k \in 1 .. MergedEnd(segments, touched, action) - start |->
            LET p == start + k - 1
            IN  IF p \in Positions(action) THEN p ELSE copied(p)]

InsertRange(segments, coalesce, action) ==
    LET touched == Touched(segments, coalesce, action)
        before == SelectSeq(segments,
                            LAMBDA s : SegmentEnd(s) <= action.offset
                                       /\ ~\E i \in touched : segments[i] = s)
        after == SelectSeq(segments,
                           LAMBDA s : s.offset >= ActionEnd(action)
                                      /\ ~\E i \in touched : segments[i] = s)
    IN  before
        \o <<[offset |-> MergedStart(segments, touched, action),
              bytes |-> MergeBytes(segments, touched, action)]>>
        \o after

\* insertion_peak_bytes: the cache, the ingress and, when segments are rebuilt
\* into one, the merge buffer all live at the same time.
InsertionPeak(segments, coalesce, action) ==
    LET touched == Touched(segments, coalesce, action)
        merge == IF coalesce /\ touched # {}
                 THEN MergedEnd(segments, touched, action)
                      - MergedStart(segments, touched, action)
                 ELSE 0
    IN  Retained(segments) + action.length + merge

FitsPeak(segments, coalesce, action, otherIngress, limit) ==
    InsertionPeak(segments, coalesce, action) + otherIngress <= limit

----------------------------------------------------------------------------
\* The segment at or before an offset (0 when there is none), and the
\* segments joined to it without a gap.
Candidate(segments, offset) ==
    Max({0} \cup {i \in DOMAIN segments : segments[i].offset <= offset})

Chain(segments, from) ==
    LET last == Max({j \in from .. Len(segments) :
                        \A k \in from + 1 .. j :
                            segments[k].offset = SegmentEnd(segments[k - 1])})
    IN  FlattenSeq([k \in 1 .. last - from + 1 |-> segments[from + k - 1].bytes])

\* locate: exactly these bytes, or nothing.
Locate(segments, offset, length) ==
    LET at == Candidate(segments, offset)
        joined == Chain(segments, at)
        skip == offset - segments[at].offset
    IN  IF at = 0 THEN None
        ELSE IF skip + length > Len(joined) THEN None
        ELSE SubSeq(joined, skip + 1, skip + length)

\* locate_suffix: what is cached from an offset on, at most maxLength bytes.
LocateSuffix(segments, offset, maxLength) ==
    LET at == Candidate(segments, offset)
        joined == Chain(segments, at)
        skip == offset - segments[at].offset
    IN  IF at = 0 THEN None
        ELSE IF offset >= SegmentEnd(segments[at]) THEN None
        ELSE SubSeq(joined, skip + 1, Min({skip + maxLength, Len(joined)}))

\* first_missing_action: the first gap of a range, or None.
FirstMissing(segments, action) ==
    LET gaps == Positions(action) \ Cached(segments)
        from == Min(gaps)
        upTo == Min({ActionEnd(action)}
                    \cup {p \in Positions(action) \cap Cached(segments) : p > from})
    IN  IF gaps = {} THEN None ELSE Action(from, upTo - from)

----------------------------------------------------------------------------
\* release_page_bodies: the bytes of the bodies go, every other fragment of
\* the segments they lie in is kept in a buffer of its own.
Fragments(segment, gone) ==
    LET kept == SegmentPositions(segment) \ gone
        starts == {p \in kept : p - 1 \notin kept}
        stop(p) == Min({q \in p .. SegmentEnd(segment) : q \notin kept})
        fragment(p) ==
            [offset |-> p,
             bytes |-> SubSeq(segment.bytes, p - segment.offset + 1,
                              stop(p) - segment.offset)]
        order == SetToSortSeq(starts, LAMBDA a, b : a < b)
    IN  [k \in DOMAIN order |-> fragment(order[k])]

\* Mutant: the segments a body lies in go whole.
ReleaseSegments(segments, bodies) ==
    LET gone == UNION {Positions(body) : body \in bodies}
    IN  SelectSeq(segments, LAMBDA s : SegmentPositions(s) \cap gone = {})

ReleaseBodies(segments, bodies) ==
    LET gone == UNION {Positions(body) : body \in bodies}
    IN  FlattenSeq([i \in DOMAIN segments |-> Fragments(segments[i], gone)])

-----------------------------------------------------------------------------

CONSTANTS
    PageTrackingBytes,      \* decoded budget that pays for one tracked page
    MinTrackedPages, MaxTrackedPages,
    MaxHeaderObservations

With(f, key, value) ==
    [k \in DOMAIN f \cup {key} |-> IF k = key THEN value ELSE f[k]]
Without(f, keys) == [k \in DOMAIN f \ keys |-> f[k]]

NewGuard(maxDecoded) ==
    [maxDecoded |-> maxDecoded,
     maxPages |-> Min({MaxTrackedPages,
                       Max({MinTrackedPages, maxDecoded \div PageTrackingBytes})}),
     pending |-> <<>>, reserved |-> <<>>, skipped |-> <<>>, observed |-> 0]

NewReader(length, prefetch) ==
    [length |-> length, prefetch |-> prefetch, segments |-> <<>>,
     missing |-> None, guard |-> None, coalesce |-> TRUE, maxCache |-> None]

\* A read copies the segments of the source; only a lazy one is guarded.
Fork(reader, lazy, maxDecoded, maxCache) ==
    [reader EXCEPT !.missing = None, !.coalesce = ~lazy,
                   !.guard = IF lazy THEN NewGuard(maxDecoded) ELSE None,
                   !.maxCache = IF lazy THEN maxCache ELSE None]

CacheLimit(reader, fallback) ==
    IF reader.maxCache = None THEN fallback ELSE reader.maxCache

Answer(reader, outcome, bytes) ==
    [reader |-> reader, outcome |-> outcome, bytes |-> bytes]
Guarded(reader, result) ==
    Answer([reader EXCEPT !.guard = result.guard], result.outcome, <<>>)

Verdict(guard, outcome) == [guard |-> guard, outcome |-> outcome]

Tracked(guard) ==
    Cardinality(DOMAIN guard.pending) + Cardinality(DOMAIN guard.reserved)

----------------------------------------------------------------------------
\* The header that starts where the bytes do, when they hold all of it
\* (compact_page_header); a corrupt header is read by nobody.
PageHeader(pages, bytes) ==
    LET whole == {page \in pages :
                    /\ page.kind # "corrupt"
                    /\ Len(bytes) >= page.head
                    /\ \A k \in 1 .. page.head : bytes[k] = page.at + k - 1}
    IN  IF whole = {} THEN None ELSE CHOOSE page \in whole : TRUE

BodyOf(page) == Action(page.at + page.head, page.body)

Associate(guard, body, decoded) ==
    LET pending == [length |-> body.length, decoded |-> decoded]
        known == body.offset \in DOMAIN guard.pending
        conflict == \/ /\ known
                       /\ guard.pending[body.offset] # pending
                    \/ /\ ~known
                       /\ body \in DOMAIN guard.reserved
                       /\ guard.reserved[body] # decoded
        clash == \E start \in DOMAIN guard.pending :
                    /\ start # body.offset
                    /\ start + guard.pending[start].length = ActionEnd(body)
    IN  IF conflict THEN Verdict(guard, "association")
        ELSE IF known THEN Verdict(guard, "ok")
        ELSE IF body \notin DOMAIN guard.reserved
                /\ Tracked(guard) >= guard.maxPages
        THEN Verdict(guard, "tracking")
        ELSE IF clash THEN Verdict(guard, "association")
        ELSE Verdict([guard EXCEPT !.pending = With(@, body.offset, pending)],
                     "ok")

\* A header at this offset proves the bodies before it were skipped; a body
\* without bytes that starts here may still be decoded.
DiscardSkippedThrough(guard, offset) ==
    LET stop(start) == start + guard.pending[start].length
        passed == {start \in DOMAIN guard.pending :
                     stop(start) < offset \/ (stop(start) = offset /\ start < offset)}
        bodies == {Action(start, guard.pending[start].length) :
                     start \in {s \in passed : guard.pending[s].length > 0}}
    IN  [guard EXCEPT
            !.pending = Without(@, passed),
            !.skipped = [body \in DOMAIN @ \cup bodies |->
                           IF body \in bodies
                           THEN guard.pending[body.offset].decoded ELSE @[body]]]

Reserve(guard, body, decoded) ==
    IF body \in DOMAIN guard.reserved
    THEN Verdict(guard, IF guard.reserved[body] = decoded THEN "ok"
                        ELSE "association")
    ELSE IF decoded > guard.maxDecoded
    THEN Verdict([guard EXCEPT !.skipped = With(@, body, decoded)], "limit")
    ELSE IF Tracked(guard) >= guard.maxPages THEN Verdict(guard, "tracking")
    ELSE Verdict([guard EXCEPT !.reserved = With(@, body, decoded)], "ok")

Covers(bodies, offset) == \E body \in bodies : offset \in Positions(body)

----------------------------------------------------------------------------
\* request: the first gap is what the operation has to ask for.
Request(reader, offset, length) ==
    LET gap == FirstMissing(reader.segments, Action(offset, length))
    IN  IF gap = None THEN Answer(reader, "inconsistent", <<>>)
        ELSE Answer(IF reader.missing = None
                    THEN [reader EXCEPT !.missing = gap] ELSE reader,
                    "missing", <<>>)

\* request_scan: a lazy reader asks for a window, half the cache at most, so
\* that an exact body still fits beside it.
ScanLength(reader, minimum) ==
    IF reader.maxCache = None THEN minimum
    ELSE Max({minimum,
              Min({(reader.maxCache + 1) \div 2, 32 * reader.prefetch})
              - Retained(reader.segments)})

RequestScan(reader, offset, minimum) ==
    Request(reader, offset,
            Min({ScanLength(reader, minimum), reader.length - offset}))

\* remember_page_header
RememberPageHeader(pages, reader, offset, bytes) ==
    LET guard == DiscardSkippedThrough(reader.guard, offset)
        counted == [guard EXCEPT !.observed = @ + 1]
        page == PageHeader(pages, bytes)
        bodyAlready == \/ /\ offset \in DOMAIN guard.pending
                          /\ guard.pending[offset].length > 0
                       \/ Covers(DOMAIN guard.reserved \cup DOMAIN guard.skipped,
                                 offset)
    IN  IF reader.guard = None THEN Answer(reader, "ok", <<>>)
        ELSE Guarded(reader,
               IF bodyAlready THEN Verdict(guard, "ok")
               ELSE IF guard.observed >= MaxHeaderObservations
               THEN Verdict(guard, "tracking")
               ELSE IF page = None THEN Verdict(counted, "header")
               ELSE IF page.kind = "index" THEN Verdict(counted, "ok")
               ELSE Associate(counted, BodyOf(page), page.decoded))

\* get_read: a cursor on what is cached from here on.
GetRead(pages, reader, start) ==
    LET window == Min({reader.length - start, reader.prefetch})
        bytes == LocateSuffix(reader.segments, start, window)
        seen == RememberPageHeader(pages, reader, start, bytes)
        emptyLast == /\ start = reader.length
                     /\ reader.guard # None
                     /\ start \in DOMAIN reader.guard.pending
                     /\ reader.guard.pending[start].length = 0
    IN  IF start > reader.length THEN Answer(reader, "eof", <<>>)
        ELSE IF emptyLast THEN Answer(reader, "ok", <<>>)
        ELSE IF bytes = None THEN RequestScan(reader, start, window)
        ELSE Answer(seen.reader, seen.outcome, bytes)

\* A page range of the offset index starts at its header: a prefix is staged,
\* and the header it holds must announce exactly that range.
PrepareIndexed(pages, reader, range) ==
    LET length == Min({range.length, reader.prefetch})
        prefix == Locate(reader.segments, range.offset, length)
        page == PageHeader(pages, prefix)
        counted == [reader.guard EXCEPT !.observed = @ + 1]
    IN  IF length = 0 THEN Answer(reader, "association", <<>>)
        ELSE IF prefix = None THEN Request(reader, range.offset, length)
        ELSE Guarded(reader,
               IF reader.guard.observed >= MaxHeaderObservations
               THEN Verdict(reader.guard, "tracking")
               ELSE IF page = None \/ page.head + page.body # range.length
               THEN Verdict(counted, "association")
               ELSE Reserve(counted, BodyOf(page), page.decoded))

\* prepare_page_body: the decompressed size is admitted before the body is
\* handed out.
PreparePageBody(pages, reader, body) ==
    LET guard == reader.guard
        pending == body.offset \in DOMAIN guard.pending
        skipped == body \in DOMAIN guard.skipped
        decoded == IF pending THEN guard.pending[body.offset].decoded
                   ELSE guard.skipped[body]
        taken == IF pending
                 THEN [guard EXCEPT !.pending = Without(@, {body.offset})]
                 ELSE [guard EXCEPT !.skipped = Without(@, {body})]
    IN  IF guard = None THEN Answer(reader, "ok", <<>>)
        ELSE IF pending /\ guard.pending[body.offset].length # body.length
        THEN Answer(reader, "association", <<>>)
        ELSE IF pending \/ skipped
        THEN Guarded(reader, Reserve(taken, body, decoded))
        ELSE IF body \in DOMAIN guard.reserved THEN Answer(reader, "ok", <<>>)
        ELSE PrepareIndexed(pages, reader, body)

\* get_bytes, once the body at these places is admitted.
GetReady(ready, start, length) ==
    LET bytes == Locate(ready.reader.segments, start, length)
    IN  IF ready.outcome # "ok" THEN ready
        ELSE IF bytes = None THEN Request(ready.reader, start, length)
        ELSE Answer(ready.reader, "ok", bytes)

GetBytes(pages, reader, start, length) ==
    GetReady(PreparePageBody(pages, reader, Action(start, length)), start, length)

----------------------------------------------------------------------------
\* Mutant: the page reader moves without its body.
EnsureNothing(pages, reader) == Answer(reader, "ok", <<>>)

\* The body of the page the decoder peeked last is fetched before the decoder
\* moves past it (ensure_next_page_body).
EnsureNextPageBody(pages, reader) ==
    LET first == Min(DOMAIN reader.guard.pending)
        page == IF reader.guard.pending # <<>>
                THEN Action(first, reader.guard.pending[first].length)
                ELSE CHOOSE body \in DOMAIN reader.guard.reserved : TRUE
    IN  IF reader.guard = None \/ Tracked(reader.guard) = 0
        THEN Answer(reader, "ok", <<>>)
        ELSE GetBytes(pages, reader, page.offset, page.length)

ReleaseSkipped(reader) ==
    IF reader.guard = None THEN reader
    ELSE [reader EXCEPT
            !.segments = ReleaseBodies(@, DOMAIN reader.guard.skipped),
            !.guard.skipped = <<>>]

ReleaseConsumed(reader) ==
    IF reader.guard = None THEN reader
    ELSE [reader EXCEPT
            !.segments = ReleaseBodies(@, DOMAIN reader.guard.reserved),
            !.guard.reserved = <<>>]

ReleaseAbandoned(reader) ==
    LET guard == reader.guard
        pending == {Action(start, guard.pending[start].length) :
                       start \in DOMAIN guard.pending}
    IN  IF guard = None THEN reader
        ELSE [reader EXCEPT
                !.segments = ReleaseBodies(@, pending \cup DOMAIN guard.reserved
                                                      \cup DOMAIN guard.skipped),
                !.guard.pending = <<>>, !.guard.reserved = <<>>,
                !.guard.skipped = <<>>]

=============================================================================
