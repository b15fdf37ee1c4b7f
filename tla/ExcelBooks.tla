----------------------------- MODULE ExcelBooks -----------------------------
(***************************************************************************)
(* The Excel adapter of the Worker (wasm.rs): workbooks opened from ranges *)
(* of a remote source, worksheets opened on demand, several at once, and   *)
(* reads, against cancellation and closing.  One document, `file', stands  *)
(* behind every source.                                                    *)
(***************************************************************************)
EXTENDS ExcelRuntime

CONSTANTS
    Files,             \* the documents a source may be
    Requests,          \* the ranges a table may be asked for
    OperationBudget,   \* the bytes one step may ask the host for
    MaxSourceBytes,    \* MAX_RANGE_SOURCE_BYTES: 4 GiB less one
    MaxHandles         \* operation handles given out (a bound of the model)

ASSUME FilesAssumption == \A f \in Files : IsDocument(f)

VARIABLES
    file,
    runtime,        \* the registry of opened workbooks
    operations,     \* operation handle -> an open or a worksheet open
    rangeSources,   \* source handle -> its ranges, entries and sheets
    tableSources,   \* table handle -> its source and the workbook behind it
    next,           \* the next operation and source handles
    answer          \* what the last call returned

vars == <<file, runtime, operations, rangeSources, tableSources, next, answer>>

Answered(error) == [error |-> error, batch |-> None]

\* A step asks for one range, within the budget of an operation.
Issuable(range) == range.length <= OperationBudget

----------------------------------------------------------------------------
(* What an open does next: "more" with a range and the phase that takes    *)
(* it, an error, or "ok" with the source it becomes.                       *)
Asks(range, phase, fetch) ==
    [end |-> "more", range |-> range, phase |-> phase, fetch |-> fetch]
Stops(error) == [end |-> error]
Opened(kind, index, entries, tables, compact) ==
    [end |-> "ok", kind |-> kind, index |-> index, entries |-> entries,
     tables |-> tables, compact |-> compact]

\* The workbook and its relationships, as far as they have been fetched.
WorkbookFetched(index, got) ==
    LET relationshipsPath == RelationshipsPath(Workbook)
        workbook == Decode(file, index, EntryOf(got.fetch.entries, Workbook))
        relationships == Decode(file, index, EntryOf(got.fetch.entries, relationshipsPath))
        tables == Descriptors(workbook.value.sheets, relationships.value.relationships,
                              BaseOf(relationshipsPath))
    IN  IF got.error = "more" THEN
                Asks(got.value, "workbook", [index |-> index, fetch |-> got.fetch])
        ELSE IF got.error # "ok" THEN Stops(got.error)
        ELSE IF workbook.error # "ok" THEN Stops(workbook.error)
        ELSE IF relationships.error # "ok" THEN Stops(relationships.error)
        ELSE IF tables.error # "ok" THEN Stops(tables.error)
        ELSE Opened("xlsx", index, got.fetch.entries, tables.value, None)

\* The phase XlsxWorkbook.
WorkbookStep(indexed, index, fetch) ==
    WorkbookFetched(index, AdvanceFetch(file, indexed, index, fetch))

\* The phase XlsxCentral: the directory must be there by now.
CentralStep(indexed) ==
    LET tailRange == TailRange(indexed.length)
        tail == Bytes(indexed, tailRange.value)
        location == FindEnd(file, tail, tailRange.value.offset)
        central == Bytes(indexed, location.value.range)
        index == ParseCentral(file, central, location.value.entries)
        required == {Types, Workbook, RelationshipsPath(Workbook)}
    IN  IF tail = None THEN Stops("unindexed")
        ELSE IF location.error # "ok" THEN Stops(location.error)
        ELSE IF central = None THEN Stops("unindexed")
        ELSE IF index.error # "ok" THEN Stops(index.error)
        ELSE IF ~(required \subseteq DOMAIN index.value) THEN Stops("parse")
        ELSE WorkbookStep(indexed, index.value,
                          NewFetch(<<Workbook, RelationshipsPath(Workbook)>>, <<>>))

\* The phase Detect, for a ZIP container.
TailStep(indexed) ==
    LET tailRange == TailRange(indexed.length)
        tail == Need(indexed, tailRange.value)
        location == FindEnd(file, tail.value, tailRange.value.offset)
        central == Need(indexed, location.value.range)
    IN  IF tailRange.error # "ok" THEN Stops(tailRange.error)
        ELSE IF tail.error = "more" THEN Asks(tail.value, "detect", None)
        ELSE IF location.error # "ok" THEN Stops(location.error)
        ELSE IF central.error = "more" THEN Asks(central.value, "central", None)
        ELSE CentralStep(indexed)

\* A legacy workbook is opened once to list its sheets.
ListXls(listed, compact) ==
    LET tables == listed.runtime.sources[listed.handle].tables
    IN  IF listed.error # "ok" THEN Stops(listed.error)
        ELSE Opened("xls", None, <<>>,
                 [k \in 1 .. Len(tables) |-> [id |-> tables[k].id, path |-> <<>>]],
                 compact)

\* The phase XlsIndex: the bytes of the whole workbook.
XlsStep(indexed) ==
    LET compact == CompactXls(indexed, file.reads, file.hasWorkbook)
    IN  IF compact.end = "more" THEN Asks(compact.range, "xls", None)
        ELSE IF compact.end # "ok" THEN Stops(compact.end)
        ELSE ListXls(OpenSource(file, runtime, compact.bytes), compact.bytes)

DetectStep(indexed) ==
    LET signature == Bytes(indexed, HostRange(0, SignatureBytes))
    IN  IF signature = None THEN Stops("unindexed")
        ELSE IF file.kind \notin {"xls", "xlsx"} THEN Stops("parse")
        ELSE IF file.hint \notin {"auto", file.kind} THEN Stops("parse")
        ELSE IF file.kind = "xls" THEN XlsStep(indexed)
        ELSE TailStep(indexed)

\* advance_open
OpenStep(op, indexed) ==
    CASE op.phase = "detect" -> DetectStep(indexed)
      [] op.phase = "central" -> CentralStep(indexed)
      [] op.phase = "workbook" -> WorkbookStep(indexed, op.fetch.index, op.fetch.fetch)
      [] op.phase = "xls" -> XlsStep(indexed)

\* The handle the listing of a legacy workbook took in the registry.
RuntimeAfter(step) ==
    IF step.end = "ok" /\ step.kind = "xls"
    THEN [runtime EXCEPT !.next = @ + 1] ELSE runtime

----------------------------------------------------------------------------
Init ==
    /\ file \in Files
    /\ runtime = NewRuntime
    /\ operations = <<>>
    /\ rangeSources = <<>>
    /\ tableSources = <<>>
    /\ next = [operation |-> 1, source |-> 1]
    /\ answer = Answered("ok")

\* begin_open: the signature first.
BeginOpen ==
    LET signature == HostRange(0, SignatureBytes)
        op == [kind |-> "open", phase |-> "detect", fetch |-> None,
               indexed |-> NewIndexed(file.length), expected |-> signature]
    IN  /\ next.operation <= MaxHandles
        /\ IF file.length > MaxSourceBytes \/ file.length < SignatureBytes
           THEN /\ answer' = Answered(IF file.length > MaxSourceBytes THEN "limit" ELSE "parse")
                /\ UNCHANGED <<next, operations>>
           ELSE /\ next' = [next EXCEPT !.operation = @ + 1]
                /\ IF Issuable(signature)
                   THEN /\ operations' = With(operations, next.operation, op)
                        /\ answer' = Answered("ok")
                   ELSE answer' = Answered("limit") /\ UNCHANGED operations
        /\ UNCHANGED <<file, runtime, rangeSources, tableSources>>

\* The host's bytes of a range, and a result that was refused: the step is
\* used up, and the operation can only be cancelled.
HostBytes(range) == [k \in 1 .. range.length |-> range.offset + k - 1]
RefuseResult(o, error) ==
    /\ operations' = [operations EXCEPT ![o].expected = None]
    /\ answer' = Answered(error)
    /\ UNCHANGED <<file, runtime, rangeSources, tableSources, next>>

EndOperation(o, error) ==
    /\ operations' = Without(operations, {o})
    /\ answer' = Answered(error)

\* An open waits for its next range, becomes a source, or fails.
SettleOpen(o, indexed, step) ==
    /\ runtime' = RuntimeAfter(step)
    /\ IF step.end = "more" /\ Issuable(step.range)
       THEN /\ operations' = [operations EXCEPT ![o] =
                  [@ EXCEPT !.indexed = indexed, !.phase = step.phase,
                            !.fetch = step.fetch, !.expected = step.range]]
            /\ answer' = Answered("ok")
            /\ UNCHANGED <<rangeSources, next>>
       ELSE IF step.end = "ok"
       THEN /\ EndOperation(o, "ok")
            /\ next' = [next EXCEPT !.source = @ + 1]
            /\ rangeSources' = With(rangeSources, next.source,
                  [indexed |-> indexed, kind |-> step.kind, index |-> step.index,
                   entries |-> step.entries, tables |-> step.tables,
                   compact |-> step.compact, inner |-> {}])
       ELSE /\ EndOperation(o, IF step.end = "more" THEN "limit" ELSE step.end)
            /\ UNCHANGED <<rangeSources, next>>
    /\ UNCHANGED <<file, tableSources>>

\* continue_operation, of an open.
ContinueOpen(o) ==
    LET op == operations[o]
        fed == Insert(op.indexed, op.expected, HostBytes(op.expected))
    IN  /\ op.kind = "open" /\ op.expected # None
        /\ IF fed.error # "ok" THEN RefuseResult(o, fed.error)
           ELSE SettleOpen(o, fed.indexed, OpenStep(op, fed.indexed))

----------------------------------------------------------------------------
\* The worksheet of a workbook that was opened for it, or nothing.
AdoptSheet(sources, s, id, opened) ==
    LET table == OpenTable(opened.runtime, opened.handle, id)
        error == IF opened.error # "ok" THEN opened.error ELSE table.error
    IN  /\ answer' = Answered(error)
        /\ runtime' = IF opened.error # "ok" THEN runtime
                      ELSE IF table.error # "ok" THEN CloseSourceOf(opened.runtime, opened.handle)
                      ELSE table.runtime
        /\ rangeSources' = IF error # "ok" THEN sources
                           ELSE [sources EXCEPT ![s].inner = @ \cup {opened.handle}]
        /\ tableSources' = IF error # "ok" THEN tableSources
                           ELSE With(tableSources, table.handle,
                                     [source |-> s, inner |-> opened.handle])

\* open_compact_table: a workbook of its own behind every opened worksheet.
OpenCompact(sources, s, id, compact) ==
    AdoptSheet(sources, s, id, OpenSource(file, runtime, compact))

\* The table of a source that has the id (the host asks for those it was told of).
TableOf(source, id) == Keep(source.tables, {t \in Range(source.tables) : t.id = id})[1]

\* A worksheet open waits for its next range, opens, or fails.
SettleTable(o, op, sources, got) ==
    LET source == sources[op.source]
        selected == TableOf(source, op.table)
        compact == CompactPackage(got.fetch.entries, source.tables, selected.path)
        stop(error) == /\ operations' = Without(operations, {o})
                       /\ answer' = Answered(error)
                       /\ rangeSources' = sources
                       /\ UNCHANGED <<runtime, tableSources>>
    IN  CASE got.error = "more" /\ Issuable(got.value) ->
                /\ operations' = With(operations, o,
                       [op EXCEPT !.fetch = got.fetch, !.expected = got.value])
                /\ answer' = Answered("ok")
                /\ rangeSources' = sources
                /\ UNCHANGED <<runtime, tableSources>>
          [] got.error = "more" /\ ~Issuable(got.value) -> stop("limit")
          [] got.error \notin {"ok", "more"} -> stop(got.error)
          [] got.error = "ok" ->
                /\ operations' = Without(operations, {o})
                /\ OpenCompact(sources, op.source, op.table, compact)

\* advance_open_table, with the range sources as they are now.
AdvanceTable(o, op, sources) ==
    LET source == sources[op.source]
    IN  SettleTable(o, op, sources,
                    AdvanceFetch(file, source.indexed, source.index, op.fetch))

\* begin_open_table; a legacy workbook's sheet opens at once.
BeginOpenTable(s, id) ==
    LET source == rangeSources[s]
        path == TableOf(source, id).path
        op == [kind |-> "table", source |-> s, table |-> id, expected |-> None,
               fetch |-> NewFetch(RequiredPaths(file, source.index, path), source.entries)]
    IN  /\ next.operation <= MaxHandles
        /\ next' = [next EXCEPT !.operation = @ + 1]
        /\ IF source.kind = "xls"
           THEN OpenCompact(rangeSources, s, id, source.compact) /\ UNCHANGED operations
           ELSE AdvanceTable(next.operation, op, rangeSources)
        /\ UNCHANGED file

\* continue_operation, of a worksheet open.
ContinueTable(o) ==
    LET op == operations[o]
        fed == Insert(rangeSources[op.source].indexed, op.expected, HostBytes(op.expected))
    IN  /\ op.kind = "table" /\ op.expected # None
        /\ CASE op.source \notin DOMAIN rangeSources -> RefuseResult(o, "closed")
             [] op.source \in DOMAIN rangeSources /\ fed.error # "ok" ->
                   RefuseResult(o, fed.error)
             [] op.source \in DOMAIN rangeSources /\ fed.error = "ok" ->
                   /\ AdvanceTable(o, op,
                          [rangeSources EXCEPT ![op.source].indexed = fed.indexed])
                   /\ UNCHANGED <<file, next>>

----------------------------------------------------------------------------
\* begin_read completes at once; only a successful read takes a handle.
BeginRead(t, request) ==
    LET batch == ReadRange(runtime, t, request)
    IN  /\ next.operation <= MaxHandles
        /\ next' = IF batch.error = "ok" THEN [next EXCEPT !.operation = @ + 1] ELSE next
        /\ answer' = [error |-> batch.error,
                      batch |-> IF batch.error # "ok" THEN None
                                ELSE [table |-> t, request |-> request, read |-> batch.value]]
        /\ UNCHANGED <<file, runtime, operations, rangeSources, tableSources>>

\* cancel_operation
CancelOperation(o) ==
    /\ EndOperation(o, "ok")
    /\ UNCHANGED <<file, runtime, rangeSources, tableSources, next>>

\* A mutant of CloseTable: the workbook behind the worksheet stays open.
CloseTableOnly(t) ==
    /\ runtime' = CloseTableOf(runtime, t)
    /\ tableSources' = Without(tableSources, {t})
    /\ rangeSources' = [rangeSources EXCEPT ![tableSources[t].source].inner =
                                               @ \ {tableSources[t].inner}]
    /\ answer' = Answered("ok")
    /\ UNCHANGED <<file, operations, next>>

\* close_table closes the workbook behind the worksheet too.
CloseTable(t) ==
    LET owner == tableSources[t]
    IN  /\ runtime' = CloseSourceOf(CloseTableOf(runtime, t), owner.inner)
        /\ tableSources' = Without(tableSources, {t})
        /\ rangeSources' = [rangeSources EXCEPT ![owner.source].inner = @ \ {owner.inner}]
        /\ answer' = Answered("ok")
        /\ UNCHANGED <<file, operations, next>>

\* close_source leaves the worksheet opens of the source registered.
CloseSource(s) ==
    LET tables == {t \in DOMAIN tableSources : tableSources[t].source = s}
        closed == FoldLeft(CloseTableOf, runtime, SetToSeq(tables))
    IN  /\ runtime' = FoldLeft(CloseSourceOf, closed, SetToSeq(rangeSources[s].inner))
        /\ rangeSources' = Without(rangeSources, {s})
        /\ tableSources' = Without(tableSources, tables)
        /\ answer' = Answered("ok")
        /\ UNCHANGED <<file, operations, next>>

\* shutdown
Shutdown ==
    /\ runtime' = [NewRuntime EXCEPT !.next = runtime.next]
    /\ operations' = <<>>
    /\ rangeSources' = <<>>
    /\ tableSources' = <<>>
    /\ answer' = Answered("ok")
    /\ UNCHANGED <<file, next>>

Continue(o) == ContinueOpen(o) \/ ContinueTable(o)

Next ==
    \/ BeginOpen
    \/ \E o \in DOMAIN operations : Continue(o) \/ CancelOperation(o)
    \/ \E s \in DOMAIN rangeSources :
          CloseSource(s) \/ \E k \in 1 .. Len(rangeSources[s].tables) :
                                BeginOpenTable(s, rangeSources[s].tables[k].id)
    \/ \E t \in DOMAIN tableSources :
          CloseTable(t) \/ \E request \in Requests : BeginRead(t, request)
    \/ Shutdown

Spec == Init /\ [][Next]_vars

\* An operation waits for a range, and having it changes something: the
\* state in which <<Continue(o)>>_vars is enabled, written out.
Waiting(o) ==
    LET op == operations[o]
        closed == op.kind = "table" /\ op.source \notin DOMAIN rangeSources
        indexed == IF op.kind = "open" THEN op.indexed ELSE rangeSources[op.source].indexed
        fed == Insert(indexed, op.expected, HostBytes(op.expected))
    IN  /\ o \in DOMAIN operations
        /\ op.expected # None
        /\ \/ closed
           \/ fed # [error |-> "ok", indexed |-> indexed]
           \/ Positions(op.expected) \subseteq Indexed(indexed)

\* The Worker hands every range the host has read to its operation: weak
\* fairness of Continue(o).
FairSpec ==
    Spec /\ \A o \in 1 .. MaxHandles :
                []<>~Waiting(o) \/ []<><<o \in DOMAIN operations /\ Continue(o)>>_vars

----------------------------------------------------------------------------
\* Ranges that hold the bytes of their places, apart from one another, and
\* the count of those bytes (IndexedRanges).
IndexedSound(indexed) ==
    /\ \A s \in DOMAIN indexed.ranges :
          /\ EndOf(indexed, s) <= indexed.length
          /\ \A k \in 1 .. Len(indexed.ranges[s]) : indexed.ranges[s][k] = s + k - 1
          /\ \A t \in DOMAIN indexed.ranges : t > s => t > EndOf(indexed, s)
    /\ indexed.retained = Cardinality(Indexed(indexed))

\* What the sources or the tables of a registry have reserved together.
Reserved(opened) == SumOf([h \in DOMAIN opened |-> opened[h].reserved])

\* The ranges of every open and of every source are sound, and an open waits
\* for a byte it does not have; each worksheet has a workbook of its own in
\* the registry, which its source owns and nothing else; what the registry
\* has reserved for those is its total, and stays within the budget
\* (IndexedRanges::insert, ExcelRuntime::retained_bytes, close_table,
\* close_source and cancel_operation of the adapter).
ExcelInv ==
    /\ \A o \in DOMAIN operations :
          operations[o].kind = "open" =>
             /\ IndexedSound(operations[o].indexed)
             /\ operations[o].expected # None =>
                   ~(Positions(operations[o].expected) \subseteq Indexed(operations[o].indexed))
    /\ \A s \in DOMAIN rangeSources : IndexedSound(rangeSources[s].indexed)
    /\ DOMAIN runtime.tables = DOMAIN tableSources
    /\ DOMAIN runtime.sources = {tableSources[t].inner : t \in DOMAIN tableSources}
    /\ \A t \in DOMAIN tableSources :
          /\ runtime.tables[t].source = tableSources[t].inner
          /\ tableSources[t].source \in DOMAIN rangeSources
    /\ \A s \in DOMAIN rangeSources :
          rangeSources[s].inner = {tableSources[t].inner :
                                      t \in {u \in DOMAIN tableSources : tableSources[u].source = s}}
    /\ runtime.retained = Reserved(runtime.sources) + Reserved(runtime.tables)
    /\ runtime.retained <= MemoryBudget

\* A worksheet that opened is the one asked for, with the cells, shape and
\* merged regions the document says, in whatever order its records lie and
\* whatever other operations indexed its bytes (open_compact_table,
\* build_compact_xlsx, ExcelRuntime::open_table).
SheetExact ==
    \A t \in DOMAIN runtime.tables :
       LET table == runtime.tables[t]
           truth == file.truth[table.id + 1]
       IN  /\ table.cells = truth.cells
           /\ table.merged = truth.merged
           /\ <<table.rows, table.columns>> = <<truth.rows, truth.columns>>

\* A batch holds the document's values at the places asked for, null where
\* there is none or a merged cell hides it, its byte size is that of its
\* finished columns, and it is short only at the end of the sheet
\* (ExcelRuntime::read_range, StringColumnBuilder).
BatchExact ==
    answer.batch # None =>
       LET request == answer.batch.request
           read == answer.batch.read
           truth == file.truth[runtime.tables[answer.batch.table].id + 1]
           rows == {r \in request.row .. request.row + request.rows - 1 : r < truth.rows}
           hidden(cell) == \E k \in 1 .. Len(truth.merged) :
                              /\ InRegion(truth.merged[k], cell)
                              /\ cell # <<truth.merged[k].top, truth.merged[k].left>>
           shown(cell) == IF cell \in DOMAIN truth.cells /\ ~hidden(cell)
                          THEN truth.cells[cell] ELSE None
           strings == {cell \in DOMAIN read.values : read.values[cell] # None}
       IN  /\ read.rows = Cardinality(rows)
           /\ read.complete = (read.rows = request.rows)
           /\ DOMAIN read.values = (0 .. read.rows - 1) \X (0 .. request.columns - 1)
           /\ \A cell \in DOMAIN read.values :
                 read.values[cell] = shown(<<request.row + cell[1], request.column + cell[2]>>)
           /\ read.bytes = request.columns * ((read.rows + 1) * OffsetBytes
                                              + (read.rows + Group - 1) \div Group)
                           + MapThenSumSet(LAMBDA cell : read.values[cell], strings)

\* A workbook that names a sheet which is no worksheet: a chart or a dialog.
NamesOtherSheets ==
    file.kind = "xlsx" /\ \E p, q \in DOMAIN file.parts :
       \E s \in 1 .. Len(file.parts[p].sheets), r \in 1 .. Len(file.parts[q].relationships) :
          /\ file.parts[q].relationships[r].id = file.parts[p].sheets[s].relationship
          /\ file.parts[q].relationships[r].kind # "worksheet"

\* Two worksheets may have been opened from one source: its open and one of
\* them take two handles.
TwoOpens == next.operation > 3

\* The answer of the last call is one a sound document gets.
Healthy ==
    /\ answer.error \in {"ok", "closed", "limit", "range"} \cup file.flaws
                        \cup (IF TwoOpens THEN {"overlap"} ELSE {})
    /\ answer.error = "limit" => tableSources # <<>> \/ "limit" \in file.flaws
    /\ \A o \in DOMAIN operations :
          operations[o].kind = "open" /\ operations[o].expected = None
             => "overlap" \in file.flaws

\* A sound document whose sheets are all worksheets opens, as a source and as
\* worksheets: it is refused for memory only while worksheets hold it; no answer
\* of the host is refused unless the document reads backwards (flaws) or a
\* second worksheet of the source indexed its bytes meanwhile; a refusal of any
\* other kind has its ground in the document.
HealthyOpens == ~NamesOtherSheets => Healthy

\* The same of every workbook, charts being skipped with a warning
\* (ExcelWarningKind::SkippedSheet), which the code does for legacy workbooks
\* only: the descriptors of a package refuse a sheet that is no worksheet.
ChartsSkipped == Healthy

\* An operation whose ranges the host answers comes to an end: it opens, it
\* fails, or an answer of it is refused.
OpenSettles ==
    \A o \in 1 .. MaxHandles :
       o \in DOMAIN operations
          ~> (o \notin DOMAIN operations \/ operations[o].expected = None)

\* Ranges fetched at different times and out of order do not meet: no answer
\* is refused for it (the comment on IndexedRanges::first_missing).
NoOverlap == answer.error # "overlap"

=============================================================================
