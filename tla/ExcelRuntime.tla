---------------------------- MODULE ExcelRuntime ----------------------------
(***************************************************************************)
(* The registry of opened workbooks and worksheets (ExcelRuntime of        *)
(* lib.rs) and their reads.  Every operation takes the registry and gives  *)
(* back its result and the registry after it.  A cell's value stands as    *)
(* the number of bytes of its display string.  The calamine crate          *)
(* (external) gives the values and formulas of a sheet.                    *)
(***************************************************************************)
EXTENDS ExcelSheets

CONSTANTS
    MemoryBudget, MaxSources,
    DataBytes, StringBytes,   \* one value and one string held inline
    MaskBytes,                \* one cell of the merged-cell mask and owners
    OffsetBytes, Group        \* a u32 offset; the rows of a validity byte

ASSUME RuntimeAssumption ==
    MemoryBudget \in Nat /\ DataBytes \in Nat /\ StringBytes \in Nat

\* The cells of a sheet that hold something, with its bytes.
HeldCells(f) ==
    /\ IsFiniteSet(DOMAIN f) /\ DOMAIN f \subseteq Nat \X Nat
    /\ \A cell \in DOMAIN f : f[cell] \in Nat

\* An entry of a package, whatever it is read as, and a sheet of a legacy
\* workbook.
IsPart(part) ==
    /\ part.expanded \in Nat /\ part.slots \in Nat
    /\ part.sheets \in Seq(SheetNodes) /\ part.relationships \in Seq(Relationships)
    /\ part.elements \in Seq(Elements)
    /\ HeldCells(part.cells) /\ HeldCells(part.formulas)
IsBound(sheet) ==
    /\ sheet.name \in STRING /\ sheet.offset \in Nat \ {0} /\ sheet.worksheet \in BOOLEAN
    /\ HeldCells(sheet.cells) /\ HeldCells(sheet.formulas)

\* A document is of one kind, and its parser reads no byte past its end.
IsDocument(file) ==
    /\ file.length \in Nat
    /\ file.kind = "xlsx" =>
          /\ IsPackage(file)
          /\ \A p \in DOMAIN file.parts : IsPart(file.parts[p])
    /\ file.kind = "xls" =>
          /\ file.reads \in Seq(0 .. file.length - 1)
          /\ file.streamBytes \in Nat /\ file.records \in Seq(Elements)
          /\ file.bound \in Seq(Range(file.bound))
          /\ \A sheet \in Range(file.bound) : IsBound(sheet)

NewRuntime == [next |-> 1, retained |-> 0, sources |-> <<>>, tables |-> <<>>]

Result(error, runtime, handle) == [error |-> error, runtime |-> runtime, handle |-> handle]
Available(runtime) == MemoryBudget - runtime.retained
TotalOf(values) == FoldLeft(LAMBDA a, b : a + b, 0, values)

WorkbookBin == <<"xl", "workbook.bin">>

\* The part of a file the bytes of an entry hold: a placeholder holds none.
EmptySheet == [expanded |-> PlaceholderBytes, slots |-> 0, doctype |-> FALSE,
               content |-> "none", sheets |-> <<>>, relationships |-> <<>>,
               elements |-> <<>>, cells |-> <<>>, formulas |-> <<>>]
Part(file, bytes) == IF bytes[1] \in DOMAIN file.parts THEN file.parts[bytes[1]] ELSE EmptySheet
PartAt(file, package, path) == Part(file, EntryOf(package, path).bytes)

\* inspect_excel_source and validate_xlsx_container: declared sizes, entry by
\* entry, before anything is inflated; then the kind of the document.  No entry
\* of the package build_compact_xlsx wrote is encrypted.
InspectXlsx(file, package, available) ==
    LET parts == [k \in 1 .. Len(package) |-> Part(file, package[k].bytes)]
        bytes == TotalOf([k \in 1 .. Len(package) |-> Len(package[k].bytes)])
        expanded == [k \in 1 .. Len(package) |-> parts[k].expanded]
        slots == [k \in 1 .. Len(package) |-> parts[k].slots]
        declared == {k \in 1 .. Len(package) :
                        \/ ~SafePath(package[k].name)
                        \/ expanded[k] > Limits.entryBytes
                        \/ TotalOf(SubSeq(expanded, 1, k)) > Limits.expandedBytes}
        base == bytes + TotalOf(expanded)
        inflated == {k \in 1 .. Len(package) :
                        \/ parts[k].doctype
                        \/ base + TotalOf(SubSeq(slots, 1, k)) * StringBytes > available}
        content == PartAt(file, package, Types).content
        said(path) == IF path \in Names(package) THEN PartAt(file, package, path).content ELSE "none"
    IN  IF bytes > Limits.source \/ Len(package) > Limits.zipEntries THEN Refused("limit")
        ELSE IF declared # {}
        THEN Refused(IF SafePath(package[Min(declared)].name) THEN "limit" ELSE "parse")
        ELSE IF base > available THEN Refused("limit")
        ELSE IF inflated # {}
        THEN Refused(IF parts[Min(inflated)].doctype THEN "unsupported" ELSE "limit")
        ELSE IF said(<<"mimetype">>) = "ods" \/ WorkbookBin \in Names(package)
                \/ content = "macro"
        THEN Refused("unsupported")
        ELSE IF content # "xlsx" \/ Workbook \notin Names(package) THEN Refused("parse")
        ELSE Found(base + TotalOf(slots) * StringBytes)

\* The positions of a compound file that must be right for it to be parsed.
Readable(file, bytes) ==
    \A k \in 1 .. Len(file.reads) :
        file.reads[k] < Len(bytes) /\ bytes[file.reads[k] + 1] = file.reads[k]

\* validate_biff8_container
InspectXls(file, bytes, available) ==
    LET counts == PresentationCounts(file.records)
        parsing == Len(bytes) + file.streamBytes
    IN  IF Len(bytes) > Limits.source THEN Refused("limit")
        ELSE IF ~Readable(file, bytes) THEN Refused("parse")
        ELSE IF file.entries > Limits.cfbEntries THEN Refused("limit")
        ELSE IF file.streamBytes > Limits.streamBytes THEN Refused("limit")
        ELSE IF file.encrypted THEN Refused("unsupported")
        ELSE IF parsing > available THEN Refused("limit")
        ELSE IF file.records[1].kind # "bof" THEN Refused("parse")
        ELSE IF file.version # "biff8" THEN Refused("unsupported")
        ELSE IF counts.error # "ok" THEN Refused(counts.error)
        ELSE IF parsing + PresentationBytes(counts) > available THEN Refused("limit")
        ELSE Found(parsing + PresentationBytes(counts))

----------------------------------------------------------------------------
\* WorkbookPresentation::parse_xlsx and parse_biff8: the layout of each sheet.
\* The last relationship of an id counts, whatever its kind; a sheet without one,
\* or with one outside the package, has no layout of its own (skipped).
SheetParts(file, package) ==
    LET workbook == PartAt(file, package, Workbook)
        relationships == PartAt(file, package, RelationshipsPath(Workbook)).relationships
        related(sheet) ==
            {k \in 1 .. Len(relationships) : relationships[k].id = sheet.relationship}
        skipped(sheet) == related(sheet) = {} \/ relationships[Max(related(sheet))].external
        path(sheet) == ResolveTarget(BaseOf(RelationshipsPath(Workbook)),
                                     relationships[Max(related(sheet))].target).value
        missing(sheet) == ~skipped(sheet) /\ path(sheet) \notin Names(package)
    IN  [k \in 1 .. Len(workbook.sheets) |->
            LET sheet == workbook.sheets[k]
            IN  [name |-> sheet.name, worksheet |-> sheet.worksheet,
                 skipped |-> skipped(sheet), missing |-> missing(sheet),
                 part |-> IF skipped(sheet) \/ missing(sheet) THEN EmptySheet
                          ELSE PartAt(file, package, path(sheet))]]

LayoutsOf(layouts, names) ==
    LET failed == {k \in 1 .. Len(layouts) : layouts[k].error # "ok"}
    IN  IF failed # {} THEN layouts[Min(failed)]
        ELSE Found([name \in {names[k] : k \in 1 .. Len(names)} |->
                       layouts[CHOOSE k \in 1 .. Len(names) : names[k] = name].value])

XlsxLayouts(sheets) ==
    LayoutsOf([k \in 1 .. Len(sheets) |->
                  IF sheets[k].missing THEN Refused("parse")
                  ELSE IF sheets[k].skipped THEN SheetLayout(<<>>, "xlsx")
                  ELSE SheetLayout(sheets[k].part.elements, "xlsx")],
              [k \in 1 .. Len(sheets) |-> sheets[k].name])

\* The sheets that can be tables (charts and dialogs are not).
Worksheets(sheets) == Keep(sheets, {sheet \in Range(sheets) : sheet.worksheet})

XlsLayouts(file) ==
    LET worksheets == Worksheets(file.bound)
    IN  LayoutsOf([k \in 1 .. Len(worksheets) |->
                      BiffLayout(file.records, worksheets[k].offset)],
                  [k \in 1 .. Len(worksheets) |-> worksheets[k].name])

LayoutBytes(layouts) == SumOf([name \in DOMAIN layouts |-> RetainedByLayout(layouts[name])])

\* describe_tables: worksheets are numbered without the sheets between them.
DescribeTables(sheets) ==
    LET worksheets == Worksheets(sheets)
    IN  IF Len(worksheets) > Limits.worksheets THEN Refused("limit")
        ELSE IF worksheets = <<>> THEN Refused("unsupported")
        ELSE Found([k \in 1 .. Len(worksheets) |->
                                [id |-> k - 1, name |-> worksheets[k].name]])

\* A parsed workbook: its tables, and the values and layout of each sheet.
Book(file, inspection, sheets, contents, layouts, reserved, available) ==
    LET tables == DescribeTables(sheets)
        nameAt(name) == CHOOSE k \in 1 .. Len(sheets) : sheets[k].name = name
    IN  IF inspection.error # "ok" THEN inspection
        ELSE IF file.hint \notin {"auto", file.kind} THEN Refused("argument")
        ELSE IF layouts.error # "ok" THEN layouts
        ELSE IF reserved > available THEN Refused("limit")
        ELSE IF tables.error # "ok" THEN tables
        ELSE Found([reserved |-> reserved, tables |-> tables.value,
                             layouts |-> layouts.value,
                             contents |-> [name \in DOMAIN layouts.value |->
                                              contents[nameAt(name)]]])

\* ExcelSource::open.  A package is the sequence of its entries, a compound
\* file the sequence of its bytes.
OpenXlsx(file, package, available) ==
    LET inspection == InspectXlsx(file, package, available)
        sheets == SheetParts(file, package)
        layouts == XlsxLayouts(sheets)
    IN  IF inspection.error # "ok" THEN inspection
        ELSE Book(file, inspection, sheets, [k \in 1 .. Len(sheets) |-> sheets[k].part],
                  layouts, inspection.value + LayoutBytes(layouts.value), available)

OpenXls(file, bytes, available) ==
    LET inspection == InspectXls(file, bytes, available)
    IN  Book(file, inspection, file.bound, file.bound, XlsLayouts(file),
             inspection.value, available)

\* A parsed workbook takes a handle and its reservation.
Register(runtime, book) ==
    IF book.error # "ok" THEN Result(book.error, runtime, None)
    ELSE Result("ok", [runtime EXCEPT
                          !.next = @ + 1, !.retained = @ + book.value.reserved,
                          !.sources = With(@, runtime.next, book.value)],
                runtime.next)

\* open_source
OpenSource(file, runtime, compact) ==
    IF Cardinality(DOMAIN runtime.sources) >= MaxSources
    THEN Result("limit", runtime, None)
    ELSE Register(runtime,
                  IF file.kind = "xlsx" THEN OpenXlsx(file, compact, Available(runtime))
                  ELSE OpenXls(file, compact, Available(runtime)))

----------------------------------------------------------------------------
\* The first row and column past the values of a sheet, and its shape.
UsedEnd(content, axis) == Max({0} \cup {cell[axis] + 1 : cell \in DOMAIN content.cells})
Shape(content, layout) ==
    [rows |-> Max({UsedEnd(content, 1), layout.rows}),
     columns |-> Max({UsedEnd(content, 2), layout.columns})]

\* worksheet_reservation: both dense ranges, the formulas' while opening.
Reservation(shape) ==
    [retained |-> shape.rows * shape.columns * DataBytes,
     open |-> shape.rows * shape.columns * (DataBytes + StringBytes)]

\* worksheet_reservation_with_contents
FullReservation(shape, content) ==
    [retained |-> Reservation(shape).retained + SumOf(content.cells),
     open |-> Reservation(shape).open + SumOf(content.cells) + SumOf(content.formulas)]

\* missing_formula_cache_warnings
MissingCaches(content) ==
    Min({Limits.warnings, Cardinality(DOMAIN content.formulas \ DOMAIN content.cells)})

\* open_table
OpenTable(runtime, source, id) ==
    LET book == runtime.sources[source]
        named == Keep(book.tables, {t \in Range(book.tables) : t.id = id})
        layout == book.layouts[named[1].name]
        content == book.contents[named[1].name]
        shape == Shape(content, layout)
        full == FullReservation(shape, content)
    IN  IF source \notin DOMAIN runtime.sources THEN Result("closed", runtime, None)
        ELSE IF named = <<>> THEN Result("argument", runtime, None)
        ELSE IF ~FitsGrid(layout.rows, layout.columns) THEN Result("limit", runtime, None)
        ELSE IF Reservation(layout).open > Available(runtime) THEN Result("limit", runtime, None)
        ELSE IF ~FitsGrid(shape.rows, shape.columns) THEN Result("limit", runtime, None)
        ELSE IF full.open > Available(runtime) THEN Result("limit", runtime, None)
        ELSE
              Result("ok", [runtime EXCEPT
                               !.next = @ + 1, !.retained = @ + full.retained,
                               !.tables = With(@, runtime.next,
                                   [source |-> source, id |-> id, rows |-> shape.rows,
                                    columns |-> shape.columns, cells |-> content.cells,
                                    merged |-> layout.merged, reserved |-> full.retained,
                                    warnings |-> MissingCaches(content)])],
                     runtime.next)

----------------------------------------------------------------------------
\* A mutant of CellBytes: a validity byte is taken when the last one is full.
CellBytesLate(row, value) ==
    OffsetBytes + (IF row % Group = Group - 1 THEN 1 ELSE 0)
    + (IF value = None THEN 0 ELSE value)

\* StringColumnBuilder::append: an offset, a validity byte for every Group
\* values, and the value; then the offset a column starts with.
CellBytes(row, value) ==
    OffsetBytes + (IF row % Group = 0 THEN 1 ELSE 0) + (IF value = None THEN 0 ELSE value)
BatchBytes(values, rows, columns) ==
    columns * OffsetBytes
    + MapThenSumSet(LAMBDA cell : CellBytes(cell[1], values[cell]),
                    (0 .. rows - 1) \X (0 .. columns - 1))

\* read_range: rows past the end are left out, columns past it refused.
ReadRange(runtime, table, request) ==
    LET open == runtime.tables[table]
        requested == request.rows * request.columns
        mask == requested * MaskBytes
        room == Min({Limits.batchBytes, Available(runtime) - mask})
        rows == Max({0, Min({request.rows, open.rows - request.row})})
        columns == 0 .. request.columns - 1
        place(cell) == <<request.row + cell[1], request.column + cell[2]>>
        within == (0 .. rows - 1) \X columns
        hidden == NonAnchors(open.merged, {place(cell) : cell \in within})
        values == [cell \in within |->
                      IF place(cell) \in hidden.value \/ place(cell) \notin DOMAIN open.cells
                      THEN None ELSE open.cells[place(cell)]]
        bytes == BatchBytes(values, rows, request.columns)
    IN  IF mask > Available(runtime) \/ room = 0 THEN Refused("limit")
        ELSE IF table \notin DOMAIN runtime.tables THEN Refused("closed")
        ELSE IF requested > Limits.rangeCells THEN Refused("limit")
        ELSE IF request.column + request.columns > open.columns THEN Refused("range")
        ELSE IF hidden.error # "ok" THEN hidden
        ELSE IF bytes > room THEN Refused("limit")
        ELSE Found([rows |-> rows, complete |-> rows = request.rows,
                             values |-> values, bytes |-> bytes])

----------------------------------------------------------------------------
\* close_table and close_source, which takes the tables of the source along.
CloseTableOf(runtime, table) ==
    IF table \notin DOMAIN runtime.tables THEN runtime
    ELSE [runtime EXCEPT !.retained = @ - runtime.tables[table].reserved,
                         !.tables = Without(@, {table})]

CloseSourceOf(runtime, source) ==
    LET owned == {t \in DOMAIN runtime.tables : runtime.tables[t].source = source}
        released == runtime.sources[source].reserved
                    + SumOf([t \in owned |-> runtime.tables[t].reserved])
    IN  IF source \notin DOMAIN runtime.sources THEN runtime
        ELSE [runtime EXCEPT !.retained = Max({0, @ - released}),
                             !.sources = Without(@, {source}),
                             !.tables = Without(@, owned)]

=============================================================================
