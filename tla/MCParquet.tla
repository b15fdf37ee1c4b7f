------------------------------ MODULE MCParquet ------------------------------
(***************************************************************************)
(* Small Parquet files and reads of them: two columns of flat pages in two *)
(* row groups, odd pages, a column of lists cut into pages anywhere, and   *)
(* limits that stage whole chunks, scan page by page or refuse.            *)
(***************************************************************************)
EXTENDS ParquetRead
LOCAL INSTANCE SequencesExt
LOCAL INSTANCE FiniteSetsExt

Flat(kind, head, body, rows, decoded) ==
    [kind |-> kind, head |-> head, body |-> body, rows |-> rows,
     decoded |-> decoded, levels |-> <<>>, packing |-> "rle",
     encoding |-> "plain", values |-> <<>>, at |-> 0]

Row(kind, elements) == [kind |-> kind, elements |-> elements]

\* The levels of a row of a list column.
RowLevels(row) ==
    LET triple(k, d, v) == [repetition |-> IF k = 1 THEN 0 ELSE 1,
                            definition |-> d, value |-> v]
    IN  CASE row.kind = "null" -> <<triple(1, 0, 0)>>
          [] row.elements = <<>> -> <<triple(1, 1, 0)>>
          [] OTHER -> [k \in DOMAIN row.elements |->
                         IF row.elements[k] = NullElement THEN triple(k, 2, 0)
                         ELSE triple(k, 3, row.elements[k])]

ListPage(levels, packing, encoding, decoded) ==
    [Flat("data", 2, 3, Len(SelectSeq(levels, LAMBDA t : t.repetition = 0)), decoded)
        EXCEPT !.levels = levels, !.packing = packing, !.encoding = encoding]

Dictionary == [Flat("dict", 2, 3, 0, 3) EXCEPT !.values = <<4, 3, 2, 1>>]

\* The pages of a list chunk, its levels cut after each of the given counts.
ListPages(rows, cuts, packing, encoding, decoded) ==
    LET levels == FlattenSeq([k \in DOMAIN rows |-> RowLevels(rows[k])])
        ends == SetToSortSeq(cuts \cup {Len(levels)}, LAMBDA a, b : a < b)
        from(k) == IF k = 1 THEN 1 ELSE ends[k - 1] + 1
    IN  (IF encoding = "dict" THEN <<Dictionary>> ELSE <<>>)
        \o [k \in DOMAIN ends |->
              ListPage(SubSeq(levels, from(k), ends[k]), packing, encoding, decoded)]

----------------------------------------------------------------------------
\* The pages of a file, one after the other behind the leading magic.
RECURSIVE Placed(_, _)
Placed(list, at) ==
    IF list = <<>> THEN <<>>
    ELSE <<[Head(list) EXCEPT !.at = at]>>
         \o Placed(Tail(list), at + Head(list).head + Head(list).body)

Bytes(list) == FoldSeq(LAMBDA p, sum : sum + p.head + p.body, 0, list)

\* groups: a sequence of [rows, chunks], a chunk the sequence of its pages.
FileOf(groups, kinds, lists) ==
    LET before(g, c) ==
            FlattenSeq([k \in 1 .. g - 1 |-> FlattenSeq(groups[k].chunks)])
            \o FlattenSeq(SubSeq(groups[g].chunks, 1, c - 1))
        placed(g, c) == Placed(groups[g].chunks[c], HeaderBytes + Bytes(before(g, c)))
        all == FlattenSeq([g \in DOMAIN groups |-> FlattenSeq(groups[g].chunks)])
        chunk(g, c) == [pages |-> placed(g, c),
                        uncompressed |-> FoldSeq(LAMBDA p, sum : sum + p.head + p.decoded,
                                                 0, placed(g, c))]
    IN  [length |-> HeaderBytes + Bytes(all) + 2 + FooterBytes, footer |-> 2,
         memory |-> 4, magic |-> "good", leading |-> "good", features |-> "supported", cellBytes |-> 1,
         kinds |-> kinds, lists |-> lists,
         groups |-> [g \in DOMAIN groups |->
                       [rows |-> groups[g].rows,
                        chunks |-> [c \in DOMAIN groups[g].chunks |-> chunk(g, c)]]],
         pages |-> UNION {UNION {ToSet(placed(g, c)) : c \in DOMAIN groups[g].chunks}
                            : g \in DOMAIN groups}]

FlatFile ==
    FileOf(<<[rows |-> 3,
              chunks |-> << <<Flat("dict", 2, 2, 0, 3), Flat("data", 2, 3, 2, 4),
                              Flat("data", 2, 2, 1, 3)>>,
                            <<Flat("data", 3, 3, 3, 4)>> >>],
             [rows |-> 2,
              chunks |-> << <<Flat("data", 2, 2, 1, 3), Flat("data", 2, 3, 1, 3)>>,
                            <<Flat("data", 2, 4, 2, 9)>> >>]>>,
           <<"flat", "flat">>, <<>>)

OddFile ==
    FileOf(<<[rows |-> 4,
              chunks |-> << <<Flat("data", 2, 3, 1, 4), Flat("index", 2, 1, 0, 0),
                              Flat("data", 2, 0, 1, 0), Flat("data", 3, 4, 1, 5),
                              Flat("data", 2, 3, 1, 4)>> >>]>>,
           <<"flat">>, <<>>)

Lists == <<Row("list", <<1, 2, 3>>), Row("null", <<>>), Row("list", <<>>),
           Row("list", <<NullElement, 4, 2>>)>>

ListFile(cuts, packing, encoding, decoded) ==
    FileOf(<<[rows |-> 4,
              chunks |-> << ListPages(Lists, cuts, packing, encoding, decoded),
                            <<Flat("data", 2, 3, 2, 4), Flat("data", 2, 3, 2, 4)>> >>]>>,
           <<"list", "flat">>, Lists)

----------------------------------------------------------------------------
Limits(operation, decoded, prefetch) ==
    [source |-> 100, metadata |-> 8, operation |-> operation, decoded |-> decoded,
     prefetch |-> prefetch, batch |-> 2, cells |-> 16, groups |-> 2, columns |-> 2,
     rows |-> 5, step |-> 100, ranges |-> 2, minAttempts |-> 8,
     maxAttempts |-> 30, perWindow |-> 4]

Ask(file1, request, display, limits1) ==
    [file |-> file1, request |-> request, display |-> display, limits |-> limits1]

FlatScenarios ==
    {Ask(FlatFile, CellRange(r, n, c, k), FALSE, Limits(o, d, p)) :
        r \in 0 .. 6, n \in {1, 2, 5}, c \in 0 .. 1, k \in 1 .. 2,
        o \in {16, 40, 90}, d \in {5, 8, 40}, p \in {8, 12}}

OddScenarios ==
    {Ask(OddFile, CellRange(r, n, 0, 1), FALSE, Limits(o, d, p)) :
        r \in 0 .. 3, n \in {1, 2}, o \in {16, 40, 90}, d \in {5, 40}, p \in {8, 12}}

ListScenarios ==
    {Ask(ListFile(cuts, packing, encoding, decoded), CellRange(r, n, 0, 2), display,
         Limits(o, d, 8)) :
        cuts \in {{}, {2}, {3, 5}, {1, 4, 7}}, packing \in {"rle", "packed"},
        encoding \in {"plain", "dict", "delta"}, decoded \in {4, 30},
        r \in 0 .. 3, n \in {1, 2}, display \in BOOLEAN,
        o \in {40, 90}, d \in {20, 200}}

\* Files that do not open, each at another step of the open.
DamagedFiles ==
    {[FlatFile EXCEPT !.magic = "encrypted"], [FlatFile EXCEPT !.magic = "damaged"],
     [FlatFile EXCEPT !.leading = "damaged"],
     [FlatFile EXCEPT !.features = "unsupported"]}
DamagedScenarios ==
    {Ask(f, CellRange(0, 2, 0, 1), FALSE, Limits(40, 40, 8)) : f \in DamagedFiles}
    \cup {Ask(FlatFile, CellRange(0, 2, 0, 1), FALSE,
              [Limits(40, 40, 8) EXCEPT !.source = FlatFile.length - 1])}

MCScenarios == FlatScenarios \cup OddScenarios \cup ListScenarios \cup DamagedScenarios

----------------------------------------------------------------------------
\* The cell a preview of a row should show.
Cell(row, max) ==
    IF row.kind = "null" THEN NullCell
    ELSE [kind |-> "values", values |-> SubSeq(row.elements, 1, Min({max, Len(row.elements)})),
          truncated |-> Len(row.elements) > max]

Exact(page) == [k \in 1 .. page.body |-> BodyOf(page).offset + k - 1]

\* Every page that holds a selected row of a column that was decoded.
WantedPages ==
    UNION {UNION {
        LET list == file.groups[g].chunks[c].pages
        IN  {list[i] : i \in {j \in DOMAIN list :
                LET from == GroupStart(file, g) + RowsBefore(list, j)
                IN  /\ list[j].kind = "data"
                    /\ from < RowsEnd(plan.range)
                    /\ from + list[j].rows > plan.range.rowStart}}
        : c \in StandardColumns} : g \in plan.groups}

\* A read that completes gives its rows and nothing else: the decoder got, of
\* every page that holds one of them, the bytes of its body as they are in the
\* file, and a previewed row shows the first elements of its list, whatever the
\* pages and runs it was cut into.
ReadExact ==
    phase = "done" /\ plan # NoPlan =>
        /\ \A page \in WantedPages : \E k \in DOMAIN delivered :
              delivered[k].at = page.at /\ delivered[k].bytes = Exact(page)
        /\ \A k \in DOMAIN scanners : ~scanners[k].fallback =>
              scanners[k].cells =
                  [i \in 1 .. plan.range.rows |->
                      Cell(file.lists[plan.range.rowStart + i], scanners[k].max)]

\* No byte of the file is fetched twice for one read, although every attempt
\* decodes from the first page again.
FetchedOnce ==
    phase = "reading" => Positions(expected) \cap fetched = {}

\* A header of the file is cached in part: its first bytes end what is cached.
HeaderCut ==
    \E page \in pages :
        /\ page.at \in Cached(reader.segments)
        /\ ~(Positions(Action(page.at, page.head)) \subseteq Cached(reader.segments))

\* A read of a well-formed file fails for its size or for the request: the reader
\* never loses a page, and chunks staged ahead cover what the decoder wants.
\* Reads whose cached bytes end inside a page header are excluded: they may fail
\* with PARSE_FAILED (LateRowReadable).
RefusedForSize ==
    phase = "failed" /\ file \notin DamagedFiles /\ ~HeaderCut =>
        outcome \in {"limit", "tracking", "invalid"}

\* The same of every read, which the code does not do: a page header at the end
\* of a fetched window is taken for a malformed one.
LateRowReadable ==
    phase = "failed" /\ file \notin DamagedFiles =>
        outcome \in {"limit", "tracking", "invalid"}
=============================================================================
