------------------------------ MODULE MCExcel ------------------------------
(***************************************************************************)
(* Small documents: XLSX packages whose records and entries lie in every   *)
(* order, with a record signature inside the archive comment, a ZIP64 end  *)
(* record, relationships of every kind; legacy workbooks whose sectors are *)
(* read forwards and backwards, with a chart between the worksheets.  Each *)
(* document says what its worksheets hold (truth) and which errors it      *)
(* deserves (flaws).                                                       *)
(***************************************************************************)
EXTENDS ExcelBooks

MCLimits == [rows |-> 4, columns |-> 3, cells |-> 12, layout |-> 2, merged |-> 2,
             styled |-> 4, styles |-> 2, worksheets |-> 2, zipEntries |-> 8,
             entryBytes |-> 4, expandedBytes |-> 24, cfbEntries |-> 4, streamBytes |-> 20,
             warnings |-> 1, rangeCells |-> 6, batchBytes |-> 30,
             source |-> 12]
MCCost == [style |-> 2, styled |-> 1, axis |-> 1, region |-> 1]

Element(kind, row, first, last) ==
    [kind |-> kind, row |-> row, first |-> first, last |-> last, holds |-> 3,
     declared |-> 1, regions |-> <<>>, of |-> "none", active |-> TRUE]
Merge(region) == [Element("merge", 0, 0, 0) EXCEPT !.regions = <<region>>]
Starts(of) == [Element("bof", 0, 0, 0) EXCEPT !.of = of]

Cells(one, two) == (<<0, 0>> :> one) @@ (<<1, 1>> :> two)

\* Two worksheets: merged cells over a value, and cells past the dimension.
First == [elements |-> <<Element("dimension", 2, 0, 2), Element("row", 1, 0, 0),
                         Element("cells", 0, 0, 0), Element("columns", 0, 0, 1),
                         Merge(Region(0, 2, 1, 2))>>,
          cells |-> Cells(1, 2), formulas |-> <<0, 1>> :> 2]
Second == [elements |-> <<Element("dimension", 1, 0, 1), Element("pane", 1, 1, 0)>>,
           cells |-> Cells(0, 3), formulas |-> <<>>]
Truth(sheet, merged) ==
    [cells |-> sheet.cells, rows |-> 2, columns |-> 2, merged |-> merged]
MCTruth == <<Truth(First, <<Region(0, 2, 1, 2)>>), Truth(Second, <<>>)>>

----------------------------------------------------------------------------
Sheet(k) == <<"xl", "sheets", IF k = 1 THEN "one" ELSE "two">>
Rels == <<"xl", "_rels", "workbook">>
Styles == <<"xl", "styles">>

Entry(name, header, compressed) ==
    [name |-> name, header |-> header, compressed |-> compressed, expanded |-> 2,
     method |-> "deflated", encrypted |-> FALSE, large |-> FALSE, extra |-> None]
Local == [names |-> 1, method |-> "deflated", encrypted |-> FALSE]
\* An entry read as what it is not says nothing.
Content(fields) == fields @@ [EmptySheet EXCEPT !.expanded = 2]

End(entries, offset, size, comment) ==
    [entries |-> entries, offset |-> offset, size |-> size, comment |-> comment,
     disks |-> 1, large |-> FALSE, zip64 |-> None]

Relationship(id, kind, target) ==
    [id |-> id, kind |-> kind, external |-> FALSE,
     target |-> [absolute |-> FALSE, path |-> target]]
SheetRef(name, relationship) ==
    [name |-> name, relationship |-> relationship, visibility |-> "visible", worksheet |-> TRUE]

SheetRefs == <<SheetRef("a", 2), SheetRef("b", 1)>>
Relations == <<Relationship(1, "worksheet", <<"sheets", "two">>),
               Relationship(2, "worksheet", <<".", "sheets", "..", "sheets", "one">>),
               Relationship(3, "styles", <<"styles">>)>>

\* Headers at 0, 4, 8, 12, 16 and 21; the directory at 25, its end at 28, and
\* an archive comment that holds another signature.
Package ==
    [kind |-> "xlsx", hint |-> "auto", length |-> 33, flaws |-> {}, truth |-> MCTruth,
     paths |-> <<Types, Rels, Styles, Workbook, Sheet(1), Sheet(2)>>,
     ends |-> (28 :> End(6, 25, 3, 3)) @@ (30 :> End(1, 0, 1, 5)),
     central |-> 25 :> <<Entry(Sheet(2), 0, 1), Entry(Types, 4, 1), Entry(Workbook, 8, 1),
                         Entry(Rels, 12, 1), Entry(Sheet(1), 16, 2), Entry(Styles, 21, 1)>>,
     headers |-> [p \in {0, 4, 8, 12, 16, 21} |-> Local],
     parts |-> (3 :> Content(Second)) @@ (7 :> Content([content |-> "xlsx"]))
               @@ (11 :> Content([sheets |-> SheetRefs]))
               @@ (15 :> Content([relationships |-> Relations]))
               @@ (19 :> Content(First)) @@ (24 :> Content(EmptySheet))]

\* A large archive: the ZIP64 record lies before the end record.
Zip64Package ==
    [Package EXCEPT
        !.ends = 31 :> [End(1, 0, 1, 0) EXCEPT !.large = TRUE, !.zip64 =
                           [at |-> 28, length |-> 2, disks |-> 1, entries |-> 6,
                            entriesOnDisk |-> 6, offset |-> 25, size |-> 3]],
        !.central = 25 :> [@[25] EXCEPT ![5] = [@ EXCEPT !.large = TRUE, !.extra =
                           [header |-> 16, compressed |-> 2, expanded |-> 2]]]]

\* An entry that is there twice; a target no entry has; a sheet that is a chart.
DuplicatePackage ==
    [Package EXCEPT !.flaws = {"parse"},
                    !.central = 25 :> [@[25] EXCEPT ![6] = [@ EXCEPT !.name = Types]]]
LostPackage ==
    [Package EXCEPT !.flaws = {"parse"},
                    !.paths = <<Types, Rels, Styles, Workbook, <<"xl", "sheets", "lost">>,
                                Sheet(1), Sheet(2)>>,
                    !.parts = [@ EXCEPT ![15].relationships[1].target.path =
                                          <<"sheets", "lost">>]]
ChartPackage ==
    [Package EXCEPT !.parts = [@ EXCEPT ![15].relationships[1].kind = "chartsheet"]]

----------------------------------------------------------------------------
Bound(name, offset, sheet, worksheet) ==
    [name |-> name, offset |-> offset, worksheet |-> worksheet,
     cells |-> sheet.cells, formulas |-> sheet.formulas]

Records == <<Starts("globals"), Element("style", 0, 0, 0), Element("eof", 0, 0, 0),
             Starts("worksheet")>> \o First.elements \o
           <<Element("eof", 0, 0, 0), Starts("chart"), Element("eof", 0, 0, 0),
             Starts("worksheet")>> \o Second.elements \o <<Element("eof", 0, 0, 0)>>

Legacy ==
    [kind |-> "xls", hint |-> "xls", length |-> 12, flaws |-> {}, truth |-> MCTruth,
     reads |-> <<0, 3, 6, 10, 4>>, hasWorkbook |-> TRUE, entries |-> 2, streamBytes |-> 6,
     encrypted |-> FALSE, version |-> "biff8", records |-> Records,
     bound |-> <<Bound("a", 4, First, TRUE), Bound("chart", 11, Second, FALSE),
                 Bound("b", 13, Second, TRUE)>>]

\* The sector table lies behind sectors that are read after it.
Backwards == [Legacy EXCEPT !.reads = <<0, 8, 3, 7>>, !.flaws = {"overlap"}]

\* A source behind the last address there is.
Endless == [Legacy EXCEPT !.length = 41, !.flaws = {"limit"}]

MCFiles == {Package, Zip64Package, DuplicatePackage, LostPackage, ChartPackage, Legacy,
            Backwards, Endless}

Request(row, rows, column, columns) ==
    [row |-> row, rows |-> rows, column |-> column, columns |-> columns]
MCRequests == {Request(0, 2, 0, 2), Request(1, 3, 1, 1), Request(0, 1, 1, 2),
               Request(0, 4, 0, 2)}

=============================================================================
