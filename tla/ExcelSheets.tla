----------------------------- MODULE ExcelSheets -----------------------------
(***************************************************************************)
(* What an Excel workbook says of its sheets besides the values            *)
(* (WorkbookPresentation of presentation.rs), and the count of it that is  *)
(* taken of a legacy workbook before it is parsed (lib.rs).  A sheet is a  *)
(* sequence of elements: XML elements of an XLSX worksheet, records of a   *)
(* BIFF8 stream, with the fields                                           *)
(*   kind    dimension, cells, row, columns, merge, pane, style, bof, eof  *)
(*   row, first, last     the cells, the row or the columns it is about    *)
(*   holds, declared      how many items it has room for, and claims       *)
(*   regions, of          merged regions; the substream or style collection*)
(*   active               styled cells, a sized or hidden row or column,   *)
(*                        a frozen pane                                    *)
(***************************************************************************)
EXTENDS ExcelPackage

CONSTANTS
    Limits,   \* ExcelLimits
    Cost      \* the bytes reserved for a style, styled cell, axis entry, region

Regions == [top : Nat, bottom : Nat, left : Nat, right : Nat]
Elements == [kind : STRING, row : Nat, first : Nat, last : Nat, holds : Nat,
             declared : Nat, regions : Seq(Regions), of : STRING, active : BOOLEAN]

ASSUME CostAssumption ==
    Cost \in [style : Nat, styled : Nat, axis : Nat, region : Nat]

NewLayout == [rows |-> 0, columns |-> 0, axisRows |-> {}, axisColumns |-> {},
              styles |-> {}, merged |-> <<>>, frozen |-> <<0, 0>>]

\* validate_sheet_shape, update_layout_extent
FitsGrid(rows, columns) ==
    /\ rows <= Limits.rows
    /\ columns <= Limits.columns
    /\ rows * columns <= Limits.cells

Extend(layout, rows, columns) ==
    LET wide == [layout EXCEPT !.rows = Max({@, rows}), !.columns = Max({@, columns})]
    IN  IF ~FitsGrid(rows, columns) \/ ~FitsGrid(wide.rows, wide.columns)
        THEN Refused("limit") ELSE Found(wide)

\* apply_xlsx_cell_style and the cell records of BIFF8: the extent grows
\* also for a cell without a style.
ApplyCells(layout, e) ==
    LET wide == Extend(layout, e.row + 1, e.last + 1)
        styled == IF e.active THEN {<<e.row, c>> : c \in e.first .. e.last} ELSE {}
        styles == layout.styles \cup styled
    IN  IF e.last < e.first THEN Refused("parse")
        ELSE IF wide.error # "ok" THEN wide
        ELSE IF e.last - e.first + 1 > e.holds THEN Refused("parse")
        ELSE IF Cardinality(styles) > Limits.styled THEN Refused("limit")
        ELSE Found([wide.value EXCEPT !.styles = styles])

ApplyRow(layout, e) ==
    LET rows == layout.axisRows \cup (IF e.active THEN {e.row} ELSE {})
    IN  IF e.row >= Limits.rows \/ Cardinality(rows) > Limits.layout
        THEN Refused("limit") ELSE Found([layout EXCEPT !.axisRows = rows])

ApplyColumns(layout, e, format) ==
    LET columns == layout.axisColumns \cup (IF e.active THEN e.first .. e.last ELSE {})
    IN  IF e.last < e.first THEN Refused(IF format = "xls" THEN "limit" ELSE "parse")
        ELSE IF e.last >= Limits.columns THEN Refused("limit")
        ELSE IF Cardinality(columns) > Limits.layout THEN Refused("limit")
        ELSE Found([layout EXCEPT !.axisColumns = columns])

Region(top, bottom, left, right) ==
    [top |-> top, bottom |-> bottom, left |-> left, right |-> right]

ApplyRegion(layout, region) ==
    LET wide == Extend(layout, region.bottom, region.right)
    IN  IF Len(layout.merged) >= Limits.merged THEN Refused("limit")
        ELSE IF region.top >= region.bottom \/ region.left >= region.right THEN Found(layout)
        ELSE IF wide.error # "ok" THEN wide
        ELSE Found([wide.value EXCEPT !.merged = Append(@, region)])

\* The regions of one element, until one is refused.
ApplyMerge(result, region) ==
    IF result.error = "ok" THEN ApplyRegion(result.value, region) ELSE result
ApplyRegions(layout, e) ==
    FoldLeft(ApplyMerge, Found(layout), SubSeq(e.regions, 1, Min({e.declared, Len(e.regions)})))

ApplyElement(layout, e, format) ==
    CASE e.kind = "dimension" -> Extend(layout, e.row, e.last)
      [] e.kind = "cells" -> ApplyCells(layout, e)
      [] e.kind = "row" -> ApplyRow(layout, e)
      [] e.kind = "columns" -> ApplyColumns(layout, e, format)
      [] e.kind = "merge" -> ApplyRegions(layout, e)
      [] e.kind = "pane" ->
            Found(IF format = "xls" \/ e.active
                  THEN [layout EXCEPT !.frozen = <<e.row, e.first>>] ELSE layout)
      [] e.kind = "truncated" -> Refused("parse")
      [] OTHER -> Found(layout)

\* Elements apply in their order until one is refused.
LayoutNext(result, e, format) ==
    IF result.error = "ok" THEN ApplyElement(result.value, e, format) ELSE result

\* parse_xlsx_worksheet
SheetLayout(elements, format) ==
    FoldLeft(LAMBDA result, e : LayoutNext(result, e, format), Found(NewLayout), elements)

\* parse_biff8_worksheet: the records from an offset to the next EOF record.
Substream(records, offset) ==
    LET ends == {k \in offset .. Len(records) : records[k].kind = "eof"}
    IN  SubSeq(records, offset, IF ends = {} THEN Len(records) ELSE Min(ends) - 1)

BiffLayout(records, offset) ==
    IF offset > Len(records) THEN Refused("parse")
    ELSE SheetLayout(Substream(records, offset), "xls")

----------------------------------------------------------------------------
\* merged_non_anchor_mask: the cells of a range whose value is suppressed.
\* The regions of the range must not overlap in it.
InRegion(region, cell) ==
    /\ cell[1] \in region.top .. region.bottom - 1
    /\ cell[2] \in region.left .. region.right - 1

NonAnchors(merged, cells) ==
    LET owners(cell) == {k \in 1 .. Len(merged) : InRegion(merged[k], cell)}
        anchor(k) == <<merged[k].top, merged[k].left>>
    IN  IF \E cell \in cells : Cardinality(owners(cell)) > 1 THEN Refused("parse")
        ELSE Found({cell \in cells : \E k \in owners(cell) : anchor(k) # cell})

----------------------------------------------------------------------------
\* biff8_presentation_reservation: a count of the records of every sheet,
\* within the limits of one sheet, before any is parsed.
NewCounts ==
    [error |-> "ok", globals |-> TRUE, sheet |-> FALSE, kinds |-> <<>>,
     styled |-> 0, rows |-> 0, columns |-> 0, merged |-> 0,
     allStyled |-> 0, allAxes |-> 0, allMerged |-> 0]

FailedCount(counts, error) == [counts EXCEPT !.error = error]
Within(counts, used, limit) == IF used > limit THEN FailedCount(counts, "limit") ELSE counts

CountStyle(counts, e) ==
    LET now == (IF e.of \in DOMAIN counts.kinds THEN counts.kinds[e.of] ELSE 0) + 1
    IN  Within([counts EXCEPT !.kinds = With(@, e.of, now)], now, Limits.styles)

\* biff8_styled_cells_in_record
CountCells(counts, e) ==
    LET items == e.last - e.first + 1
    IN  IF e.last < e.first \/ items > e.holds THEN FailedCount(counts, "parse")
        ELSE Within([counts EXCEPT !.styled = @ + items, !.allStyled = @ + items],
                    counts.styled + items, Limits.styled)

CountColumns(counts, e) ==
    LET items == e.last - e.first + 1
    IN  IF e.last < e.first THEN FailedCount(counts, "parse")
        ELSE Within([counts EXCEPT !.columns = @ + items, !.allAxes = @ + items],
                    counts.columns + items, Limits.layout)

CountInSheet(counts, e) ==
    CASE e.kind = "cells" -> CountCells(counts, e)
      [] e.kind = "row" -> Within([counts EXCEPT !.rows = @ + 1, !.allAxes = @ + 1],
                                  counts.rows + 1, Limits.layout)
      [] e.kind = "columns" -> CountColumns(counts, e)
      [] e.kind = "merge" ->
            IF e.declared > Len(e.regions) THEN FailedCount(counts, "parse")
            ELSE Within([counts EXCEPT !.merged = @ + e.declared, !.allMerged = @ + e.declared],
                        counts.merged + e.declared, Limits.merged)
      [] OTHER -> counts

\* A BOF outside the globals opens a substream, an EOF ends it.
CountRecord(counts, e) ==
    IF counts.error # "ok" THEN counts
    ELSE IF e.kind = "truncated" THEN FailedCount(counts, "parse")
    ELSE IF e.kind = "bof" /\ ~counts.globals THEN
            [counts EXCEPT !.sheet = (e.of = "worksheet"),
                           !.styled = 0, !.rows = 0, !.columns = 0, !.merged = 0]
    ELSE IF e.kind = "eof" THEN [counts EXCEPT !.globals = FALSE, !.sheet = FALSE]
    ELSE IF counts.globals THEN IF e.kind = "style" THEN CountStyle(counts, e) ELSE counts
    ELSE IF counts.sheet THEN CountInSheet(counts, e)
    ELSE counts

PresentationCounts(records) == FoldLeft(CountRecord, NewCounts, records)

PresentationBytes(counts) ==
    SumOf(counts.kinds) * Cost.style
    + counts.allStyled * Cost.styled + counts.allAxes * Cost.axis
    + counts.allMerged * Cost.region

\* WorkbookPresentation::retained_bytes, of the layouts of a workbook.
RetainedByLayout(layout) ==
    Cardinality(layout.styles) * Cost.styled
    + (Cardinality(layout.axisRows) + Cardinality(layout.axisColumns)) * Cost.axis
    + Len(layout.merged) * Cost.region

=============================================================================
