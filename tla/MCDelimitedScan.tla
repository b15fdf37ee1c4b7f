-------------------------- MODULE MCDelimitedScan --------------------------
(***************************************************************************)
(* Every source of up to MaxLength bytes over the structural classes, and  *)
(* sources with a byte order mark (whole, cut short, given twice, or where *)
(* a later record begins) and bad UTF-8.                                   *)
(***************************************************************************)
EXTENDS DelimitedScan

CONSTANT MaxLength

Structural == {Delim, Quote, CR, LF, Text}
Short == UNION {[1 .. n -> Structural] : n \in 0 .. MaxLength}
Marked == {BOM \o <<Text, LF, Text>>, BOM \o <<Quote, LF>>, BOM,
           BOM \o BOM \o <<Text, LF, Text>>, BOM \o BOM \o <<Quote, LF, Quote, LF>>,
           <<Text, LF>> \o BOM \o <<Quote, LF, Quote, LF, Text, LF>>,
           <<Text, LF, Text, CR, LF>> \o BOM \o <<Text, Delim>> \o BOM \o <<LF>>,
           <<"ef", "bb", LF, Text>>, <<"ef", Text, LF, Text>>, <<"ef", "bb">>,
           <<Text, CR, LF, LF, Invalid, Delim, Text, LF>>,
           <<Text, LF, Text, LF, Quote, LF, Quote, Delim, Text, LF, Text, LF>>}
MCContents == Short \cup Marked

Lenient == [header |-> TRUE, strict |-> FALSE, interval |-> 2, maxFieldBytes |-> 4,
            maxColumns |-> 3, maxCells |-> 6, maxBatchBytes |-> 24, maxDiagnostics |-> 1]
MCOptionSets == {Lenient,
                 [Lenient EXCEPT !.header = FALSE, !.interval = 1, !.maxFieldBytes = 2],
                 [Lenient EXCEPT !.strict = TRUE, !.header = FALSE, !.maxColumns = 2]}

Rectangle(row, rows, column, columns) ==
    [rowStart |-> row, rowCount |-> rows, columnStart |-> column, columnCount |-> columns]
MCRequests == {Rectangle(0, 2, 0, 1), Rectangle(1, 1, 0, 2), Rectangle(1, 2, 1, 1), Rectangle(2, 0, 0, 1)}
=============================================================================
