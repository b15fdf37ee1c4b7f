----------------------------- MODULE ParquetPlan -----------------------------
(***************************************************************************)
(* What a Parquet read decides before it fetches a byte (src/src/          *)
(* parquet.rs): the part of the request inside the table, the row groups   *)
(* and the column chunks it crosses, and whether the chunks are staged     *)
(* whole or their pages are discovered one by one.                         *)
(*                                                                         *)
(* A file is [length, footer, memory, groups, pages]: the decoded size of  *)
(* its metadata, the row groups [rows, chunks], a chunk per leaf column    *)
(* [pages, uncompressed], and the set of all pages [at, head, body, rows,  *)
(* decoded, kind, ...].                                                    *)
(***************************************************************************)
EXTENDS ParquetGuard
LOCAL INSTANCE SequencesExt
LOCAL INSTANCE FiniteSetsExt

CellRange(rowStart, rows, colStart, cols) ==
    [rowStart |-> rowStart, rows |-> rows, colStart |-> colStart, cols |-> cols]

TotalRows(file) ==
    FoldSeq(LAMBDA group, sum : sum + group.rows, 0, file.groups)
TotalColumns(file) ==
    IF file.groups = <<>> THEN 0 ELSE Len(file.groups[1].chunks)

Less(a, b) == IF a > b THEN a - b ELSE 0      \* saturating_sub

\* plan_range: what is returned is the request cut to the table.
PlanRange(file, request, maxCells) ==
    LET rows == Min({request.rows, Less(TotalRows(file), request.rowStart)})
        cols == Min({request.cols, Less(TotalColumns(file), request.colStart)})
        planned(error) ==
            [error |-> error,
             range |-> CellRange(request.rowStart, rows, request.colStart, cols)]
    IN  IF request.rows * request.cols > maxCells THEN planned("limit")
        ELSE IF \/ request.rowStart > TotalRows(file)
                \/ request.colStart > TotalColumns(file)
        THEN planned("invalid")
        ELSE planned("ok")

\* projected_source_columns
SourceColumns(range) == range.colStart + 1 .. range.colStart + range.cols

----------------------------------------------------------------------------
GroupStart(file, g) ==
    FoldSeq(LAMBDA group, sum : sum + group.rows, 0, SubSeq(file.groups, 1, g - 1))
GroupEnd(file, g) == GroupStart(file, g) + file.groups[g].rows

RowsEnd(range) == range.rowStart + range.rows

RowGroups(file, range) ==
    {g \in DOMAIN file.groups :
        GroupStart(file, g) < RowsEnd(range) /\ GroupEnd(file, g) > range.rowStart}

FullySelected(file, range, g) ==
    range.rowStart <= GroupStart(file, g) /\ GroupEnd(file, g) <= RowsEnd(range)

ChunkRange(chunk) ==
    LET sizes == FoldSeq(LAMBDA page, sum : sum + page.head + page.body, 0, chunk.pages)
    IN  Action(chunk.pages[1].at, sizes)

\* coalesce_source_ranges: in the order of their offsets, those that touch
\* made one; a gap is never filled.
Coalesce(ranges) ==
    LET bytes == UNION {Positions(range) : range \in ranges}
        starts == {p \in bytes : p - 1 \notin bytes}
        stop(p) == Min({q \in p .. Max(bytes) + 1 : q \notin bytes})
        order == SetToSortSeq(starts, LAMBDA a, b : a < b)
    IN  [k \in DOMAIN order |-> Action(order[k], stop(order[k]) - order[k])]

ChunkRanges(file, groups, columns) ==
    {ChunkRange(file.groups[g].chunks[c]) : g \in groups, c \in columns}

Uncompressed(file, groups, columns) ==
    FoldSet(LAMBDA at, sum : sum + file.groups[at[1]].chunks[at[2]].uncompressed,
            0, groups \X columns)

\* plan_projected_ranges
PlanProjected(file, range, columns, limits) ==
    LET groups == RowGroups(file, range)
        full == {g \in groups : FullySelected(file, range, g)}
        all == ChunkRanges(file, groups, columns)
        ranges == Coalesce(all)
        staged == [error |-> "ok", ranges |-> ranges, groups |-> groups,
                   lazy |-> FALSE,
                   skip |-> IF groups = {} THEN 0
                            ELSE range.rowStart - GroupStart(file, Min(groups))]
    IN  IF \E chunk \in all : ActionEnd(chunk) > file.length
        THEN [staged EXCEPT !.error = "parse"]
        ELSE IF /\ Uncompressed(file, groups, columns) <= limits.decoded
                /\ Length(ranges) <= limits.operation
        THEN staged
        ELSE IF \/ full = groups
                \/ Uncompressed(file, full, columns) > limits.decoded
                \/ Length(Coalesce(ChunkRanges(file, full, columns)))
                     > limits.operation
        THEN [staged EXCEPT !.error = "limit"]
        ELSE [staged EXCEPT !.ranges = <<>>, !.lazy = TRUE]

----------------------------------------------------------------------------
\* max_lazy_decode_attempts: how often a lazy read may start its decode over.
AttemptLimit(file, limits) ==
    LET windows == (file.length + limits.prefetch - 1) \div limits.prefetch
    IN  Max({limits.minAttempts,
             Min({limits.maxAttempts, limits.perWindow * windows + 8})})

=============================================================================
