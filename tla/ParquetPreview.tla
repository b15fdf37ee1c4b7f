--------------------------- MODULE ParquetPreview ---------------------------
(***************************************************************************)
(* The bounded preview of a LIST column (FixedListPreviewScanner of        *)
(* src/src/parquet.rs): the pages of a column chunk carry repetition and   *)
(* definition levels and physical values as hybrid RLE streams; the        *)
(* scanner keeps, for each selected row, the first elements of its list    *)
(* and skips the rest of the list run by run.                              *)
(*                                                                         *)
(* Levels of a nullable list of nullable elements: definition 0 a null     *)
(* list, 1 an empty one, 2 a null element, 3 a value; repetition 0 starts  *)
(* a row.                                                                  *)
(***************************************************************************)
EXTENDS Integers, Sequences
LOCAL INSTANCE SequencesExt
LOCAL INSTANCE FiniteSetsExt

CONSTANTS
    CellBytes, ElementBytes,   \* what a retained cell and element are charged
    MaxListElements,
    PackedGroup                \* values in a group of a bit-packed run

MaxDefinition == 3

NullElement == -1

----------------------------------------------------------------------------
\* HybridRleDecoder: the values it may still give, the rest of the run it is
\* in and the runs that follow.  A run stands as the sequence of its values, a
\* bit-packed one with the padding of its last group.
Decoder(runs, count) == [left |-> count, run |-> <<>>, runs |-> runs, bad |-> FALSE]

EnsureRun(d) ==
    IF d.run # <<>> THEN d
    ELSE IF d.runs = <<>> THEN [d EXCEPT !.bad = TRUE]
    ELSE [d EXCEPT !.run = Head(d.runs), !.runs = Tail(d.runs)]

Advance(d, n) ==
    [d EXCEPT !.left = @ - n, !.run = SubSeq(@, n + 1, Len(@))]

\* consume_run: the longest prefix of equal values of the run it is in; count
\* is 0 at the end of the stream.
ConsumeRun(d, max) ==
    LET e == EnsureRun(d)
        available == Min({max, Len(e.run), e.left})
        same == Max({n \in 1 .. available : \A k \in 1 .. n : e.run[k] = e.run[1]})
    IN  IF max = 0 \/ d.left = 0 \/ e.bad
        THEN [value |-> 0, count |-> 0,
              next |-> IF max = 0 \/ d.left = 0 THEN d ELSE e]
        ELSE [value |-> e.run[1], count |-> same, next |-> Advance(e, same)]

RECURSIVE SkipRepeated(_, _, _)
SkipRepeated(d, expected, max) ==
    LET e == EnsureRun(d)
        run == ConsumeRun(d, max)
        rest == SkipRepeated(run.next, expected, max - run.count)
    IN  IF max = 0 \/ d.left = 0 THEN [count |-> 0, next |-> d]
        ELSE IF e.bad \/ e.run[1] # expected THEN [count |-> 0, next |-> e]
        ELSE [count |-> run.count + rest.count, next |-> rest.next]

\* Mutant: values are skipped within the current run only.
SkipValuesOfRun(d, n) ==
    LET e == EnsureRun(d)
    IN  IF n = 0 \/ e.bad THEN e
        ELSE Advance(e, Min({n, Len(e.run), e.left}))

RECURSIVE SkipValues(_, _)
SkipValues(d, n) ==
    LET e == EnsureRun(d)
        k == Min({n, Len(e.run), e.left})
    IN  IF n = 0 THEN d
        ELSE IF d.left = 0 \/ e.bad THEN [e EXCEPT !.bad = TRUE]
        ELSE SkipValues(Advance(e, k), n - k)

\* skip_fixed_list_preview_tail, its definition levels: how many of the
\* skipped elements have a physical value.
RECURSIVE SkipDefinitions(_, _, _)
SkipDefinitions(d, n, physical) ==
    LET run == ConsumeRun(d, n)
    IN  IF n = 0 THEN [physical |-> physical, next |-> d]
        ELSE IF run.count = 0 \/ run.value < MaxDefinition - 1
        THEN [physical |-> physical, next |-> [run.next EXCEPT !.bad = TRUE]]
        ELSE SkipDefinitions(run.next, n - run.count,
                             IF run.value = MaxDefinition
                             THEN physical + run.count ELSE physical)

----------------------------------------------------------------------------
\* A cell: none of an unselected row, a null list, or the elements kept.
NoCell == [kind |-> "none", values |-> <<>>, truncated |-> FALSE]
NullCell == [NoCell EXCEPT !.kind = "null"]
EmptyCell == [NoCell EXCEPT !.kind = "values"]

CanRetain(cell, max) == cell.kind = "values" /\ Len(cell.values) < max
Omit(cell) == IF cell.kind = "values" THEN [cell EXCEPT !.truncated = TRUE] ELSE cell

\* What one element's definition level does to its cell.
Observe(cell, definition, value, max) ==
    CASE cell.kind = "none" -> cell
      [] definition = 0 -> NullCell
      [] definition = 1 -> IF cell.kind = "null" THEN cell ELSE EmptyCell
      [] definition >= 2 /\ CanRetain(cell, max) ->
            [cell EXCEPT !.values = Append(@, IF definition = 2 THEN NullElement
                                              ELSE value)]
      [] OTHER -> Omit(cell)

NoRow == [index |-> -1, cell |-> NoCell]

\* A scanner of one row group: [selStart, selEnd, rows, row, active, dictionary].
NewScanner(selStart, selEnd, rows) ==
    [selStart |-> selStart, selEnd |-> selEnd, rows |-> rows, row |-> 0,
     active |-> NoRow, dictionary |-> <<>>]

Selected(scanner, row) == scanner.selStart <= row /\ row < scanner.selEnd

\* finish_active_preview_row
FinishRow(scanner, cells) ==
    IF Selected(scanner, scanner.active.index)
    THEN Append(cells, scanner.active.cell) ELSE cells

StartRow(scanner) ==
    [scanner EXCEPT
        !.row = @ + 1,
        !.active = [index |-> scanner.row,
                    cell |-> IF scanner.row >= scanner.selStart
                             THEN EmptyCell ELSE NoCell]]

\* A tail that nothing keeps: of an unselected row, or past the elements kept.
CanSkipTail(scanner, max) ==
    /\ scanner.active # NoRow
    /\ \/ scanner.active.cell.kind = "none"
       \/ scanner.active.cell.kind = "values"
          /\ ~CanRetain(scanner.active.cell, max)

----------------------------------------------------------------------------
\* process_fixed_list_preview_values: `left' elements of the page remain.
Page(scanner, cells, outcome) ==
    [scanner |-> scanner, cells |-> cells, outcome |-> outcome]

ValidContinuation(scanner, repetition, definition) ==
    /\ repetition = 1
    /\ scanner.active # NoRow
    /\ definition >= MaxDefinition - 1
    /\ scanner.active.cell.kind # "null"

RECURSIVE ProcessValues(_, _, _, _, _, _, _)
ProcessValues(scanner, cells, left, rep, def, values, max) ==
    LET tail == IF CanSkipTail(scanner, max) THEN SkipRepeated(rep, 1, left)
                ELSE [count |-> 0, next |-> rep]
        skippedDef == SkipDefinitions(def, tail.count, 0)
        skippedValues == SkipValues(values, skippedDef.physical)
        r == ConsumeRun(tail.next, 1)
        d == ConsumeRun(def, 1)
        finished == IF r.value = 0 THEN FinishRow(scanner, cells) ELSE cells
        entered == IF r.value = 0 THEN StartRow(scanner) ELSE scanner
        retain == CanRetain(entered.active.cell, max)
        v == ConsumeRun(values, 1)
        physical == d.value = MaxDefinition
        value == IF scanner.dictionary = <<>> THEN v.value
                 ELSE scanner.dictionary[v.value + 1]
        nextValues == IF ~physical THEN values
                      ELSE IF retain THEN v.next ELSE SkipValues(values, 1)
        badIndex == /\ physical /\ retain /\ scanner.dictionary # <<>>
                    /\ v.value + 1 \notin DOMAIN scanner.dictionary
    IN  IF left = 0 THEN Page(scanner, cells, "more")
        ELSE IF tail.count > 0
        THEN IF skippedDef.next.bad \/ skippedValues.bad
             THEN Page(scanner, cells, "bad")
             ELSE ProcessValues([scanner EXCEPT !.active.cell = Omit(@)], cells,
                                left - tail.count, tail.next, skippedDef.next,
                                skippedValues, max)
        ELSE IF r.count = 0 \/ d.count = 0 \/ d.value > MaxDefinition
        THEN Page(scanner, cells, "bad")
        ELSE IF r.value = 0 /\ scanner.row >= scanner.selEnd
        THEN Page(scanner, finished, "finished")
        ELSE IF r.value # 0 /\ ~ValidContinuation(scanner, r.value, d.value)
        THEN Page(scanner, cells, "bad")
        ELSE IF nextValues.bad \/ badIndex \/ (physical /\ retain /\ v.count = 0)
        THEN Page(scanner, cells, "bad")
        ELSE ProcessValues([entered EXCEPT
                              !.active.cell = Observe(@, d.value, value, max)],
                           finished, left - 1, r.next, d.next, nextValues, max)

----------------------------------------------------------------------------
\* What a writer makes of a stream: runs of equal values, or one bit-packed
\* run padded to a whole group.
RleRuns(stream) ==
    LET starts == {k \in DOMAIN stream : k = 1 \/ stream[k] # stream[k - 1]}
        order == SetToSortSeq(starts, LAMBDA a, b : a < b)
        stop(i) == IF i = Len(order) THEN Len(stream) ELSE order[i + 1] - 1
    IN  [i \in DOMAIN order |-> SubSeq(stream, order[i], stop(i))]

PackedRuns(stream) ==
    LET padding == (PackedGroup - (Len(stream) % PackedGroup)) % PackedGroup
    IN  IF stream = <<>> THEN <<>>
        ELSE <<stream \o [k \in 1 .. padding |-> 0]>>

Runs(stream, packing) ==
    IF packing = "rle" THEN RleRuns(stream) ELSE PackedRuns(stream)

\* The physical values of a page: indices into the dictionary, or the values
\* themselves.
PageValues(page) ==
    LET present == SelectSeq(page.levels, LAMBDA t : t.definition = MaxDefinition)
    IN  [k \in DOMAIN present |-> present[k].value]

Stream(page, field(_)) == [k \in DOMAIN page.levels |-> field(page.levels[k])]

\* process_fixed_list_preview_page
ProcessPage(scanner, cells, page, max) ==
    LET count == Len(page.levels)
        indices == [k \in DOMAIN PageValues(page) |->
                      (CHOOSE i \in DOMAIN scanner.dictionary :
                          scanner.dictionary[i] = PageValues(page)[k]) - 1]
        plain == [scanner EXCEPT !.dictionary = <<>>]
        decoded == ProcessValues(
            IF page.encoding = "dict" THEN scanner ELSE plain, cells, count,
            Decoder(Runs(Stream(page, LAMBDA t : t.repetition), page.packing), count),
            Decoder(Runs(Stream(page, LAMBDA t : t.definition), page.packing), count),
            IF page.encoding = "dict" THEN Decoder(Runs(indices, page.packing), count)
            ELSE Decoder(<<PageValues(page)>>, count),
            max)
    IN  IF page.kind = "dict"
        THEN IF page.encoding # "plain" THEN Page(scanner, cells, "unsupported")
             ELSE Page([scanner EXCEPT !.dictionary = page.values], cells, "more")
        ELSE IF page.encoding = "dict" /\ scanner.dictionary = <<>>
        THEN Page(scanner, cells, "bad")
        ELSE IF page.encoding \notin {"plain", "dict"}
        THEN Page(scanner, cells, "unsupported")
        ELSE [decoded EXCEPT !.scanner.dictionary = scanner.dictionary]

\* fixed_list_preview_element_limit: -1 when the cells alone are too many.
ElementLimit(rows, budget) ==
    IF rows * CellBytes > budget THEN -1
    ELSE IF rows = 0 THEN 0
    ELSE Min({MaxListElements,
              ((budget - rows * CellBytes) \div rows) \div ElementBytes})

=============================================================================
