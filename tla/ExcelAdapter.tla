---------------------------- MODULE ExcelAdapter ----------------------------
(***************************************************************************)
(* The Excel artifact: its facade (crates/tabulark-excel-wasm/src/wasm.rs) *)
(* over ExcelRuntime (src/lib.rs of that crate).  What the Worker calls a  *)
(* source is a "book", a set of byte ranges fetched so far; the engine     *)
(* sees one small inner source per opened worksheet, rebuilt from those    *)
(* ranges, so two registries must be closed together.                      *)
(***************************************************************************)
EXTENDS AdapterRegistry

ExcelSource(bytes) == [bytes |-> bytes, stream |-> FALSE, seen |-> 0]

\* An operation whose answer was taken by the cursor and then refused goes
\* back into the registry as it is: nothing can continue it any more.
ExcelKeepConsumed(op) ==
    /\ operations' = [operations EXCEPT ![op].cursor = ConsumeResults(@)]
    /\ UNCHANGED <<owners, engine, books, next, done>>

ExcelDropOperation(op) ==
    /\ operations' = Without(operations, {op})
    /\ UNCHANGED <<owners, engine, books, next, done>>

-----------------------------------------------------------------------------
\* beginOpen asks for the eight bytes of the container's signature.
ExcelBeginOpen(length) ==
    LET actions == <<ReadBytes(0, 0, 1)>>
    IN  /\ OperationFree
        /\ length >= 1
        /\ CanIssue(NewCursor, actions)
        /\ operations' = With(operations, next.operation,
                              Operation("open", None, None, length,
                                        Issue(NewCursor, actions)))
        /\ next' = TakeOperation
        /\ UNCHANGED <<owners, engine, books, done>>

\* The end of advance_open: the book is registered.  A legacy workbook is
\* opened in the engine once, to list its sheets, and closed again.
ExcelFinishOpen(op, bytes, xlsx) ==
    /\ xlsx \/ EngineCanRegister(bytes)
    /\ operations' = Without(operations, {op})
    /\ books' = With(books, next.book,
                     [bytes |-> operations[op].fed, inner |-> {}, xlsx |-> xlsx])
    /\ next' = [next EXCEPT !.book = @ + 1,
                            !.handle = IF xlsx THEN @ ELSE @ + 1]
    /\ done' = done \cup {next.book}
    /\ UNCHANGED <<owners, engine>>

\* issue_open_ranges, or the next ZIP entry of a worksheet.
ExcelIssue(op, fed, actions) ==
    LET cursor == ConsumeResults(operations[op].cursor)
    IN  /\ CanIssue(cursor, actions)
        /\ operations' = [operations EXCEPT
              ![op] = [@ EXCEPT !.fed = fed, !.cursor = Issue(cursor, actions)]]

\* open_compact_table: an inner source, its one table, and the two map
\* entries; a table that does not open takes the inner source with it.
ExcelOpenCompact(kept, book, inner, sheet) ==
    /\ EngineCanRegister(inner + sheet) /\ HandleFree(2)
    /\ sources' = With(sources, next.handle, ExcelSource(inner))
    /\ tables' = With(tables, next.handle + 1,
                      [source |-> next.handle, bytes |-> sheet])
    /\ retained' = retained + inner + sheet
    /\ books' = [kept EXCEPT ![book].inner = @ \cup {next.handle}]
    /\ owners' = With(owners, next.handle + 1,
                      [book |-> book, source |-> next.handle])

\* The worksheet did not open: the inner source is closed, its handle spent.
ExcelCompactFails(kept, inner) ==
    /\ EngineCanRegister(inner)
    /\ books' = kept
    /\ UNCHANGED <<owners, engine>>

\* beginOpenTable: a legacy sheet opens at once, an XLSX sheet may have to
\* fetch its entries first.
ExcelBeginOpenTable(book, length, inner, sheet, actions) ==
    /\ OperationFree
    /\ book \in DOMAIN books
    /\ UNCHANGED done
    /\ \/ /\ ExcelOpenCompact(books, book, inner, sheet)
          /\ next' = [next EXCEPT !.operation = @ + 1, !.handle = @ + 2]
          /\ UNCHANGED operations
       \/ /\ ExcelCompactFails(books, inner)
          /\ next' = [next EXCEPT !.operation = @ + 1, !.handle = @ + 1]
          /\ UNCHANGED operations
       \/ /\ books[book].xlsx
          /\ CanIssue(NewCursor, actions)
          /\ operations' = With(operations, next.operation,
                                Operation("openTable", book, None, length,
                                          Issue(NewCursor, actions)))
          /\ next' = TakeOperation
          /\ UNCHANGED <<owners, engine, books>>

-----------------------------------------------------------------------------
ExcelContinueOpen(op) ==
    LET fed == operations[op].fed + 1
    IN  \/ ExcelDropOperation(op)
        \/ \E bytes \in Weights, xlsx \in BOOLEAN : ExcelFinishOpen(op, bytes, xlsx)
        \/ /\ WantsMore(operations[op].cursor)
           /\ ExcelIssue(op, fed, <<ReadBytes(0, operations[op].length - 1, 1)>>)
           /\ UNCHANGED <<owners, engine, books, next, done>>

\* The ranges of a worksheet are kept by its book.
ExcelContinueTable(op) ==
    LET book == operations[op].source
        kept == [books EXCEPT ![book].bytes = @ + 1]
    IN  \/ /\ operations' = Without(operations, {op})
           /\ books' = kept
           /\ UNCHANGED <<owners, engine, next, done>>
        \/ /\ WantsMore(operations[op].cursor)
           /\ ExcelIssue(op, 0, <<ReadBytes(0, operations[op].length - 1, 1)>>)
           /\ books' = kept
           /\ UNCHANGED <<owners, engine, next, done>>
        \/ \E inner, sheet \in Weights :
              /\ operations' = Without(operations, {op})
              /\ \/ /\ ExcelOpenCompact(kept, book, inner, sheet)
                    /\ next' = [next EXCEPT !.handle = @ + 2]
                 \/ /\ ExcelCompactFails(kept, inner)
                    /\ next' = [next EXCEPT !.handle = @ + 1]
              /\ UNCHANGED done

ExcelContinue(op, revision, results) ==
    /\ ValidResults(operations[op].cursor, revision, results)
    /\ IF \/ ~EofMatches(results, operations[op].length)
          \/ operations[op].kind = "openTable"
               /\ operations[op].source \notin DOMAIN books
       THEN ExcelKeepConsumed(op)
       ELSE IF operations[op].kind = "open" THEN ExcelContinueOpen(op)
                                            ELSE ExcelContinueTable(op)

ExcelCancel(op) == ExcelDropOperation(op)

\* closeTable: the sheet, then the inner source that was built for it.
ExcelCloseTable(table) ==
    LET owner == owners[table]
    IN  /\ EngineClose(owner.source)
        /\ owners' = Without(owners, {table})
        /\ books' = IF owner.book \in DOMAIN books
                    THEN [books EXCEPT ![owner.book].inner = @ \ {owner.source}]
                    ELSE books
        /\ UNCHANGED <<operations, next, done>>

\* closeSource: the book, its sheets and their inner sources; a worksheet
\* that is still being opened stays registered.
ExcelCloseSource(book) ==
    LET inner  == books[book].inner
        closed == {t \in DOMAIN tables : tables[t].source \in inner}
    IN  /\ book \in DOMAIN books
        /\ books' = Without(books, {book})
        /\ owners' = Without(owners, {t \in DOMAIN owners : owners[t].book = book})
        /\ sources' = Without(sources, inner)
        /\ tables' = Without(tables, closed)
        /\ retained' = retained - SumOf(Restrict(sources, inner), SourceBytes)
                                - SumOf(Restrict(tables, closed), TableBytes)
        /\ UNCHANGED <<operations, next, done>>

\* beginRead, beginMetadata, beginPresentation and beginPresentationRange
\* complete at once and leave only a used operation handle.
ExcelRead(table) ==
    /\ OperationFree
    /\ table \in DOMAIN tables
    /\ next' = TakeOperation
    /\ UNCHANGED <<operations, owners, engine, books, done>>

ExcelNext ==
    /\ format = "excel"
    /\ \/ \E length \in Lengths : ExcelBeginOpen(length)
       \/ \E op \in DOMAIN operations :
             \/ ExcelCancel(op)
             \/ \E revision \in 0 .. operations[op].cursor.revision,
                   results \in AnswersTo(operations[op].cursor,
                                         operations[op].length) :
                   ExcelContinue(op, revision, results)
       \/ \E book \in DOMAIN books :
             \/ ExcelCloseSource(book)
             \/ \E inner, sheet \in Weights, length \in Lengths :
                   \E actions \in EngineSteps(length) :
                      /\ Len(actions) = 1
                      /\ ExcelBeginOpenTable(book, length, inner, sheet, actions)
       \/ \E table \in DOMAIN owners :
             \/ ExcelCloseTable(table)
             \/ ExcelRead(table)
    /\ UNCHANGED <<format, lengths, decoders, ledger>>

=============================================================================
