-------------------------- MODULE DelimitedAdapter --------------------------
(***************************************************************************)
(* The delimited-text artifact: the WebAssembly facade (src/src/wasm.rs)   *)
(* over the scanner and range registry (src/src/runtime.rs).  A source is  *)
(* readable from the first step of its open on, so that tables and reads   *)
(* come and go while the scan still runs, fails or is cancelled.           *)
(***************************************************************************)
EXTENDS AdapterRegistry

CONSTANTS
    ChunkBytes,       \* bytes one step asks for (chunk_bytes)
    MaxActiveRanges,  \* decoders the runtime keeps (max_active_ranges)
    IndexBudget,      \* bytes all scanners may hold (index_budget_bytes)
    ScannerBytes      \* what a scanner holds before its first byte: a BOM's room

(* A step takes a byte at least, so a scan runs out of revisions only if   *)
(* its source has as many bytes as there are revisions and every step      *)
(* takes one: complete_revision would then leave the source behind.        *)
ASSUME ScanAssumption ==
    /\ ChunkBytes \in Nat \ {0} /\ MaxSafeInteger > 1
    /\ ChunkBytes > 1 \/ MaxSafeInteger \notin Lengths

ASSUME IndexAssumption == IndexBudget \in Nat /\ ScannerBytes \in Nat

\* read_action: the next bounded chunk and whether it reaches the end.
ReadAction(offset, length) ==
    LET rest == IF length - offset < ChunkBytes THEN length - offset
                                                ELSE ChunkBytes
    IN  <<ReadBytes(0, offset, rest)>>

\* The offset is not moved.
SameOffset(pending) == pending.at

\* Where a pending scan or read goes on after the chunk it waits for.
NextOffset(pending) == ActionEnd(ReadAction(pending.at, pending.length)[1])

-----------------------------------------------------------------------------
(***************************************************************************)
(* The runtime's registry.                                                 *)
(***************************************************************************)
\* Runtime::close_source: the scanner and every decoder on it.
CloseScanner(source) ==
    /\ sources' = Without(sources, {source})
    /\ decoders' = Without(decoders, {r \in DOMAIN decoders : decoders[r] = source})

\* cancel_pending of an open: the source goes, its tables stay registered.
DropOpen(op) ==
    /\ operations' = Without(operations, {op})
    /\ lengths' = Without(lengths, {operations[op].source})
    /\ CloseScanner(operations[op].source)
    /\ UNCHANGED done

\* Nothing is told to the runtime: its decoder stays.
DropReadOnly(op) ==
    /\ operations' = Without(operations, {op})
    /\ UNCHANGED <<sources, lengths, decoders, done>>

\* cancel_pending of a read.
DropRead(op) ==
    /\ operations' = Without(operations, {op})
    /\ decoders' = Without(decoders, {operations[op].range})
    /\ UNCHANGED <<sources, lengths, done>>

\* scan_chunk: the scanner takes the chunk that starts where it stopped and
\* adds to the index, whose budget is checked only after that.
ScanChunk(source, chunk, growth) ==
    [sources EXCEPT ![source].bytes = @ + growth, ![source].seen = @ + chunk.length]

-----------------------------------------------------------------------------
\* open_delimited: a new scanner already holds bytes, which the budget of the
\* index is not asked about before its first chunk.
DelimitedBeginOpen(length) ==
    /\ OperationFree /\ HandleFree(1)
    /\ Cardinality(DOMAIN sources) < MaxSources
    /\ next' = [next EXCEPT !.operation = @ + 1, !.handle = @ + 1]
    /\ LET actions == ReadAction(0, length)
           open    == Operation("open", next.handle, None, length,
                                Issue(NewCursor, actions))
       IN  IF CanIssue(NewCursor, actions)
           THEN /\ operations' = With(operations, next.operation, open)
                /\ sources' = With(sources, next.handle,
                                   [bytes |-> ScannerBytes, stream |-> TRUE, seen |-> 0])
                /\ lengths' = With(lengths, next.handle, length)
           ELSE UNCHANGED <<operations, sources, lengths>>
    /\ UNCHANGED <<owners, tables, retained, decoders, done>>

\* A step of the scan that was answered: one chunk more, or the end.
AdvanceScan(op, growth) ==
    LET pending == operations[op]
        cursor  == ConsumeResults(pending.cursor)
        at      == NextOffset(pending)
        actions == ReadAction(at, pending.length)
        chunk   == ReadAction(pending.at, pending.length)[1]
        index   == ScanChunk(pending.source, chunk, growth)
    IN  IF \/ chunk.offset # sources[pending.source].seen
           \/ SumOf(index, SourceBytes) > IndexBudget
        THEN DropOpen(op)
        ELSE IF at = pending.length
        THEN /\ operations' = Without(operations, {op})
             /\ sources' = index
             /\ done' = IF CanComplete(cursor) THEN done \cup {pending.source}
                                              ELSE done
             /\ UNCHANGED <<lengths, decoders>>
        ELSE IF CanIssue(cursor, actions)
        THEN /\ operations' = [operations EXCEPT
                   ![op].at = at, ![op].cursor = Issue(cursor, actions)]
             /\ sources' = index
             /\ UNCHANGED <<lengths, decoders, done>>
        ELSE DropOpen(op)

\* A step of a range read that was answered.  A decoder whose source is gone
\* is gone too, and feed_range refuses; at the end of the source it completes.
AdvanceRange(op) ==
    LET pending == operations[op]
        cursor  == ConsumeResults(pending.cursor)
        at      == NextOffset(pending)
        actions == ReadAction(at, pending.length)
    IN  \/ DropRead(op)
        \/ /\ pending.range \in DOMAIN decoders
           /\ at < pending.length
           /\ CanIssue(cursor, actions)
           /\ operations' = [operations EXCEPT
                 ![op].at = at, ![op].cursor = Issue(cursor, actions)]
           /\ UNCHANGED <<sources, lengths, decoders, done>>

\* continueOperation: an answer the cursor takes but whose end-of-file flag
\* is wrong ends the operation.
DelimitedContinue(op, revision, results) ==
    /\ ValidResults(operations[op].cursor, revision, results)
    /\ LET eof == EofMatches(results, operations[op].length)
       IN  CASE operations[op].kind = "open" ->
                  \/ DropOpen(op)
                  \/ eof /\ \E growth \in Weights : AdvanceScan(op, growth)
             [] operations[op].kind = "read" ->
                  IF eof THEN AdvanceRange(op) ELSE DropRead(op)
    /\ UNCHANGED <<owners, tables, retained, next>>

DelimitedOpenTable(source) ==
    /\ OperationFree
    /\ source \in DOMAIN sources
    /\ owners' = With(owners, next.table, [book |-> None, source |-> source])
    /\ next' = [next EXCEPT !.operation = @ + 1, !.table = @ + 1]
    /\ UNCHANGED <<operations, sources, tables, retained, lengths, decoders, done>>

\* beginRead: a plan that needs no bytes completes at once and leaves only
\* its handles behind.
DelimitedBeginRead(table, at) ==
    LET source  == owners[table].source
        actions == ReadAction(at, lengths[source])
        read    == [Operation("read", source, table, lengths[source],
                              Issue(NewCursor, actions))
                      EXCEPT !.range = next.handle, !.at = at]
    IN  /\ OperationFree /\ HandleFree(1)
        /\ source \in DOMAIN lengths \cap DOMAIN sources
        /\ Cardinality(DOMAIN decoders) < MaxActiveRanges
        /\ next' = [next EXCEPT !.operation = @ + 1, !.handle = @ + 1]
        /\ \/ /\ CanIssue(NewCursor, actions)
              /\ operations' = With(operations, next.operation, read)
              /\ decoders' = With(decoders, next.handle, source)
           \/ UNCHANGED <<operations, decoders>>
        /\ UNCHANGED <<owners, sources, tables, retained, lengths, done>>

DelimitedCancel(op) ==
    /\ op \in DOMAIN operations
    /\ IF operations[op].kind = "open" THEN DropOpen(op) ELSE DropRead(op)
    /\ UNCHANGED <<owners, tables, retained, next>>

DelimitedCloseTable(table) ==
    /\ operations' = Without(operations, ReadsOf(table))
    /\ decoders' = Without(decoders,
                           {operations[op].range : op \in ReadsOf(table)})
    /\ owners' = Without(owners, {table})
    /\ UNCHANGED <<sources, tables, retained, lengths, next, done>>

DelimitedCloseSource(source) ==
    /\ operations' = Without(operations, WorkOn(source))
    /\ owners' = Without(owners, OwnedBy(source))
    /\ lengths' = Without(lengths, {source})
    /\ CloseScanner(source)
    /\ UNCHANGED <<tables, retained, next, done>>

DelimitedNext ==
    /\ format = "delimited"
    /\ \/ \E length \in Lengths : DelimitedBeginOpen(length)
       \/ \E op \in DOMAIN operations :
             \/ DelimitedCancel(op)
             \/ \E revision \in 0 .. operations[op].cursor.revision,
                   results \in AnswersTo(operations[op].cursor,
                                         operations[op].length) :
                   DelimitedContinue(op, revision, results)
       \/ \E source \in 1 .. next.handle - 1 :
             \/ DelimitedOpenTable(source)
             \/ DelimitedCloseSource(source)
       \/ \E table \in DOMAIN owners :
             \/ DelimitedCloseTable(table)
             \/ /\ owners[table].source \in DOMAIN lengths
                /\ \E at \in 0 .. lengths[owners[table].source] :
                      DelimitedBeginRead(table, at)
    /\ UNCHANGED <<format, books, ledger>>

=============================================================================
