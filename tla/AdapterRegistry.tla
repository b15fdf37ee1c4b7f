-------------------------- MODULE AdapterRegistry --------------------------
(***************************************************************************)
(* What every adapter artifact keeps between two calls of the Worker: the  *)
(* registry of unfinished operations, its own map from tables to sources,  *)
(* and the engine runtime it wraps with that runtime's sources, tables and *)
(* byte count.  The four artifacts (DelimitedAdapter, ArrowAdapter,        *)
(* ParquetAdapter, ExcelAdapter) are different programs over this state;   *)
(* a Worker loads one of them.                                             *)
(*                                                                         *)
(* Contents are abstract: a source or a table weighs some bytes, an engine *)
(* that is fed may fail, ask for more or finish.  Handles, cursors and the *)
(* bookkeeping of every error path are exact.                              *)
(***************************************************************************)
EXTENDS ResourceLedger, Integers, Sequences, FiniteSets, SequencesExt, Functions

-----------------------------------------------------------------------------
(***************************************************************************)
(* The step protocol between the Worker and an adapter artifact            *)
(* (src/src/protocol.rs).  An operation issues a step: a revision and at   *)
(* most MaxStepRanges byte ranges.  The Worker answers the whole step at   *)
(* once; the answer is taken only when it names the current revision and   *)
(* covers exactly the ranges that were asked for, and it is taken once.    *)
(***************************************************************************)

CONSTANTS
    MaxStepRanges,     \* MAX_OPERATION_RANGES_PER_STEP (32)
    MaxSafeInteger,    \* the largest integer JavaScript represents exactly
    OperationBudget    \* source bytes one step may ask for

ASSUME ProtocolAssumption ==
    /\ MaxStepRanges \in Nat \ {0}
    /\ MaxSafeInteger \in Nat \ {0}
    /\ OperationBudget \in Nat

-----------------------------------------------------------------------------
ReadBytes(index, offset, length) ==
    [index |-> index, offset |-> offset, length |-> length]

ActionEnd(action) == action.offset + action.length

TotalLength(actions) == FoldSeq(LAMBDA a, sum : sum + a.length, 0, actions)

\* validate_operation_actions
ValidActions(actions) ==
    /\ Len(actions) <= MaxStepRanges
    /\ \A i, j \in DOMAIN actions :
          actions[i].index = actions[j].index => i = j
    /\ \A i \in DOMAIN actions : ActionEnd(actions[i]) <= MaxSafeInteger
    /\ TotalLength(actions) <= OperationBudget

NewCursor == [revision |-> 0, outstanding |-> << >>, awaiting |-> FALSE]

NextRevisionFits(cursor) == cursor.revision < MaxSafeInteger

CanIssue(cursor, actions) ==
    ~cursor.awaiting /\ ValidActions(actions) /\ NextRevisionFits(cursor)

Issue(cursor, actions) ==
    [revision |-> cursor.revision + 1, outstanding |-> actions, awaiting |-> TRUE]

CanComplete(cursor) == ~cursor.awaiting /\ NextRevisionFits(cursor)

\* One result answers the outstanding action of its index, range for range.
Answers(result, cursor) ==
    \E i \in DOMAIN cursor.outstanding :
        LET action == cursor.outstanding[i]
        IN  /\ action.index = result.index
            /\ action.offset = result.offset
            /\ action.length = result.length

\* validate_results
ValidResults(cursor, revision, results) ==
    /\ revision = cursor.revision
    /\ cursor.awaiting
    /\ Len(results) = Len(cursor.outstanding)
    /\ \A i, j \in DOMAIN results : results[i].index = results[j].index => i = j
    /\ \A i \in DOMAIN results : Answers(results[i], cursor)

ConsumeResults(cursor) == [cursor EXCEPT !.outstanding = << >>, !.awaiting = FALSE]

-----------------------------------------------------------------------------

CONSTANTS
    MaxSources,      \* sources one runtime may hold (max_sources)
    Weights,         \* bytes a source or a table may weigh
    OperationBytes,  \* the estimate for one registered operation
    Lengths,         \* lengths of the sources that are opened
    MaxOperations,   \* bound: operation handles the Worker makes use of
    MaxHandles,      \* bound: source, range and table handles
    MaxSteps         \* bound: steps an abstract engine takes per operation

(* safe_u64: a source is as long as a JavaScript integer can say.          *)
ASSUME RegistryAssumption ==
    /\ Weights \subseteq Nat /\ OperationBytes \in Nat
    /\ Lengths \subseteq 0 .. MaxSafeInteger

VARIABLES
    format,      \* the artifact this Worker loaded
    operations,  \* operation handle -> unfinished operation
    owners,      \* the adapter's map: table handle -> [book, source]
    sources,     \* the engine's sources: handle -> [bytes, stream, seen]
    tables,      \* the engine's tables: handle -> [source, bytes]
    retained,    \* the engine's retained_bytes counter
    next,        \* the handle counters
    lengths,     \* delimited text: source_lengths, source -> its length
    decoders,    \* delimited text: the engine's active ranges, range -> source
    books,       \* Excel: range_sources, book -> [bytes, inner, xlsx]
    done         \* history: sources whose open operation completed

engine == <<sources, tables, retained>>

registry == <<format, operations, owners, engine, lengths, decoders, books,
              next, done, ledger>>

-----------------------------------------------------------------------------
None == 0

Empty == << >>

Without(f, S) == Restrict(f, DOMAIN f \ S)

With(f, key, value) == [x \in DOMAIN f \cup {key} |->
                           IF x = key THEN value ELSE f[x]]

SumOf(f, weight(_)) ==
    FoldSet(LAMBDA x, sum : weight(f[x]) + sum, 0, DOMAIN f)

SourceBytes(source) == source.bytes

TableBytes(table) == table.bytes

\* Handles are counters and never come back (allocate_operation,
\* allocate_handle).
OperationFree == next.operation <= MaxOperations

HandleFree(n) == next.handle + n <= MaxHandles + 1

TakeOperation == [next EXCEPT !.operation = @ + 1]

\* at: the next byte a sequential scan asks for; fed: bytes a progressive
\* engine has decoded so far.
Operation(kind, source, table, length, cursor) ==
    [kind |-> kind, source |-> source, table |-> table, range |-> None,
     at |-> 0, fed |-> 0, length |-> length, cursor |-> cursor]

ReadsOf(table) ==
    {op \in DOMAIN operations : operations[op].kind = "read"
                                  /\ operations[op].table = table}

\* The operations a closed source takes with it.
WorkOn(source) == {op \in DOMAIN operations : operations[op].source = source}

TablesOf(source) == {t \in DOMAIN tables : tables[t].source = source}

OwnedBy(source) == {t \in DOMAIN owners : owners[t].source = source}

Fits(bytes) == retained + bytes <= BudgetBytes

-----------------------------------------------------------------------------
(***************************************************************************)
(* The engine runtime behind the columnar artifacts: sources with a byte   *)
(* count, and tables that point at them.                                   *)
(***************************************************************************)
EngineCanRegister(bytes) ==
    /\ Cardinality(DOMAIN sources) < MaxSources
    /\ Fits(bytes)
    /\ HandleFree(1)

EngineRegister(bytes, stream) ==
    /\ sources' = With(sources, next.handle, [bytes |-> bytes, stream |-> stream, seen |-> 0])
    /\ retained' = retained + bytes
    /\ next' = [next EXCEPT !.handle = @ + 1]

\* Closing a handle that is not open changes nothing.
EngineClose(source) ==
    IF source \in DOMAIN sources
    THEN /\ sources' = Without(sources, {source})
         /\ tables' = Without(tables, TablesOf(source))
         /\ retained' = retained - sources[source].bytes
                           - SumOf(Restrict(tables, TablesOf(source)), TableBytes)
    ELSE UNCHANGED engine

\* The engine's table and the adapter's map entry; the call completes at
\* once and uses up an operation handle.
EngineOpenTable(source) ==
    /\ OperationFree /\ HandleFree(1)
    /\ source \in DOMAIN sources
    /\ tables' = With(tables, next.handle, [source |-> source, bytes |-> 0])
    /\ owners' = With(owners, next.handle, [book |-> None, source |-> source])
    /\ next' = [next EXCEPT !.operation = @ + 1, !.handle = @ + 1]
    /\ UNCHANGED <<operations, sources, retained, done>>

EngineBeginRead(table, lazy, length, actions) ==
    /\ OperationFree
    /\ table \in DOMAIN tables
    /\ owners[table].source \in DOMAIN sources
    /\ next' = TakeOperation
    /\ \/ /\ lazy
          /\ CanIssue(NewCursor, actions)
          /\ operations' = With(operations, next.operation,
                                Operation("read", owners[table].source, table,
                                          length, Issue(NewCursor, actions)))
       \/ UNCHANGED operations
    /\ UNCHANGED <<owners, engine, done>>

EngineCloseTable(table) ==
    /\ operations' = Without(operations, ReadsOf(table))
    /\ owners' = Without(owners, {table})
    /\ tables' = Without(tables, {table})
    /\ UNCHANGED <<sources, retained, next, done>>

EngineCloseSource(source, work) ==
    /\ operations' = Without(operations, work)
    /\ owners' = Without(owners, OwnedBy(source))
    /\ EngineClose(source)
    /\ UNCHANGED <<next, done>>

-----------------------------------------------------------------------------
(***************************************************************************)
(* The answers a Worker can send to an operation: the right one, in any    *)
(* order, and what a confused or late host sends instead.                  *)
(***************************************************************************)
Right(cursor, sourceLength) ==
    [i \in DOMAIN cursor.outstanding |->
        LET a == cursor.outstanding[i]
        IN  [index |-> a.index, offset |-> a.offset, length |-> a.length,
             eof |-> ActionEnd(a) = sourceLength]]

AnswersTo(cursor, sourceLength) ==
    LET right == Right(cursor, sourceLength)
    IN  {right, Reverse(right),
         [i \in DOMAIN right |-> [right[i] EXCEPT !.eof = ~@]],
         [i \in DOMAIN right |-> [right[i] EXCEPT !.offset = @ + 1]],
         [i \in DOMAIN right |-> [right[i] EXCEPT !.index = 0]],
         << >>}

\* Steps an engine may ask for that is not modelled here: one range, or two.
EngineSteps(length) ==
    {<<ReadBytes(0, length - 1, 1)>>}
      \cup {<<ReadBytes(0, 0, 1), ReadBytes(1, 1, 1)>> : n \in 2 .. length}

WantsMore(cursor) == cursor.revision < MaxSteps

EofMatches(results, sourceLength) ==
    \A i \in DOMAIN results :
        results[i].eof = (results[i].offset + results[i].length = sourceLength)

-----------------------------------------------------------------------------
(***************************************************************************)
(* resourceSnapshot, the same in all four artifacts: two replacements, the *)
(* second only after the first was admitted.                               *)
(***************************************************************************)
RetainedBytes ==
    CASE format = "delimited" -> SumOf(sources, SourceBytes)
      [] format = "excel"     -> retained + SumOf(books, SourceBytes)
      [] OTHER                -> retained

ActiveBytes == Cardinality(DOMAIN operations) * OperationBytes

ResourceSnapshot ==
    LET persistent == Replace(ledger, "persistent", RetainedBytes)
        both       == Replace(persistent.ledger, "active", ActiveBytes)
    IN  ledger' = IF persistent.ok THEN both.ledger ELSE persistent.ledger

\* shutdown: every map is emptied; the counters and the evidence stay.
ShutdownState ==
    /\ operations' = Empty
    /\ owners' = Empty
    /\ sources' = Empty
    /\ tables' = Empty
    /\ retained' = 0
    /\ lengths' = Empty
    /\ decoders' = Empty
    /\ books' = Empty
    /\ ledger' = ReleaseAll(ledger)
    /\ UNCHANGED <<format, next, done>>

=============================================================================
