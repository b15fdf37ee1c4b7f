--------------------------- MODULE ParquetAdapter ---------------------------
(***************************************************************************)
(* The Parquet artifact: its facade (crates/tabulark-parquet-wasm) over    *)
(* ParquetRuntime (src/src/parquet.rs).  An open is footer first, publishes*)
(* nothing before it is complete, and a read asks for several ranges in    *)
(* one step.                                                               *)
(***************************************************************************)
EXTENDS AdapterRegistry

ParquetBeginOpen(length, actions) ==
    /\ OperationFree
    /\ CanIssue(NewCursor, actions)
    /\ operations' = With(operations, next.operation,
                          Operation("open", None, None, length,
                                    Issue(NewCursor, actions)))
    /\ next' = TakeOperation
    /\ UNCHANGED <<owners, engine, done>>

\* The footer is decoded: the source is registered, or the budget refuses it
\* and the operation is lost with the error.
ParquetFinish(op, bytes) ==
    /\ operations' = Without(operations, {op})
    /\ IF EngineCanRegister(bytes)
       THEN /\ EngineRegister(bytes, FALSE)
            /\ done' = done \cup {next.handle}
       ELSE UNCHANGED <<sources, retained, next, done>>
    /\ UNCHANGED <<owners, tables>>

\* continueOperation: the operation leaves the registry before its engine is
\* fed, and comes back only with a new step.
ParquetContinue(op, revision, results) ==
    LET cursor == ConsumeResults(operations[op].cursor)
    IN  /\ ValidResults(operations[op].cursor, revision, results)
        /\ \/ /\ operations' = Without(operations, {op})
              /\ UNCHANGED <<owners, engine, next, done>>
           \/ /\ operations[op].kind = "open"
              /\ \E bytes \in Weights : ParquetFinish(op, bytes)
           \/ /\ WantsMore(cursor)
              /\ \E actions \in EngineSteps(operations[op].length) :
                    /\ operations[op].kind = "open" => Len(actions) = 1
                    /\ CanIssue(cursor, actions)
                    /\ operations' = [operations EXCEPT
                                        ![op].cursor = Issue(cursor, actions)]
              /\ UNCHANGED <<owners, engine, next, done>>

ParquetOpenTable(source) == EngineOpenTable(source)

\* beginRead: a range without rows completes at once.
ParquetBeginRead(table, length, actions) ==
    EngineBeginRead(table, TRUE, length, actions)

ParquetCancel(op) ==
    /\ operations' = Without(operations, {op})
    /\ UNCHANGED <<owners, engine, next, done>>

ParquetCloseTable(table) == EngineCloseTable(table)

ParquetCloseSource(source) == EngineCloseSource(source, WorkOn(source))

ParquetNext ==
    /\ format = "parquet"
    /\ \/ \E length \in Lengths : \E actions \in EngineSteps(length) :
             Len(actions) = 1 /\ ParquetBeginOpen(length, actions)
       \/ \E op \in DOMAIN operations :
             \/ ParquetCancel(op)
             \/ \E revision \in 0 .. operations[op].cursor.revision,
                   results \in AnswersTo(operations[op].cursor,
                                         operations[op].length) :
                   ParquetContinue(op, revision, results)
       \/ \E source \in DOMAIN sources :
             \/ ParquetOpenTable(source)
             \/ ParquetCloseSource(source)
       \/ \E table \in DOMAIN owners :
             \/ ParquetCloseTable(table)
             \/ \E length \in Lengths : \E actions \in EngineSteps(length) :
                   ParquetBeginRead(table, length, actions)
    /\ UNCHANGED <<format, lengths, decoders, books, ledger>>

=============================================================================
