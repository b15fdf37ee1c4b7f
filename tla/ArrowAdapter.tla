---------------------------- MODULE ArrowAdapter ----------------------------
(***************************************************************************)
(* The Arrow artifact: its facade (crates/tabulark-arrow-wasm/src/lib.rs)  *)
(* over ArrowIpcRuntime (src/src/arrow.rs).  An IPC File becomes a source  *)
(* when its index is complete and is read through byte actions; an IPC     *)
(* Stream is published under a stable handle as soon as its schema is      *)
(* known, grows with every step, and answers reads at once.                *)
(***************************************************************************)
EXTENDS AdapterRegistry

\* The whole stream is charged again.
StreamTotal(source, fed) == fed

\* append_incremental_stream: what is charged is the difference to the
\* published prefix.
StreamGrowth(source, fed) == fed - sources[source].bytes

ArrowAppend(source, fed) ==
    /\ sources' = [sources EXCEPT ![source].bytes = fed]
    /\ retained' = retained + StreamGrowth(source, fed)
    /\ UNCHANGED next

\* close_pending_open, with the operation already out of the registry.
ArrowDropOpen(op) ==
    /\ operations' = Without(operations, {op})
    /\ owners' = Without(owners, OwnedBy(operations[op].source))
    /\ EngineClose(operations[op].source)
    /\ UNCHANGED <<next, done>>

-----------------------------------------------------------------------------
\* beginOpen: the operation has no source yet.
ArrowBeginOpen(length, actions) ==
    /\ OperationFree
    /\ CanIssue(NewCursor, actions)
    /\ operations' = With(operations, next.operation,
                          Operation("open", None, None, length,
                                    Issue(NewCursor, actions)))
    /\ next' = TakeOperation
    /\ UNCHANGED <<owners, engine, done>>

\* The engine finished: the index of a File, or the last part of a Stream.
ArrowFinish(op, fed, stream) ==
    LET source == operations[op].source
    IN  /\ operations' = Without(operations, {op})
        /\ IF source = None
           THEN EngineCanRegister(fed) /\ EngineRegister(fed, stream)
           ELSE Fits(StreamGrowth(source, fed)) /\ ArrowAppend(source, fed)
        /\ done' = done \cup {IF source = None THEN next.handle ELSE source}
        /\ UNCHANGED <<owners, tables>>

\* The engine wants another step; a Stream publishes what it has decoded.
ArrowProgress(op, fed, publish, actions) ==
    LET pending == operations[op]
        cursor  == ConsumeResults(pending.cursor)
        source  == IF publish /\ pending.source = None THEN next.handle
                                                       ELSE pending.source
    IN  /\ CanIssue(cursor, actions)
        /\ operations' = [operations EXCEPT
              ![op] = [@ EXCEPT !.source = source, !.fed = fed,
                                !.cursor = Issue(cursor, actions)]]
        /\ IF ~publish
           THEN UNCHANGED <<sources, retained, next>>
           ELSE IF pending.source = None
           THEN EngineCanRegister(fed) /\ EngineRegister(fed, TRUE)
           ELSE Fits(StreamGrowth(source, fed)) /\ ArrowAppend(source, fed)
        /\ UNCHANGED <<owners, tables, done>>

ArrowContinueOpen(op) ==
    LET pending == operations[op]
        stream  == pending.source # None
    IN  \/ ArrowDropOpen(op)
        \/ \E growth \in Weights :
              LET fed == pending.fed + growth
              IN  \/ \E kind \in BOOLEAN :
                        /\ stream => kind
                        /\ ArrowFinish(op, fed, kind)
                  \/ /\ WantsMore(pending.cursor)
                     /\ \E actions \in EngineSteps(pending.length) :
                           ArrowProgress(op, fed, TRUE, actions)
        \/ /\ WantsMore(pending.cursor)
           /\ \E actions \in EngineSteps(pending.length) :
                 ArrowProgress(op, pending.fed, FALSE, actions)

\* A read that fails or completes is out of the registry either way.
ArrowContinueRead(op) ==
    LET cursor == ConsumeResults(operations[op].cursor)
    IN  /\ \/ operations' = Without(operations, {op})
           \/ /\ WantsMore(cursor)
              /\ \E actions \in EngineSteps(operations[op].length) :
                    /\ CanIssue(cursor, actions)
                    /\ operations' = [operations EXCEPT
                                        ![op].cursor = Issue(cursor, actions)]
        /\ UNCHANGED <<owners, engine, next, done>>

ArrowContinue(op, revision, results) ==
    /\ ValidResults(operations[op].cursor, revision, results)
    /\ IF operations[op].kind = "open" THEN ArrowContinueOpen(op)
                                       ELSE ArrowContinueRead(op)

-----------------------------------------------------------------------------
ArrowCancel(op) ==
    IF operations[op].kind = "open" THEN ArrowDropOpen(op)
    ELSE /\ operations' = Without(operations, {op})
         /\ UNCHANGED <<owners, engine, next, done>>

ArrowOpenTable(source) == EngineOpenTable(source)

\* beginRead: a Stream, or a range without rows, completes at once.
ArrowBeginRead(table, length, actions) ==
    EngineBeginRead(table, ~sources[owners[table].source].stream, length, actions)

ArrowCloseTable(table) == EngineCloseTable(table)

\* The open that published the source goes with it.
ArrowCloseSource(source) == EngineCloseSource(source, WorkOn(source))

ArrowNext ==
    /\ format = "arrow"
    /\ \/ \E length \in Lengths : \E actions \in EngineSteps(length) :
             ArrowBeginOpen(length, actions)
       \/ \E op \in DOMAIN operations :
             \/ ArrowCancel(op)
             \/ \E revision \in 0 .. operations[op].cursor.revision,
                   results \in AnswersTo(operations[op].cursor,
                                         operations[op].length) :
                   ArrowContinue(op, revision, results)
       \/ \E source \in DOMAIN sources :
             \/ ArrowOpenTable(source)
             \/ ArrowCloseSource(source)
       \/ \E table \in DOMAIN owners :
             \/ ArrowCloseTable(table)
             \/ \E length \in Lengths : \E actions \in EngineSteps(length) :
                   ArrowBeginRead(table, length, actions)
    /\ UNCHANGED <<format, lengths, decoders, books, ledger>>

=============================================================================
