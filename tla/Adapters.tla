------------------------------ MODULE Adapters ------------------------------
(***************************************************************************)
(* One Worker with one of the four adapter artifacts, called by a host     *)
(* that may do anything its handles allow, in any order: open, continue    *)
(* with right and wrong answers, open and close tables, cancel, close the  *)
(* source under a running operation, take a snapshot, shut down.           *)
(***************************************************************************)
EXTENDS DelimitedAdapter, ArrowAdapter, ParquetAdapter, ExcelAdapter

CONSTANT Formats

ASSUME FormatAssumption == Formats \subseteq {"delimited", "arrow", "parquet", "excel"}

Init ==
    /\ format \in Formats
    /\ operations = Empty
    /\ owners = Empty
    /\ sources = Empty
    /\ tables = Empty
    /\ retained = 0
    /\ lengths = Empty
    /\ decoders = Empty
    /\ books = Empty
    /\ next = [operation |-> 1, handle |-> 1, table |-> 1, book |-> 1]
    /\ done = {}
    /\ LedgerInit

Snapshot ==
    /\ ResourceSnapshot
    /\ UNCHANGED <<format, operations, owners, engine, lengths, decoders, books,
                   next, done>>

Shutdown == ShutdownState

Next ==
    \/ DelimitedNext
    \/ ArrowNext
    \/ ParquetNext
    \/ ExcelNext
    \/ Snapshot
    \/ Shutdown

Spec == Init /\ [][Next]_registry

-----------------------------------------------------------------------------
Handles == 1 .. MaxHandles

\* What the Worker calls a source handle.
HostSources == IF format = "excel" THEN DOMAIN books ELSE DOMAIN sources

(***************************************************************************)
(* The registry is well formed: an operation either waits for the answer   *)
(* to its current step or, in the Excel artifact only, has had its answer  *)
(* taken and refused.  A scan of delimited text and its operation agree on *)
(* the next byte, so that a completed open has seen every byte of its      *)
(* source exactly once.                                                    *)
(***************************************************************************)
RegistryInv ==
    /\ \A op \in DOMAIN operations :
          LET o == operations[op]
          IN  /\ op < next.operation
              /\ o.cursor.revision >= 1
              /\ ~o.cursor.awaiting => format = "excel" /\ o.cursor.outstanding = << >>
              /\ format = "delimited" =>
                    /\ o.cursor.outstanding = ReadAction(o.at, o.length)
                    /\ o.kind = "open" => o.at = sources[o.source].seen
    /\ \A s \in DOMAIN lengths \cap done : sources[s].seen = lengths[s]
    /\ \A h \in DOMAIN sources \cup DOMAIN tables \cup DOMAIN decoders :
          h < next.handle
    /\ DOMAIN sources \cap (DOMAIN tables \cup DOMAIN decoders) = {}

(***************************************************************************)
(* No source leaks: every source the Worker could close was handed to it,  *)
(* by the completed open or by the progress of an open that is still       *)
(* registered and will close it when it fails or is cancelled.             *)
(***************************************************************************)
SourcesReachable ==
    \A s \in HostSources :
        \/ s \in done
        \/ \E op \in DOMAIN operations :
              operations[op].kind = "open" /\ operations[op].source = s

(***************************************************************************)
(* Nothing outlives its owner.  An active decoder belongs to exactly one   *)
(* registered read and to a live scanner; the adapter's table map and the  *)
(* engine's tables are the same map with live sources; an operation never  *)
(* works on a closed source; every inner source of the Excel engine is     *)
(* held by one open sheet of one live book.  (Delimited text is the        *)
(* exception for tables and reads: a failed open closes the source under   *)
(* them and leaves them registered, wasm.rs cancel_pending.)               *)
(***************************************************************************)
OwnersLive ==
    CASE format = "delimited" ->
            /\ DOMAIN lengths = DOMAIN sources
            /\ \A r \in DOMAIN decoders :
                  /\ decoders[r] \in DOMAIN sources
                  /\ Cardinality({op \in DOMAIN operations :
                                    operations[op].range = r}) = 1
            /\ \A op \in DOMAIN operations : operations[op].kind = "open" =>
                  operations[op].source \in DOMAIN sources
      [] format = "excel" ->
            /\ DOMAIN owners = DOMAIN tables
            /\ \A t \in DOMAIN tables :
                  /\ tables[t].source = owners[t].source
                  /\ owners[t].book \in DOMAIN books
                  /\ owners[t].source \in books[owners[t].book].inner
            /\ DOMAIN sources = UNION {books[b].inner : b \in DOMAIN books}
            /\ \A s \in DOMAIN sources : Cardinality(TablesOf(s)) = 1
      [] OTHER ->
            /\ DOMAIN owners = DOMAIN tables
            /\ \A t \in DOMAIN tables :
                  /\ tables[t].source = owners[t].source
                  /\ tables[t].source \in DOMAIN sources
            /\ \A op \in DOMAIN operations :
                  /\ operations[op].source \in DOMAIN sources \cup {None}
                  /\ operations[op].kind = "read" =>
                        operations[op].table \in DOMAIN tables

(* Whatever is opened has a live owner, and the Worker can close it. *)
NoOrphans == OwnersLive /\ SourcesReachable

\* Scanners whose open has not got its first chunk: the others were weighed.
Unfed == {s \in DOMAIN sources \ done : sources[s].seen = 0}

(***************************************************************************)
(* retained_bytes is exactly what the live sources and tables weigh, after *)
(* every order of progressive growth, refused growth, close and cascade,   *)
(* and stays within the memory budget.  The scanners of delimited text stay *)
(* within the index budget together, but for the ones no chunk has reached *)
(* yet, which hold what a new scanner holds.                               *)
(***************************************************************************)
RetainedExact ==
    /\ format # "delimited" =>
          retained = SumOf(sources, SourceBytes) + SumOf(tables, TableBytes)
    /\ format = "delimited" =>
          /\ SumOf(Without(sources, Unfed), SourceBytes) <= IndexBudget
          /\ \A s \in Unfed : sources[s].bytes = ScannerBytes
    /\ retained <= BudgetBytes

=============================================================================
