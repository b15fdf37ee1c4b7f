# TLA+ models of Tabulark

Tabulark previews large tabular files (CSV/TSV, Parquet, Arrow, Excel) in a
browser. A TypeScript engine on the main thread talks to a module Worker; the
Worker runs WebAssembly adapters built from Rust. On the TypeScript side what can
go wrong is rarely in one function: it is in the order of messages,
continuations, cancellations and closes. On the Rust side every engine is an
incremental reader: it sees its file in pieces the host chooses, may be cancelled
or closed between any two of them, and works under byte budgets everywhere. This
directory models both, checks them with TLC and proves the parts the rest leans
on with TLAPS.

## 1. The system

### 1.1 Parts, their state and their operations

| Part | Source | State | Operations |
| --- | --- | --- | --- |
| Engine and sessions | `js/client.ts` | open sessions, table handles, metadata revision, decoded-batch cache, range flights, source readers | `open`, `readRange`, `closeTable`, `closeSession`, `close`, events of the Worker |
| Worker RPC client | `js/rpc-client.ts` | pending requests, timeouts | `request`, abort, timeout, answer, shutdown, runtime failure |
| Source readers | `js/client.ts` | one reader per remote source, its concurrency limiter, the engine's staging limiter | source-read, source-read-cancel, source-close, provider answers |
| Byte LRU and retained budget | `js/range-cache.ts`, `js/client.ts` | cached batches, retained HTTP bodies | get, set, trim, retain |
| Worker request loop | `js/worker.ts` | datasets, tables, `activeRequests`, range slots, background scans | `openSource`, `readRange`, `cancel`, `closeTable`, `closeSource` |
| Permit queue | `js/range-cache.ts` | active count, waiters | `acquire`, `cancel`, release closure |
| Adapter operation driver | `js/worker.ts`, `js/model.ts`, `js/worker/blob-source-accessor.ts` | memory reservation ledger, leases, Blob reads under way | reserve, read local or remote, detach, release |
| Worker source accessors | `js/worker/source-accessor.ts` | broker requests, in-flight ranges, byte LRU, provider permits | `read`, `readMany`, `close`, broker messages |
| Operation protocol | `src/protocol.rs` | the cursor of an operation: revision, expected byte ranges | issue, validate, complete |
| Resource ledger | `src/resource.rs` | charges by category, high-water mark, reclaimed bytes | admit, replace, release, reclaim |
| WASM adapters | `src/wasm.rs`, `crates/tabulark-{arrow,parquet,excel}-wasm` | operations, tables, sources, the engine's own registry | begin, continue, cancel, closeTable, closeSource, shutdown |
| Delimited engine | `src/csv.rs`, `src/runtime.rs` | scanner state, quote tracker, checkpoints, range decoders | push a chunk, begin and feed a range |
| Arrow engine | `src/arrow.rs` | framing position, dictionaries, index of blocks, published batches | open steps, stream deltas, range reads, display encoding |
| Parquet engine | `src/parquet.rs` | sparse byte cache, page guard, plan of a read, list preview | open, plan, fetch and retry, decode, preview |
| Excel engine | `crates/tabulark-excel-wasm/src` | indexed ranges, ZIP directory, sheets, registry of workbooks | open by phase, open a worksheet, read, close |
| HTTP source | `js/http.ts` | validators, fallback body | probe, read |
| Table view | `js/view/*` | viewport, tiles, selection | scroll, prefetch, draw |
| Preview packages | `packages/*` | embedded viewers | user interface |

### 1.2 How they interact

- Main thread and Worker exchange messages over ordered channels. A request is
  answered once; a cancel is a message of its own and may cross the answer.
- The Worker reads a remote source by asking the main thread (`source-read`),
  which calls the application's provider and posts the bytes back.
- In each thread, code between two `await`s runs alone. A task (a message, a
  settled read, a call of the application) resolves promises, and their
  continuations run as microtasks before the next task. All hard behaviour comes
  from what is decided before an `await` and used after it.
- Shared state inside a thread: permit queue, range slots, ledger, in-flight
  ranges, byte LRU in the Worker; flights, cache and limiters on the main thread.
- An adapter never does I/O. `begin` and `continue` return a *step*: byte ranges
  to fetch, or a result. The Worker's operation driver fetches them and calls
  `continue` with the answers; the cursor of the operation says whether they are
  the answers to the current step. Rust code runs to completion inside a call, so
  a call is one action, and everything else (cancel, close, another operation's
  steps) may happen between two calls.

### 1.3 What is hard, and what makes each part correct

| Part | Hard behaviour | What must hold |
| --- | --- | --- |
| Permit queue | cancel and release around a grant | permits neither lost nor forged, FIFO, no lost wakeup |
| Range scheduler | a close or failure while a request waits for the index, waits for a permit or reads | every slot, permit and operation comes back; nobody is stranded; no batch of a closed table |
| Operation driver | Blob reads cannot be aborted, so memory outlives its step | the ledger is exact; every pending read is covered; everything is released in the end |
| Source readers | cancel, provider failure, close and engine stop against two limiters in a row | limiters exact, user code bounded whatever has died meanwhile, close once, nobody waits for free capacity |
| Range accessor | reads join, leave, cancel and outlive shared ranges; LRU eviction under their feet | no byte fetched twice, only wanted work runs, every read settles |
| Range flights | joining, leaving and settling around aborts, closes, revisions, Worker death | one request per key, independent cancellation, no stale rows, every call settles |
| Open and sessions | dataset ends before `open()` has returned; late readers | handles and slots reclaimed once, settle once |
| Adapters | progressive publication; wrong, late and partial answers; close under a running operation; refusal by the ledger in the middle of a growth | every handle has an owner that lives, retained bytes are the sum of what is there, nothing is charged twice |
| Delimited engine | chunks that end inside CRLF, a doubled quote, a byte order mark; reads while the scan goes on | index and rows are those of the whole text, whatever the chunking |
| Arrow engine | chunks that end anywhere in a frame; readers between two deltas; display budgets shared out by rounding | batches are exactly those of the stream, applied once, and a display batch fits its limit |
| Parquet engine | a decoder restarted from its first page whenever a byte is missing; pages released and skipped; lists cut into pages anywhere | rows exact, no byte fetched twice, a healthy read fails only for a limit or the request |
| Excel engine | several worksheets opened at once over one set of ranges; a ZIP directory to be found from its end | sheets and batches are the document's, reservations exact, sound documents open |

`PROJECT.json` lists each hazard at its line with the properties that cover it.

## 2. Modules

In the TypeScript models one action is one task of an event loop or one
continuation. A predicate `Quiet` says that no continuation is scheduled; tasks
are guarded by it, continuations are not. Where a loop over several objects is
synchronous (cancelling the requests of a dataset) either the whole loop is one
action or nothing else may run until it ends. The two threads interleave freely
and are joined by queues of messages. In the Rust models one action is one
exported call, made of operators that take a record of engine state and answer a
result with the state after it, error paths included.

| Module | Models | State and actions |
| --- | --- | --- |
| `PermitQueue` | `AsyncPermitQueue`, complete | `active`, `waiters`, and for each key what its promise and closure have become. `Acquire` (grant, refuse, queue), `Cancel`, `Release`; `WakeWaiters` is `#wakeWaiters` |
| `WorkerRanges` | `readRange` in the Worker, `cancel`, `closeTable`, `closeSource`, background scan, source failure | `phase` is the `await` a request stands at; `ready` the scheduled continuations; `toCancel` the rest of a `cancelActive` loop; `adapterOp` what the adapter knows of a request's operation, which it may open after the request was cancelled. It uses `PermitQueue` by INSTANCE on its own variables |
| `OperationStep` | `advanceAdapterOperationStep`, `readLocalActions`, `MemoryReservationLedger` | leases `owned` by a step, `detached` from it, Blob reads `pending` in the host, lanes. `Refused` (reserves a part and rolls back), `Begin`, `LaneReadSettles`, `DetachedReadSettles`, `CancelReading`, `Continued` |
| `SourceBroker` | both ends of the source-read protocol | two message channels, the Worker's outcomes, reader records, both limiters with their queues, `phase` for `#runSourceRead`: its re-check and its call of user code are two steps |
| `RangeIntervals` | interval arithmetic of `RangeSourceAccessor` | operators only: `Missing`, `Assembled`, `CoveredLength`, `MergeIntervals`, `SplitInterval`, with the sets of bytes they should compute |
| `RangeSource` | `RangeSourceAccessor`: `read`, in-flight ranges, LRU, provider permits, cancel, close | in-flight ranges are named by the read that created them; LRU times are ranks |
| `RangeFlights` | `readRange` on the main thread, singleflight, decoded-batch cache, closes, runtime failure, batches `#validateBatchBacking` refuses, with as much of the Worker as answers it | `call`, `flight`, `map`, `cache`, two channels, and the Worker's tables and reads |
| `ResourceLedger` | `ResourceLedger`, every method | `ledger`; the methods are operators on ledger records, which the adapters compose |
| `AdapterRegistry` | the operation cursor of `protocol.rs` (issue, validate an answer and each way it may be wrong, complete) and what every artifact keeps between calls | `operations`, `sources`, `tables`, `owners`, `retained`, `next` handles |
| `DelimitedAdapter`, `ArrowAdapter`, `ParquetAdapter`, `ExcelAdapter` | the exported calls of each artifact | one action per exported call and outcome over the registry |
| `Adapters` | one Worker with one of the four, an arbitrary host, the ledger | the composition; its invariants |
| `DelimitedScan` | `CsvScanner`, `QuoteTracker`, checkpoints, `RangeDecoder`, byte by byte | the source as byte classes, the scanner and one decoder; `Scan`, `BeginRange`, `FeedRange` |
| `ArrowWire` → `ArrowOpen` → `Arrow` | framing validator; incremental open of file and stream; buffer pool, display encoding and reads | a stream is a sequence of messages with their lengths, a chunk a number of bytes |
| `ParquetGuard`, `ParquetPlan`; `ParquetPreview`; → `ParquetRead` | sparse cache, page guard and budgets; plan of a read; RLE decoder and list previews; open and read step by step | a byte is its own position, so that misplaced bytes are told apart; parquet-rs is the script of its calls |
| `ExcelPackage`, `ExcelSheets` → `ExcelRuntime` → `ExcelBooks` | indexed ranges, sparse reader, ZIP directory, relationships, entry fetch; sheet layouts and legacy counts; registry and reads; the adapter against a document | a document is what its bytes say at each position; opens, sheets, reads, cancels and closes interleave |
| `MC*` | instances for TLC | constants, symmetry, small files |
| `PermitQueueProofs`, `RangeSourceProofs`, `RangeReadProofs`, `SourceBrokerProofs`, `AdaptersProofs`, `DelimitedScanProofs`, `ExcelBooksProofs` | theorems about the module each is named after; `RangeReadProofs` is about `RangeFlights` and `OperationStep`; those about `ResourceLedger` open `AdaptersProofs`, and those about `WorkerRanges` close it | |
| `FoldTheorems` | lemmas: induction over sets and sequences, sums over a finite set, folds over a sequence as runs of their steps, the least element of a set, the order `SetToSeq` puts a set in | |

How they fit together: `WorkerRanges` implements `PermitQueue` (`PermitsRefined`,
the permit queue's specification as a property). `RangeFlights` assumes of the
Worker what `WorkerRanges` shows, that no request is stranded. `RangeSource`
assumes of the broker that it answers a request, which `SourceBroker` shows for
readers that stay open (`ReadsAdvance`). `OperationStep` sees a source read as
something that settles or is cancelled, as `RangeSource` describes it, and an
adapter as something that answers a step, which `Adapters` describes. `Adapters`
in turn leaves open what an engine finds in the bytes; the engine modules say
that, each for one source, and `ExcelBooks` for several worksheets of one.

Data is abstracted to what is decided on: a message is its kind and its subject,
a batch its revision and whether it is complete, an action's bytes are one unit
of the ledger, a field is the offsets of its bytes, a cell value the length of
its text.

A definition that varies the one before it and is used nowhere is a plausible
mistake in that code. Each property is shown to fail when such a definition
replaces the right one (`mutants` in `PROJECT.json` lists the pairs).

## 3. Runs

| Run | Instance | Checks |
| --- | --- | --- |
| `permit_queue` | 5 keys, 2 permits, 2 places | `PermitInv` (exact count, limits, no lost wakeup, queue = pending promises), `FifoGrant`, `WaiterServed` |
| `worker_ranges` | 3 requests, 3 tables of 2 datasets, 1 permit, 1 place | `RangeInv` (slots, permits and operations accounted for and cancelled once, an operation begun late is closed, queue never overflows), `NoStrandedReader`, `NoBatchAfterClose`, `PermitsRefined` |
| `source_broker` | 3 reads, 2 readers, 3 bytes, 1 or 2 calls per reader, 3 and 2 messages on the way | `BrokerInv` (both limiters exact, a finished read holds nothing, a reader is closed once), `ReadsAdvance` (nobody waits for capacity that is free; a read of an open reader has its answer on the way), `HostWorkContained` (calls of user code within both limits, those of dead reads included; an idle main thread holds nothing of a closed reader but calls already made) |
| `operation_step` | 4 steps, 2 lanes, 6 units | `StepInv`, `PendingCovered`, `SmallStepReleased` |
| `range_source` | 5 reads, LRU of 3 bytes, 2 permits | `SourceInv` (in-flight ranges, permits and cache bytes exact, only wanted ranges are fetched), `NoByteFetchedTwice`, `NoStrandedRead`; as assumptions `SweepsAgree` and `PlanCoversActions`, every interval sweep against its set of bytes |
| `range_flights` | 2 calls of one range, 2 handles, 1 revision | `FlightInv` (one request per key, a request is cancelled by its owner only), `NoStaleRows`, `CancelWhenAllLeft`, `CallSettles` |
| `adapters` | 4 artifacts, 4 operations, 4 handles, 2 sources, 3 bytes of budget | `RegistryInv`, `NoOrphans` (an operation's owner lives, a source can be reached by a handle or an operation), `RetainedExact`, `LedgerInv` |
| `delimited_scan` | every text of at most 5 symbols, 12 longer sources, 3 option sets, chunks of 1 to 4 bytes, 4 requests | `ScanInv`, `IndexExact`, `RangeExact` |
| `arrow` | 14 streams whole and cut short, 11 files, chunks of 5, 7, 16 and 60 bytes | `WireExact`, `PublishedExact`, `ReadExact`, `DisplayFits` |
| `parquet` | flat, odd, list and damaged files under limits from too small to ample | `ParquetInv`, `ReadExact`, `FetchedOnce`, `RefusedForSize` |
| `excel` | 8 documents, 3 handles, a budget that holds some worksheets | `ExcelInv`, `SheetExact`, `BatchExact`, `HealthyOpens`, `OpenSettles` |
| `excel_overlap` | same | `NoOverlap`: violated |

### 3.1 Bounds

- `permit_queue`: one key more than permits and places together, so that grant,
  queue and refusal all occur, and two waiters so that order matters.
- `worker_ranges`: the code has 2 permits and a queue of 8. With 1 and 1 the cap,
  the queue and the permit are each reached by three requests. One row boundary
  (`LastRow = 0`) tells an indexed request from one that waits. Two tables of one
  dataset and one of another tell closing a table, closing a dataset and
  touching neither apart. Requests are symmetric, and so
  are the two tables of one dataset. `MCInit` leaves out that all three requests
  read one table, which the theorems cover.
- `source_broker`: one read fills the staging budget, two others fit together or
  alone, and their reader takes two calls or one; a queue of each limiter forms
  under each. `ChannelsBounded`, the state constraint of the run, keeps at most
  three messages on the way to the main thread (all that closing an accessor with
  two reads posts at once) and two on the way back; without it the instance has
  2,572,515 states, and the same invariants hold in all of them.
- `operation_step`: a step with more actions than lanes, one with as many, a
  remote one and a yield; the ledger cannot hold all of them, so that it refuses
  the first action of a step or a later one.
- `range_source`: reads that are equal in part, nested, adjacent and apart, and
  an LRU smaller than their union, so that join, partial hit and eviction occur; a
  read also finds a range that has settled but is kept by another waiter.
  The interval sweeps see lists of up to 3 segments of 4 bytes: every order type
  two segments and a gap can have with a wanted range, plus one that is nested or
  duplicated.
- `range_flights`: two calls join, leave and replace each other's flight; the
  revision moves once, so that an answer can be older than the metadata. The
  Worker may answer with a batch the main thread refuses (`Failure("invalid")`,
  for any fault of it or of the adapter): that ends the engine.
- `adapters`: two sources of one artifact, so that closing one must leave the
  other; four operations, so that an open, a read, an operation on the other
  source and one on a dead handle are there together. Every operation, source,
  table or book weighs one byte of a budget of three, so that each may be the one
  refused; a new scanner weighs `ScannerBytes`, which opening does not check
  against the index budget, so that growth may be refused by either budget; a step asks for one byte at most (steps of two ranges are the matter of
  `arrow` and `operation_step`).
  An answer may be right or wrong in every way the cursor tells apart.
  Handles are not reused, so `MaxHandles` bounds a behaviour's opens; steps of
  one operation are at most `MaxSteps`; ledger integers end at `MaxU64`.
- `delimited_scan`: five symbols hold a quoted field with a doubled quote between
  two records; longer sources with a byte order mark (whole, cut short,
  twice, or where a later record begins), invalid UTF-8 and more
  records than an index interval are listed apart. A chunk of 4 holds a whole mark,
  which a fresh `csv_core` reader then drops, and one of 1 or 2 does not. The limits on fields, columns,
  cells, bytes of a batch and diagnostics are each reached by some source.
- `arrow`: the streams have dictionaries, deltas, an empty batch, compressed
  buffers with good, overlapping, negative and too large declarations, a batch
  without a body in the middle and at the end, early ends
  and a foreign schema; the smallest chunk is shorter than a message's header and
  the largest holds the whole stream.
- `parquet`: two columns in two row groups, pages of zero bytes, an index page, a
  list cut at pages of every kind of boundary, in three encodings and two kinds of
  runs; files that fail at each step of the open, damaged in their first or last
  bytes or too large for the source limit. Each budget is taken small enough to refuse, so that a read stages its
  chunks whole, finds its pages one by one, and does not fit. A read is begun once
  per behaviour.
- `excel`: the documents differ in what the reader has to find: a signature inside
  the archive comment, a ZIP64 record, an entry named twice, a target no entry
  has, a chart among the sheets, a legacy workbook, one whose sectors lie
  backwards, and one past the limits on a source (`MaxSourceBytes` and
  `Limits.source`). Two
  worksheets are the fewest that can be open at once; the budget holds both for
  some documents and one for others.

All runs allow the system to stop (requests are finite, everything may be
closed), so deadlock is not checked; `NoStrandedReader`, `NoStrandedRead`,
`ReadsAdvance` and the liveness properties say when stopping is wrong.

### 3.2 Fairness

- `PermitQueue!LiveSpec`: holders release. `readRange` releases in `finally`.
- `RangeFlights!LiveSpec`: microtasks run, messages are delivered, the Worker
  takes messages and answers a read it has accepted. Nothing is assumed of the
  application, of closes or of the death of the Worker.
- `RangeSource!Spec`: microtasks run and the broker answers. The counterexample of
  `RangeSourceLivelock.cfg` satisfies it: microtasks do run, for ever.
- `ExcelBooks!FairSpec`: the Worker's operation driver hands every range the host
  has read to its operation, which its loop does. It is weak fairness of
  `Continue(o)`, written out with the condition under which it is enabled.

### 3.3 The violation, and six more counterexamples

`excel_overlap`. The sparse reader of a legacy workbook asks for a whole window
from the first byte it misses (`range.rs:332`) and does not stop at bytes it has
already. When a sector near the end was read first, a later window runs into it,
`IndexedRanges::insert` refuses the host's answer as overlapping and the open
fails, although the comment at `range.rs:184` says that host results must remain
strictly non-overlapping even in that case. Two worksheets of one package opened
at once do the same: an answer is inserted without looking at what the other
has indexed meanwhile (`wasm.rs:376`). `HealthyOpens` therefore
allows that refusal to the open of a worksheet, and to the open of a workbook
only when its document reads backwards.

TLC finds six more properties violated by what the code does. Three have a
configuration beside the runs; the others are properties of their modules, to be
checked under the configuration of the run:

1. `ReservationsReleased` (`OperationStep.cfg`): when a Blob
   read fails in a step with more than four actions, `readLocalActions`
   (`worker.ts:2846`) detaches the leases of actions no lane has started. Nothing
   settles them, so their bytes stay reserved until the Worker ends; `README.md:273`
   says that reservations are released on failure. `SmallStepReleased` holds: with
   at most as many actions as lanes nothing is lost.
2. `RangeSourceLivelock.cfg` (`MCRangeSource`), `ReadSettles`: a settled range
   stays joinable while it has waiters (`source-accessor.ts:403`). Two reads that
   need more than it can join it in turn, each keeping it alive for the other, in
   microtasks only. `RangeSource.cfg` violates `HealthySourceServes`: bytes found
   in the LRU at the start of a fetch may be evicted by inserting the fetched ones
   (`source-accessor.ts:599`), and the read reports `SOURCE_UNAVAILABLE` for a
   provider that returned everything.
3. `RangeFlightsForeign.cfg` (`MCRangeFlights`), `OthersUndisturbed`: a shared
   request is sent on its first caller's table handle (`client.ts:1197`). Closing
   that handle cancels it in the Worker, and callers on other handles of the same
   table get `CANCELLED`; `docs/architecture.md:145` says that only cancellation
   of all waiters reaches the Worker.
4. `ParquetHeader.cfg` (`MCParquet`), `LateRowReadable`: a page header is handed to
   the decoder cut short when the cached bytes end inside it. `locate_suffix`
   (`parquet.rs:1018`) joins segments that touch, but answers with what there is;
   the guard calls the header malformed (`parquet.rs:1217`) and the read of a
   healthy file fails with `PARSE_FAILED`. `RefusedForSize`, that only a limit or
   the request refuses a well-formed file, is stated for the reads in which that
   does not happen (`HeaderCut`).
5. `BatchExact` (`DelimitedScan.cfg`): a record that begins with U+FEFF loses it in
   some ranges. A decoder starts a fresh `csv_core` reader at a checkpoint
   (`build_reader`, `csv.rs:852`), and such a reader drops a byte order mark that
   begins its first slice, if that slice holds all three bytes of it; a quote
   behind it then opens a quoted field for `csv_core` and not for the quote tracker.
   With chunks too short for the mark, or from an earlier checkpoint, the mark is
   kept. `RangeExact` and the decoder's part of `ScanInv` are stated for sources no
   record of which begins with a mark (`PlainRecords`), `IndexExact` and the
   scanner's part for those whose text does not begin with one after the mark of the
   file (`PlainStart`). What `csv_core` does with a mark is not in this repository:
   it is modelled from release 0.1.13 (`strip_utf8_bom`).
6. `ChartsSkipped` (`Excel.cfg`): a package with a chart or dialog sheet fails with
   `ParseFailed` (`range.rs:984`), although `docs/mvp.md:128` says that such sheets are
   skipped with a warning and `ExcelWarningKind::SkippedSheet` (`lib.rs:1119`) is
   there to say so; legacy workbooks do skip theirs. `HealthyOpens` is stated for
   workbooks all of whose sheets are worksheets.

### 3.4 Deviations seen while modelling, without a run

The models do what the code does here; the properties are stated so that they
hold of it.

- `client.ts:1641-1653`: a read the Worker has cancelled still closes its reader
  when its provider rejects with `SOURCE_CHANGED`. The Worker ignores the answer
  to the cancelled read, and the reader's other reads are dropped without one, so
  the accessor in the Worker waits for them until the dataset is closed.
  `docs/mvp.md:192` says that pending reads are released on source failure.
  `AnswerUnderWay` is therefore stated for readers that stay open.
- `client.ts:1606-1613`: the re-check of a read and its call of the provider are
  a microtask apart. A reader closed in between, by the answer of another read
  that reports `SOURCE_CHANGED`, is still called once. `HostWorkContained`
  counts such calls among those it bounds.
- `worker.ts:1377-1382`: a read cancelled while the adapter begins its operation
  has no operation to cancel; its first step arrives afterwards and is closed then
  (`BeginLate`), when the request may long have been answered.
- Arrow: `StreamDecoder` decodes a message without a body only when a byte after it
  arrives, and refuses to finish before (`arrow.rs:1881`). A stream without an end
  marker that ends with such a message, a schema included, fails at its end.
- Delimited adapter: cancelling or failing a progressive open closes the source
  but leaves the facade's table entries and its read operations, which fail when
  they are continued. The Arrow artifact removes the tables.
- Delimited adapter: `complete_revision` (`wasm.rs:385`) returns early when the
  revision counter has run out, before the source of the finished scan is given
  up, and nothing refers to that source any more. It takes a source of 2^53 - 1
  bytes read one byte at a time; `ScanAssumption` excludes it.
- Excel adapter: `close_source` leaves operations that open a table of it. The
  next `continue` consumes the step and puts the operation back; only a
  cancellation removes it.
- Excel adapter: a wrong end-of-file flag is noticed after `validate_results` has
  taken the step, so the corrected answer is refused as well. The comment at
  `protocol.rs:297` says that a malformed response cannot consume the valid step.
- `resource.rs:155`: a refused replacement keeps its charge but may have cleared
  the native cache before; `resourceSnapshot` replaces the persistent charge before
  the active one, so its refusal may depend on bytes about to be given back.
- Delimited engine: the index budget is checked after a chunk has been taken; a
  range decoder reads the whole chunk, so that a strict quoting error after the
  requested rows fails the read; which diagnostics are kept under `maxDiagnostics`
  depends on the chunking.
- Parquet: what is admitted when ranges arrive counts the retained bytes, the
  incoming ones and their merger together (`parquet.rs:868`); a prefetch of fewer
  than 8 bytes fails every open; bodies of skipped pages are given back only when
  the read succeeds (`parquet.rs:3691`, `3714`).
- Excel: an absolute relationship target is refused (`range.rs:1010`); an
  entry of no compressed bytes is refused as an invalid argument; the count and the
  layout of a legacy sheet end at the first EOF record of an embedded chart
  (`lib.rs:1700`); a split pane that is not frozen is reported as frozen
  (`presentation.rs:2283`).

## 4. Proofs

`PermitQueueProofs`, for every finite set of keys and every pair of limits with
at least one permit (`PermitAssumption`):

- `PermitQueueCorrect`: `Spec => []PermitInv`. `PermitInv` is inductive as it is:
  the count needs "the queue holds exactly the pending keys, each once"
  (`QueueIsPending`), for otherwise waking a waiter might add no holder; and
  "someone waits only while all permits are out" bounds how many a release can
  wake to one. There is one lemma for each action; a release is split into one
  with an empty queue and one that hands its permit over.
- `GrantsInOrder`: `Spec => FifoGrant`, from the invariant: a step grants either
  to nobody in the queue or to its head.

The last part of `AdaptersProofs` is about `WorkerRanges`, for every finite set of
requests and any tables, datasets and limits (`RangeAssumption`):

- `PermitsImplemented`: `RangesSpec => PermitsRefined`, by a case for each action: it
  acquires, cancels, releases, or leaves the permits alone. So what
  `PermitQueueProofs` shows of the queue holds here, and is used instead of being
  proved again: the count of permits, the queue's contents, and that a queue forms
  only while every permit is out (`QueueKept`).
- `RequestsAccounted`: `RangesSpec => []RangeInv`. The invariant says for each `await`
  which permit a request has (`PermitOfPhase`), when it owns an adapter operation
  and what the adapter knows of it (`OperationOwned`: an operation is open in the
  adapter exactly while its request owns it), and
  why it will go on (`Scheduled`). That the queue refuses
  nobody is by counting: permits and waiters together are at most the other active
  requests, which the cap keeps below permits plus places.
- `NobodyStranded`: `RangesSpec => []NoStrandedReader`. Who waits for a permit waits for a
  holder, by the queue's own invariant; a holder not yet reading is scheduled; and
  who has lost its table is cancelled or about to be (`Scheduled`), so neither
  remains once the event loop is idle.
- `NoLateBatch`: `RangesSpec => NoBatchAfterClose`, from the same invariant.

`RangeReadProofs`, of `OperationStep`, for every finite set of steps, any number of actions, any
number of lanes and any capacity (`StepAssumption`):

- `StepInvariant`: `Spec => []StepInv`. That the ledger is exact and within its
  capacity is not inductive alone. The strengthening says where leases are:
  owned exactly while their step is busy (`OwnedBusy`, `BusyOwns`), detached only
  afterwards (`DetachedDone`); and where reads are: awaited by a lane or
  detached (`PendingAwaited`, `LanesRead`, `NextInRange`). A step the ledger refuses
  halfway gives back exactly what it took (`RolledBack`).
- `PendingIsCovered`: every Blob read in the host is covered by a lease.
- `SmallStepsRelease`: a step with no more actions than lanes releases all its
  leases once its reads have settled.

The first part of `AdaptersProofs` is about `ResourceLedger`, for every budget and
every width of the counters (`LedgerAssumption`):

- `LedgerSafe`: `LedgerSpec => []LedgerInv`, what the runtime owns is at most the
  high-water mark, and that at most the budget. The invariant is stated on ledger
  records (`Sound`), each method is shown to take a sound ledger to a sound one.
  The method that needs an argument is `replace`: it takes a charge away, may clear
  the cache and be refused, and puts the old charge back without asking again. A
  refused admission leaves every charge where it was or lower (`RefusedIsLower`),
  so the restored ledger is below the one `replace` started from, and that one was
  below the high-water mark. The lemmas also cover a request too large for the
  counter, which is refused because it is above the budget, so that they apply to
  whatever an adapter may ask for.

`RangeSourceProofs`, for any finite set of reads, any ranges, any size of the cache
and 1 to 4 permits (`RangeSourceAssumption`):

- `SourceAccounts`, `NoByteTwice`, `NobodyIsStranded`: `SafetySpec => []SourceInv`,
  `[]NoByteFetchedTwice` and `[]NoStrandedRead`, from one inductive invariant
  (`IInv`). That no byte is fetched twice cannot be shown of requests alone: holes
  that are still queued, and those a read has yet to ask for, must be disjoint from
  them, which holds because each lies in the range it belongs to (`WorkFits`), those of
  one range are apart (`WorkApart`) and so are ranges that have work left
  (`RangesApart`), since a read joins every overlapping range in flight before it
  fetches. That nobody is stranded needs what a range in flight still has to do
  (`RangesWork`), how many wait for it (`Waited`), which reads have joined it
  (`Joins`), and that a read whose range is done has been woken (`Woken`). A
  cancelled range has nobody left waiting, so a read that joined one is never left
  behind with it.
- `AssemblesExactly`, `HolesExactly`, `CoversExactly`, `MergesExactly`,
  `SplitsExactly`: every interval sweep against its set of bytes, for lists of any
  length, in any order and however the segments overlap. A sweep is a fold over the
  sorted list, and each theorem is an invariant of its steps: of the cursor, that it
  has passed every segment that begins before it; of a hole, that it ends where a
  segment begins. The induction is on sequences (`InductSeq`), not on operators.
- The inductive invariant rests on one consequence: when `#missing` finds no hole,
  `#assemble` has every byte (`MissingFacts`), so a read that fetches always has
  something to ask for. `Grant` and the eviction of the cache are shown to stop
  with no permit free while a hole waits, and within the cache's bytes.

`RangeReadProofs`, of `RangeFlights`, for any calls, handles and number of revisions
(`FlightAssumption`):

- `FlightsCorrect`, `NeverStale`, `SharedWorkKept`: `Spec => []FlightInv`,
  `Spec => []NoStaleRows` and `Spec => CancelWhenAllLeft`. That a batch is never
  older than the call that gets it needs what is said of messages still on their
  way: every message about a flight was sent at the flight's revision or a later
  one, and the main thread knows no revision the Worker has not reached
  (`Messages`, `Fresh`). That a request is cancelled by its owner only needs what
  an abort leaves behind: an aborted flight of an open dataset has lost every
  caller and is out of the map, so that none can join it again (`Undisturbed`).
  A batch that is refused ends the session as the death of the Worker does
  (`SessionEnds`), but its own flight settles.

`SourceBrokerProofs`, for any readers and reads, any lengths and budget, and 1 to 4
calls per reader (`BrokerAssumption`):

- `BrokerAccounts`: `Spec => []BrokerInv`. Both limiters are shown exact, for which
  the phase of a read must say which permits it holds and which queue it stands in
  (`Holdings`, `Queues`). The bytes staged are a sum over a set (`Bytes`), and a
  release wakes as many waiters as then fit, in a loop (`Drained`), of which the
  lemmas say whom it admits and that whoever stays behind did not fit. The two channels are tied to
  the phases by `Posted`: a request is posted once, and a cancellation only after
  its read is settled in the Worker.
- `BrokerAdvances`: `Spec => []ReadsAdvance`. That nobody waits for a free permit is
  part of `Counted` and `Bytes`; that a read of an open reader has its answer
  under way is `Answering`.
- `UserCodeIsContained`: `Spec => []HostWorkContained`. A read between its re-check
  and its call, or in user code, holds a permit of both limiters whatever became of
  it and of its reader, so that the exact counts bound the calls; and a closed
  reader leaves no waiter, so that with the continuations its last calls end.

`AdaptersProofs`, for any set of artifacts, weights, source lengths, budget and
limits on steps, operations and handles (`RegistryAssumption`, `ScanAssumption`,
`FormatAssumption`, `LedgerAssumption`, `ProtocolAssumption`). The bounds the runs
need are parameters here, so a behaviour may open as many handles as it likes:

- `RegistryWellFormed`, `NothingOrphaned`, `RetainedIsExact`,
  `SnapshotsKeepBudget`: `Spec => []RegistryInv`, `[]NoOrphans`, `[]RetainedExact`
  and `[]LedgerInv`. The invariant has a part for each kind of artifact, for they
  keep different promises. All have in common that every map lies below the counter
  its handles come from (`Typed`), so that a new handle hits nothing.
  *Delimited* needs that two open operations never have one source, that a decoder
  belongs to exactly one read, and that a scan takes a byte with every revision
  (`ScanPace`): otherwise the revision counter could run out in the last step of a
  scan, where `complete_revision` (`wasm.rs:385`) returns early and leaves the
  source without an owner. `ScanAssumption` is what excludes that: a source of
  2^53 - 1 bytes is not read one byte at a time.
  *Columnar* (Arrow and Parquet) needs that only a stream is registered before its
  open has ended, and that reads are of tables with a live source.
  *Workbooks* needs that a source belongs to one table and one workbook, so that
  closing a workbook frees its own sources and no other's.
  `retained` is shown to be the sum of what the maps weigh; the sum is a fold over
  a set, and adding or removing entries is reduced to `FoldTheorems`.
  The ledger's part is `Sound`, as above: a snapshot replaces two
  charges one after the other, and the second may be refused.

`DelimitedScanProofs`, for every source, any set of options and requests and any
sizes of chunks (`ConfigAssumption`: bytes, unsigned counts, and the options
`DelimitedOptions::validate` lets through):

- `ScanIsSound`, `IndexIsExact`, `RangeIsExact`: `Spec => [](PlainRecords => ScanInv)`,
  `[]IndexExact` and `[]RangeExact`, all from the invariant `DelimitedInv`
  (`DelimitedIsInductive`). The mark a fresh reader drops is the exception of each:
  when the text begins with no second mark the scanner's reader drops nothing
  (`NoneDropped`, `PlainBegins`), and when no record begins with one neither does a
  decoder's, which starts where a record starts (`StartsAre`, `PlainBoundary`); both
  conditions are of the source and stay (`PlainKept`). `IndexExact` alone is not inductive: between two ends
  of record it says nothing of what the parser holds, and a read resumes at an
  offset that is exact only if the index was when its checkpoint was stored. The
  invariant is therefore a simulation. The reference is a parser of the whole
  source, written as a run (`From`). A byte that raises no error moves the scanner
  as it moves the parser (`Sim`, `ByteSimulated`), so a chunk does, wherever it is
  cut (`ScannerFeeds`); a checkpoint is an offset where a record of the parser ends
  (`Boundary`, `Indexed`). A fresh parser started at a boundary finds the rest of
  the records (`Continues`, `Resumes`): it differs from the one before it at most by
  a carriage return that no later byte can tell. A decoder moves as the parser
  started at its checkpoint (`Decodes`, `DecoderFeeds`), so what it answers is cut
  from the rows of the whole source (`AnswersAll`). A scan or a read that stops
  on a limit or, in strict mode, on a malformed quote ends with its error, and
  exactness is claimed of the others only, as in the runs.

`ExcelBooksProofs`, for any documents, handles, limits and costs
(`PackageAssumption`, `CostAssumption`, `RuntimeAssumption`: unsigned numbers, and a
missing value that is none of them; `FilesAssumption`: a document is of one kind,
its records say unsigned numbers in whatever combination, and its parser reads no
byte past its end):

- `Books`: `Spec => []ExcelInv`. `IInv` adds to it what an open or a worksheet
  operation keeps between two answers, and what each handle refers to. Four arguments
  carry it. *Ranges*: an insert into sound ranges is refused or keeps them sound
  (`InsertKeeps`: maximal runs, no byte twice, `retained` their number of bytes), a
  refused answer included. *Waiting*: an operation asks for the first range it misses,
  so what it waits for is not there. The directory, the compound file and each entry
  are read through folds; a fold is a run of its steps, and along the run
  whatever stops it is a range with a missing byte or an error. *Ownership*:
  after any order of closes the registry holds what is left of it (`Left`), and
  `Linked` ties each handle the host has to its workbook inside, of which no other
  handle has a part. A compact package that fails to open its table closes its
  source again, so that a failed open leaves nothing behind. *Reservations*: what
  `OpenSource` and `OpenTable` reserve was within what was available, which is the
  budget less what is retained; the sum over the handles is split at each close and
  added to at each open.

Only model-checked: liveness (`WaiterServed`, `CallSettles`, `OpenSettles`), which is
out of the prover's reach; the properties of `Arrow` and of the Parquet modules, some
of which declare `RECURSIVE` operators (`ArrowWire`, `ParquetPreview`,
`ParquetRead`), which the provers cannot use; and, of the Excel modules, that sheets
and batches are the document's (`SheetExact`, `BatchExact`) and that a sound document
opens (`HealthyOpens`), which no proof has been attempted of.

No definition the proofs use is recursive. Sums, filters and sweeps are folds of the
community modules, and `FoldTheorems` derives what a fold computes from the
well-foundedness of the naturals, stated for sets and functions instead of
operators, so that the provers can instantiate it: a fold over a sequence is the
last element of its run, and an invariant of the steps holds at the end of the run.

## 5. Plan

In order; each item names the module, what it is composed with, and what is
worth proving.

1. `OpenLifecycle` with `RpcClient`: `open()` on the main thread against
   `openSource` in the Worker, orphan events, discards, late readers, timeouts,
   shutdown. Abstract specification: a request settles once, and a handle is
   owned by exactly one side. Properties: no leaked source slot, terminal events
   reach their own session, engine close waits for readers.
2. `RetainedBudget`: `ByteLruCache` and retained HTTP bodies under one budget;
   invariant worth proving: bytes exact and within the budget.
3. `http.ts` (probe, validators) and the view controller (generations of reads).
4. Proofs: `SheetExact` and `ParquetInv`, which need invariants about what an
   operation has fetched so far.

## 6. Not modelled

- Open path, RPC time limits, retained budget, HTTP source and view controller:
  planned above.
- Other Worker reads (cells, presentation, typed reads): they share `cancelActive`
  and the operation driver with `readRange`, and have no permits.
- What external crates compute: `csv_core` is its transition table and the mark it
  drops, parquet-rs the
  sequence of its calls, the Arrow decoder a batch per message, calamine the values
  of a sheet. Footer parsing and decompression have no definition of their own.
- Values: styles, colours, number formats, the text a value formats to and the
  layout of nested Arrow arrays are data without control; a property sees their
  lengths.
- Metadata and presentation operations of the Excel adapter: they only read and
  complete at once.
- Drawing, preview packages, build and fuzz tooling: user interface, third-party
  code, or not part of the running program.
