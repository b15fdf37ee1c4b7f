---------------------------- MODULE WorkerRanges ----------------------------
(***************************************************************************)
(* The life of a readRange request in the Worker (js/worker.ts): admission,*)
(* waiting for the indexed prefix, the permit queue, the adapter's begin   *)
(* and its read, and the ways it can be cut short (cancel, closeTable,     *)
(* closeSource, a failed background scan, a failed source).                *)
(*                                                                         *)
(* Granularity.  A task is a message, a settled source read or a scan      *)
(* step.  What a task resolves continues as microtasks, before the next    *)
(* task: the requests in ready are those with a continuation scheduled.    *)
(* toCancel is the rest of a loop over activeRequests that calls           *)
(* cancelActive; the loop is synchronous, so nothing else runs until it    *)
(* ends.  Memory reservations of the reads are in OperationStep.           *)
(***************************************************************************)
EXTENDS Naturals, Sequences, FiniteSets

CONSTANTS
    Requests,      \* request ids of readRange messages, each sent once
    Datasets,      \* open datasets
    Tables,        \* table handles
    DatasetOf,     \* the dataset of each table handle
    LastRow,       \* rows a scan discovers: 0..LastRow+1
    MaxActive,     \* MAX_ACTIVE_RANGES
    MaxWaiters     \* MAX_RANGE_WAITERS

ASSUME RangeAssumption ==
    /\ IsFiniteSet(Requests)
    /\ DatasetOf \in [Tables -> Datasets]
    /\ LastRow \in Nat
    /\ MaxActive \in Nat \ {0}
    /\ MaxWaiters \in Nat

VARIABLES
    active, waiters, permit,   \* rangePermits, see PermitQueue
    phase,       \* where readRange of each request stands
    tableOf,     \* the request's table handle
    rowStart,    \* the request's first row
    cancelled,   \* active.cancelled
    failure,     \* active.failure is set
    owns,        \* active.operationHandle is set
    adapterOp,   \* the adapter's side of it: beginRead called, operation open, ended
    opCancels,   \* calls of adapter.cancelOperation for the request's operation
    outcome,     \* the response posted for the request
    inFlight,    \* rangeRequestsInFlight
    rows,        \* discoveredRows(dataset.metadata)
    scan,        \* background scan of each dataset
    datasetOpen, tableOpen,
    ready,       \* requests whose continuation is a scheduled microtask
    toCancel     \* requests the running cancelActive loop has still to visit

permits == <<active, waiters, permit>>
request == <<tableOf, rowStart>>
datasets == <<rows, scan, datasetOpen, tableOpen>>
vars == <<active, waiters, permit, phase, tableOf, rowStart, cancelled, failure, owns,
          adapterOp, opCancels, outcome, inFlight, rows, scan, datasetOpen, tableOpen, ready,
          toCancel>>

(* The queue of the requests' permits: every step here is a step there.    *)
Permits == INSTANCE PermitQueue WITH Keys <- Requests

Rows == 0..LastRow
MaxInFlight == MaxActive + MaxWaiters    \* MAX_IN_FLIGHT_RANGES

Phase == {"idle", "indexing", "queued", "granted", "beginning", "reading", "done"}
AdapterOp == {"none", "beginning", "open", "closed"}
Outcome == {"none", "batch", "cancelled", "failed", "limit", "full"}

Active == {r \in Requests : phase[r] \notin {"idle", "done"}}   \* activeRequests
DatasetOfRequest(r) == DatasetOf[tableOf[r]]
ActiveOfTableQueued(t) == {r \in Active : tableOf[r] = t /\ phase[r] # "reading"}  \* mutant
ActiveOfTable(t) == {r \in Active : tableOf[r] = t}
ActiveOfDataset(d) == {r \in Active : DatasetOfRequest(r) = d}
Indexing(d) == {r \in ActiveOfDataset(d) : phase[r] = "indexing"}   \* dataset.waiters

(* No microtask is scheduled: the event loop takes the next task. *)
Quiet == ready = {} /\ toCancel = {}

RangesInit ==
    /\ Permits!Init
    /\ phase = [r \in Requests |-> "idle"]
    /\ tableOf \in [Requests -> Tables]
    /\ rowStart \in [Requests -> Rows]
    /\ cancelled = [r \in Requests |-> FALSE]
    /\ failure = [r \in Requests |-> FALSE]
    /\ owns = [r \in Requests |-> FALSE]
    /\ adapterOp = [r \in Requests |-> "none"]
    /\ opCancels = [r \in Requests |-> 0]
    /\ outcome = [r \in Requests |-> "none"]
    /\ inFlight = 0
    /\ rows = [d \in Datasets |-> 0]
    /\ scan = [d \in Datasets |-> "running"]
    /\ datasetOpen = [d \in Datasets |-> TRUE]
    /\ tableOpen = [t \in Tables |-> TRUE]
    /\ ready = {}
    /\ toCancel = {}

----------------------------------------------------------------------------
(* waitUntilIndexed keeps waiting. *)
NotIndexed(r) ==
    scan[DatasetOfRequest(r)] = "running" /\ rows[DatasetOfRequest(r)] <= rowStart[r]

(* throwIfCancelled: the recorded failure, or CANCELLED. *)
CancelledOutcome(r) == IF failure[r] THEN "failed" ELSE "cancelled"

(* The response and the finally block of readRange: the request leaves     *)
(* activeRequests, returns its permit (which may wake the oldest waiter)   *)
(* and its in-flight slot.                                                 *)
Finish(r, o) ==
    /\ IF permit[r] = "held" THEN Permits!Release(r) ELSE UNCHANGED permits
    /\ phase' = [q \in Requests |->
                    IF q = r THEN "done"
                    ELSE IF phase[q] = "queued" /\ permit'[q] = "held" THEN "granted"
                    ELSE phase[q]]
    /\ outcome' = [outcome EXCEPT ![r] = o]
    /\ inFlight' = inFlight - 1
    /\ ready' = (ready \ {r}) \cup {q \in Requests : permit[q] = "queued" /\ permit'[q] = "held"}
    /\ UNCHANGED <<request, cancelled, failure, datasets, toCancel>>

(* Mutant: a range of an indexed table takes a permit past the queue. *)
AcquirePermitBarging(r, slots) ==
    /\ active' = active + 1
    /\ permit' = [permit EXCEPT ![r] = "held"]
    /\ phase' = [phase EXCEPT ![r] = "granted"]
    /\ inFlight' = slots
    /\ ready' = ready \cup {r}
    /\ UNCHANGED <<waiters, outcome>>

(* rangePermits.acquire: granted (the continuation is a microtask), queued *)
(* or refused.                                                             *)
AcquirePermit(r, slots) ==
    /\ Permits!Acquire(r)
    /\ phase' = [phase EXCEPT ![r] = CASE permit'[r] = "held" -> "granted"
                                       [] permit'[r] = "queued" -> "queued"
                                       [] OTHER -> "done"]
    /\ outcome' = IF permit'[r] = "refused" THEN [outcome EXCEPT ![r] = "full"] ELSE outcome
    /\ inFlight' = IF permit'[r] = "refused" THEN slots - 1 ELSE slots
    /\ ready' = IF permit'[r] = "held" THEN ready \cup {r} ELSE ready \ {r}

(* readRange, up to its first await.  A closed table or a full engine is   *)
(* an error response; otherwise the request takes a slot and either waits  *)
(* for the index or asks for a permit.                                     *)
DispatchClosed(r) ==
    /\ Quiet /\ phase[r] = "idle"
    /\ ~tableOpen[tableOf[r]]
    /\ phase' = [phase EXCEPT ![r] = "done"]
    /\ outcome' = [outcome EXCEPT ![r] = "failed"]
    /\ UNCHANGED <<permits, request, cancelled, failure, owns, adapterOp, opCancels, inFlight,
                   datasets, ready, toCancel>>

DispatchLimit(r) ==
    /\ Quiet /\ phase[r] = "idle"
    /\ tableOpen[tableOf[r]]
    /\ inFlight >= MaxInFlight
    /\ phase' = [phase EXCEPT ![r] = "done"]
    /\ outcome' = [outcome EXCEPT ![r] = "limit"]
    /\ UNCHANGED <<permits, request, cancelled, failure, owns, adapterOp, opCancels, inFlight,
                   datasets, ready, toCancel>>

Admitted(r) ==
    /\ Quiet /\ phase[r] = "idle"
    /\ tableOpen[tableOf[r]]
    /\ inFlight < MaxInFlight

DispatchIndexing(r) ==
    /\ Admitted(r)
    /\ NotIndexed(r)
    /\ phase' = [phase EXCEPT ![r] = "indexing"]
    /\ inFlight' = inFlight + 1
    /\ UNCHANGED <<permits, request, cancelled, failure, owns, adapterOp, opCancels, outcome,
                   datasets, ready, toCancel>>

DispatchAcquire(r) ==
    /\ Admitted(r)
    /\ ~NotIndexed(r)
    /\ AcquirePermit(r, inFlight + 1)
    /\ UNCHANGED <<request, cancelled, failure, owns, adapterOp, opCancels, datasets,
                   toCancel>>

Dispatch(r) == DispatchClosed(r) \/ DispatchLimit(r) \/ DispatchIndexing(r) \/ DispatchAcquire(r)

----------------------------------------------------------------------------
(* Continuations.  One runs at a time, and only when no cancel loop does.  *)
Runs(r) == r \in ready /\ toCancel = {}

(* A waiter of the index re-evaluates its loop: cancelled, still not       *)
(* indexed, failed scan, or on to the permit queue.                        *)
ResumeIndexingCancelled(r) ==
    /\ Runs(r) /\ phase[r] = "indexing"
    /\ cancelled[r]
    /\ Finish(r, CancelledOutcome(r))
    /\ UNCHANGED <<owns, adapterOp, opCancels>>

ResumeIndexingAgain(r) ==
    /\ Runs(r) /\ phase[r] = "indexing"
    /\ ~cancelled[r] /\ NotIndexed(r)
    /\ ready' = ready \ {r}
    /\ UNCHANGED <<permits, phase, request, cancelled, failure, owns, adapterOp, opCancels,
                   outcome, inFlight, datasets, toCancel>>

ResumeIndexingDone(r) ==
    /\ Runs(r) /\ phase[r] = "indexing"
    /\ ~cancelled[r] /\ ~NotIndexed(r)
    /\ AcquirePermit(r, inFlight)
    /\ UNCHANGED <<request, cancelled, failure, owns, adapterOp, opCancels, datasets,
                   toCancel>>

(* The acquire promise was rejected by rangePermits.cancel. *)
ResumeRejected(r) ==
    /\ Runs(r) /\ phase[r] = "queued"
    /\ Finish(r, CancelledOutcome(r))
    /\ UNCHANGED <<owns, adapterOp, opCancels>>

(* The permit is granted: throwIfCancelled, then beginRead is called.      *)
GrantedCancelled(r) ==
    /\ cancelled[r]
    /\ Finish(r, CancelledOutcome(r))
    /\ UNCHANGED <<owns, adapterOp, opCancels>>

BeginRead(r) ==
    /\ ~cancelled[r]
    /\ phase' = [phase EXCEPT ![r] = "beginning"]
    /\ adapterOp' = [adapterOp EXCEPT ![r] = "beginning"]
    /\ ready' = ready \ {r}
    /\ UNCHANGED <<permits, request, cancelled, failure, owns, opCancels, outcome, inFlight,
                   datasets, toCancel>>

ResumeGranted(r) ==
    /\ Runs(r) /\ phase[r] = "granted"
    /\ GrantedCancelled(r) \/ BeginRead(r)

(* The adapter answers beginRead: in a microtask if it is synchronous, in  *)
(* a later task if it is not, and then perhaps after the request has gone. *)
(* It answers at once (a cached tile), asks for source bytes, or throws.   *)
(* The operation of a request that was cancelled meanwhile is cancelled as *)
(* it arrives, by the cleanup attached before the race with cancellation.  *)
BeginsNow(r) == toCancel = {} /\ adapterOp[r] = "beginning"

BeginPending(r) ==
    /\ BeginsNow(r) /\ ~cancelled[r]
    /\ phase' = [phase EXCEPT ![r] = "reading"]
    /\ owns' = [owns EXCEPT ![r] = TRUE]
    /\ adapterOp' = [adapterOp EXCEPT ![r] = "open"]
    /\ UNCHANGED <<permits, request, cancelled, failure, opCancels, outcome, inFlight,
                   datasets, ready, toCancel>>

(* The operation completed; the batch is reserved and copied, or refused.  *)
CompleteRead(r) ==
    /\ \E o \in {"batch", "limit"} : Finish(r, o)
    /\ owns' = [owns EXCEPT ![r] = FALSE]
    /\ adapterOp' = [adapterOp EXCEPT ![r] = "closed"]
    /\ UNCHANGED opCancels

BeginComplete(r) ==
    /\ BeginsNow(r) /\ ~cancelled[r]
    /\ CompleteRead(r)

BeginFails(r) ==
    /\ BeginsNow(r)
    /\ adapterOp' = [adapterOp EXCEPT ![r] = "closed"]
    /\ IF cancelled[r]
       THEN UNCHANGED <<permits, phase, request, cancelled, failure, outcome, inFlight,
                        datasets, ready, toCancel>>
       ELSE Finish(r, "failed")
    /\ UNCHANGED <<owns, opCancels>>

(* Mutant: the cleanup is attached to the race, which has been lost. *)
CleanupLateAdapterStepMissing(r) ==
    /\ adapterOp' = [adapterOp EXCEPT ![r] = "open"]
    /\ UNCHANGED opCancels

CleanupLateAdapterStep(r) ==
    /\ adapterOp' = [adapterOp EXCEPT ![r] = "closed"]
    /\ opCancels' = [opCancels EXCEPT ![r] = @ + 1]

BeginLate(r) ==
    /\ BeginsNow(r) /\ cancelled[r]
    /\ CleanupLateAdapterStep(r)
    /\ UNCHANGED <<permits, phase, request, cancelled, failure, owns, outcome, inFlight,
                   datasets, ready, toCancel>>

BeginAnswers(r) == BeginPending(r) \/ BeginComplete(r) \/ BeginFails(r) \/ BeginLate(r)

(* The cancellation promise wins the race against beginRead or the source  *)
(* read.  The race reports CANCELLED whatever active.failure says, except  *)
(* in the request whose own read failed, which throws that failure.        *)
ResumeCancelledRead(r) ==
    /\ Runs(r) /\ phase[r] \in {"beginning", "reading"}
    /\ \E o \in {"cancelled", "failed"} :
          /\ o = "failed" => failure[r] /\ phase[r] = "reading"
          /\ Finish(r, o)
    /\ UNCHANGED <<owns, adapterOp, opCancels>>

Microtask(r) ==
    \/ ResumeIndexingCancelled(r) \/ ResumeIndexingAgain(r) \/ ResumeIndexingDone(r)
    \/ ResumeRejected(r) \/ ResumeGranted(r) \/ ResumeCancelledRead(r)

----------------------------------------------------------------------------
(* cancelActive for one request of the loop.  The request takes its        *)
(* operation handle before it calls the adapter, leaves the permit queue   *)
(* if it waits there, and wakes everyone who waits for the same index.     *)
CancelActive(r) ==
    /\ r \in toCancel
    /\ toCancel' = toCancel \ {r}
    /\ IF cancelled[r]
       THEN UNCHANGED <<permits, cancelled, owns, adapterOp, opCancels, ready>>
       ELSE /\ cancelled' = [cancelled EXCEPT ![r] = TRUE]
            /\ owns' = [owns EXCEPT ![r] = FALSE]
            /\ adapterOp' = IF owns[r] THEN [adapterOp EXCEPT ![r] = "closed"] ELSE adapterOp
            /\ opCancels' = IF owns[r] THEN [opCancels EXCEPT ![r] = @ + 1] ELSE opCancels
            /\ IF permit[r] = "queued" THEN Permits!Cancel(r) ELSE UNCHANGED permits
            /\ ready' = ready \cup Indexing(DatasetOfRequest(r))
                 \cup (IF phase[r] \in {"queued", "beginning", "reading"} THEN {r} ELSE {})
    /\ UNCHANGED <<phase, request, failure, outcome, inFlight, datasets>>

(* cancel message *)
CancelMessage(r) ==
    /\ Quiet /\ r \in Active
    /\ toCancel' = {r}
    /\ UNCHANGED <<permits, phase, request, cancelled, failure, owns, adapterOp, opCancels,
                   outcome, inFlight, datasets, ready>>

(* closeTableState: the table is gone before its requests are cancelled. *)
CloseTable(t) ==
    /\ Quiet /\ tableOpen[t]
    /\ tableOpen' = [tableOpen EXCEPT ![t] = FALSE]
    /\ toCancel' = ActiveOfTable(t)
    /\ UNCHANGED <<permits, phase, request, cancelled, failure, owns, adapterOp, opCancels,
                   outcome, inFlight, rows, scan, datasetOpen, ready>>

(* closeDatasetState, with the failure that caused it or none: tables are  *)
(* closed, index waiters woken, and every request of the dataset is        *)
(* cancelled, whichever table it reads.                                    *)
CloseDatasetState(d, failed) ==
    /\ datasetOpen' = [datasetOpen EXCEPT ![d] = FALSE]
    /\ tableOpen' = [t \in Tables |-> tableOpen[t] /\ DatasetOf[t] # d]
    /\ toCancel' = ActiveOfDataset(d)
    /\ ready' = ready \cup Indexing(d)
    /\ failure' = [r \in Requests |-> failure[r] \/ (failed /\ r \in ActiveOfDataset(d))]
    /\ UNCHANGED <<permits, phase, request, cancelled, outcome, inFlight, rows>>

CloseSource(d) ==
    /\ Quiet /\ datasetOpen[d]
    /\ CloseDatasetState(d, FALSE)
    /\ UNCHANGED <<owns, adapterOp, opCancels, scan>>

(* The background scan publishes more rows, ends, or fails; failure closes *)
(* the dataset.                                                            *)
ScanProgress(d) ==
    /\ Quiet /\ datasetOpen[d] /\ scan[d] = "running"
    /\ rows[d] <= LastRow
    /\ rows' = [rows EXCEPT ![d] = @ + 1]
    /\ ready' = Indexing(d)
    /\ UNCHANGED <<permits, phase, request, cancelled, failure, owns, adapterOp, opCancels,
                   outcome, inFlight, scan, datasetOpen, tableOpen, toCancel>>

ScanDone(d) ==
    /\ Quiet /\ datasetOpen[d] /\ scan[d] = "running"
    /\ scan' = [scan EXCEPT ![d] = "done"]
    /\ ready' = Indexing(d)
    /\ UNCHANGED <<permits, phase, request, cancelled, failure, owns, adapterOp, opCancels,
                   outcome, inFlight, rows, datasetOpen, tableOpen, toCancel>>

ScanFails(d) ==
    /\ Quiet /\ datasetOpen[d] /\ scan[d] = "running"
    /\ scan' = [scan EXCEPT ![d] = "failed"]
    /\ CloseDatasetState(d, TRUE)
    /\ UNCHANGED <<owns, adapterOp, opCancels>>

(* The source read of a running operation settles: the operation completes,*)
(* or the adapter fails it and its handle is cancelled in the finally      *)
(* block, or the source itself failed, which ends the whole dataset.       *)
ReadCompletes(r) ==
    /\ Quiet /\ phase[r] = "reading"
    /\ CompleteRead(r)

ReadFails(r) ==
    /\ Quiet /\ phase[r] = "reading"
    /\ Finish(r, "failed")
    /\ owns' = [owns EXCEPT ![r] = FALSE]
    /\ adapterOp' = [adapterOp EXCEPT ![r] = "closed"]
    /\ opCancels' = [opCancels EXCEPT ![r] = @ + 1]

SourceFails(r) ==
    /\ Quiet /\ phase[r] = "reading" /\ datasetOpen[DatasetOfRequest(r)]
    /\ CloseDatasetState(DatasetOfRequest(r), TRUE)
    /\ UNCHANGED <<owns, adapterOp, opCancels, scan>>

ScanStep(d) == ScanProgress(d) \/ ScanDone(d) \/ ScanFails(d)
ReadSettles(r) == ReadCompletes(r) \/ ReadFails(r) \/ SourceFails(r)

RangesNext ==
    \/ \E r \in Requests :
          \/ Dispatch(r) \/ Microtask(r) \/ CancelActive(r) \/ CancelMessage(r)
          \/ BeginAnswers(r) \/ ReadSettles(r)
    \/ \E t \in Tables : CloseTable(t)
    \/ \E d \in Datasets : CloseSource(d) \/ ScanStep(d)

RangesSpec == RangesInit /\ [][RangesNext]_vars

----------------------------------------------------------------------------
TypeOK ==
    /\ phase \in [Requests -> Phase]
    /\ outcome \in [Requests -> Outcome]
    /\ inFlight \in 0..MaxInFlight
    /\ owns \in [Requests -> BOOLEAN]
    /\ adapterOp \in [Requests -> AdapterOp]
    /\ rows \in [Datasets -> 0..(LastRow + 1)]
    /\ ready \subseteq Active
    /\ toCancel \subseteq Active

(* rangeRequestsInFlight counts exactly the requests that are being        *)
(* served, on every way out of readRange.                                  *)
InFlightAccounting == inFlight = Cardinality(Active)

(* A permit is out exactly while its request runs, and a request that has  *)
(* been answered holds nothing: neither a permit, a place in the queue nor *)
(* an adapter operation, not even one the adapter began after the answer.  *)
NothingRetained ==
    \A r \in Requests :
        /\ permit[r] = "held" <=> phase[r] \in {"granted", "beginning", "reading"}
        /\ phase[r] = "done" => permit[r] # "queued" /\ adapterOp[r] # "open"

(* An adapter operation is cancelled at most once: the handle is taken     *)
(* before the adapter is called, so of the cancel, the finally block of    *)
(* the read and the cleanup of a late begin only one reaches an adapter    *)
(* whose cancel is not idempotent.                                         *)
CancelledOnce == \A r \in Requests : opCancels[r] <= 1

(* The in-flight cap leaves no request for the permit queue to refuse.     *)
NoQueueOverflow == \A r \in Requests : outcome[r] # "full"

(* Slots, permits and adapter operations: all accounted for in every state.*)
RangeInv == TypeOK /\ InFlightAccounting /\ NothingRetained /\ CancelledOnce /\ NoQueueOverflow

(* Nobody is stranded: when the event loop is idle no cancelled or         *)
(* orphaned request is still in progress, whoever waits for the index has  *)
(* a running scan to wait for, and whoever waits for a permit has a        *)
(* running read to wait for.  Cancel, close and scan failure reach readers *)
(* in every phase.                                                         *)
NoStrandedReader ==
    Quiet => \A r \in Active :
        /\ ~cancelled[r]
        /\ tableOpen[tableOf[r]] /\ datasetOpen[DatasetOfRequest(r)]
        /\ phase[r] = "indexing" => NotIndexed(r)
        /\ phase[r] # "granted"
        /\ phase[r] = "queued" => \E q \in Active : phase[q] \in {"beginning", "reading"}

(* No batch is posted for a closed table or a cancelled request. *)
NoBatchAfterClose ==
    [][\A r \in Requests :
          outcome'[r] = "batch" /\ outcome[r] # "batch"
              => tableOpen[tableOf[r]] /\ ~cancelled[r]]_vars

(* The requests drive the permit queue through its own operations only. *)
PermitsRefined == Permits!Spec
=============================================================================
