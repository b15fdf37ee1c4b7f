---------------------------- MODULE SourceBroker ----------------------------
(***************************************************************************)
(* Byte ranges of a RangeSource travel from the provider on the main       *)
(* thread to the Worker.  The Worker half (js/worker/source-accessor.ts)   *)
(* posts source-read, source-read-cancel and source-close; the main half   *)
(* (js/client.ts) admits each read through the reader's concurrency        *)
(* limiter and then the engine-wide staging limiter, calls the provider,   *)
(* and posts the bytes or a failure back.  Messages keep their order.      *)
(*                                                                         *)
(* A task is a delivered message or a call from outside; the continuations *)
(* it schedules (ready) run before the next task.  The two threads         *)
(* interleave freely.                                                      *)
(***************************************************************************)
EXTENDS Naturals, Sequences, FiniteSets, SequencesExt

CONSTANTS
    Sources,       \* source handles, one reader and one dataset each
    Reads,         \* request ids of the Worker's broker, never reused
    SourceOf,      \* the source each read is for
    Length,        \* bytes each read asks for
    Capacity,      \* main-thread staging budget in bytes
    Concurrencies  \* what the sources may ask for as maxConcurrency

ASSUME BrokerAssumption ==
    /\ SourceOf \in [Reads -> Sources]
    /\ Capacity \in Nat
    /\ Length \in [Reads -> 1..Capacity]
    /\ Concurrencies \subseteq [Sources -> 1..4]

VARIABLES
    maxConcurrency,    \* of each reader, fixed when it is opened
    toMain, toWorker,  \* the two message channels
    outcome,           \* Worker: what a broker request settled with
    accessorOpen,      \* Worker: the RangeSourceAccessor of the source is open
    readerOpen,        \* main: ~record.closed
    closeCalls,        \* main: calls of the provider's close
    pending,           \* main: reads with a controller in record.pending
    aborted,           \* main: reads whose AbortSignal fired
    phase,             \* main: where runSourceRead of a read stands
    concurrencyQueue,  \* main: #queue of the reader's SourceReadConcurrencyLimiter
    running,           \* main: its #active
    calls,             \* main: reads that hold a release of it
    stagingQueue,      \* main: #queue of the SourceStagingLimiter
    used,              \* main: its #used
    staged,            \* main: reads that hold a staging permit
    engineOpen,        \* main: ~#closed
    ready              \* main: reads whose continuation is a scheduled microtask

worker == <<outcome, accessorOpen>>
main == <<readerOpen, closeCalls, pending, aborted, phase, concurrencyQueue, running,
          calls, stagingQueue, used, staged, engineOpen, ready>>
vars == <<maxConcurrency, toMain, toWorker, outcome, accessorOpen, readerOpen, closeCalls, pending, aborted,
          phase, concurrencyQueue, running, calls, stagingQueue, used, staged, engineOpen, ready>>

Msg(type, subject) == [type |-> type, of |-> subject]

Phase ==
    {"none",
     "concurrency",   \* waiting for a provider call of the reader
     "admitted",      \* granted one
     "staging",       \* waiting for staging bytes
     "staged",        \* granted them
     "rejected",      \* one of the two acquire promises was rejected
     "calling",       \* re-checked: the microtask that calls reader.read is scheduled
     "providing",     \* reader.read is running
     "ending",        \* about to run the finally block
     "done"}

(* What is left of a limiter's queue when the reads in S are spliced out.  *)
Without(queue, S) ==
    FoldLeft(LAMBDA rest, r : IF r \in S THEN rest ELSE Append(rest, r), <<>>, queue)

Outstanding == {r \in Reads : outcome[r] = "pending"}
Quiet == ready = {}

Init ==
    /\ maxConcurrency \in Concurrencies
    /\ toMain = <<>> /\ toWorker = <<>>
    /\ outcome = [r \in Reads |-> "none"]
    /\ accessorOpen = [s \in Sources |-> TRUE]
    /\ readerOpen = [s \in Sources |-> TRUE]
    /\ closeCalls = [s \in Sources |-> 0]
    /\ pending = {} /\ aborted = {}
    /\ phase = [r \in Reads |-> "none"]
    /\ concurrencyQueue = [s \in Sources |-> <<>>]
    /\ running = [s \in Sources |-> 0] /\ calls = {}
    /\ stagingQueue = <<>> /\ used = 0 /\ staged = {}
    /\ engineOpen = TRUE
    /\ ready = {}

----------------------------------------------------------------------------
(* The Worker.  The accessor's own permit queue keeps at most              *)
(* maxConcurrency broker requests of a source outstanding; a cancelled one *)
(* is no longer counted there although its provider call may still run.    *)
WorkerRead(r) ==
    /\ outcome[r] = "none" /\ accessorOpen[SourceOf[r]]
    /\ Cardinality({q \in Outstanding : SourceOf[q] = SourceOf[r]}) < maxConcurrency[SourceOf[r]]
    /\ outcome' = [outcome EXCEPT ![r] = "pending"]
    /\ toMain' = Append(toMain, Msg("read", r))
    /\ UNCHANGED <<accessorOpen, toWorker, main>>

(* Nobody waits for the range any more: broker request cancellation. *)
WorkerCancel(r) ==
    /\ r \in Outstanding
    /\ outcome' = [outcome EXCEPT ![r] = "cancelled"]
    /\ toMain' = Append(toMain, Msg("cancel", r))
    /\ UNCHANGED <<accessorOpen, toWorker, main>>

(* RangeSourceAccessor.close and broker.close: every outstanding read of   *)
(* the source is cancelled and rejected, then source-close is posted.      *)
CloseAccessor(s) ==
    LET orphans == {r \in Outstanding : SourceOf[r] = s}
        cancels == SetToSeq(orphans)
    IN  /\ accessorOpen' = [accessorOpen EXCEPT ![s] = FALSE]
        /\ outcome' = [r \in Reads |-> IF r \in orphans THEN "closed" ELSE outcome[r]]
        /\ toMain' = toMain \o [i \in 1..Len(cancels) |-> Msg("cancel", cancels[i])]
                            \o <<Msg("close", s)>>

(* closeDatasetState: the application closed the dataset (closeSource),    *)
(* its background scan failed or one of its reads did. closeSession on the main thread waits for  *)
(* the acknowledgement of closeSource, which follows source-close, so its  *)
(* own closeDatasetSource finds the reader closed.                         *)
WorkerClose(s) ==
    /\ accessorOpen[s]
    /\ CloseAccessor(s)
    /\ UNCHANGED <<toWorker, main>>

(* handle: an answer settles its request if it is still outstanding.  A    *)
(* failed source read goes on to end the dataset, once its operations have *)
(* stopped (terminateDatasetForSourceFailure, or the failed open): that is *)
(* a WorkerClose of its own, any number of steps later.                    *)
WorkerReceive ==
    /\ toWorker # <<>>
    /\ toWorker' = Tail(toWorker)
    /\ LET m == Head(toWorker) IN
       outcome' = IF m.of \notin Outstanding THEN outcome
                  ELSE [outcome EXCEPT ![m.of] = IF m.type = "bytes" THEN "bytes" ELSE "failed"]
    /\ UNCHANGED <<accessorOpen, toMain, main>>

----------------------------------------------------------------------------
(* The main thread: the limiters.                                          *)

(* Mutant: the waiters that do not fit are forgotten. *)
DrainForgets(bytes, queue) ==
    FoldLeft(LAMBDA acc, r :
                IF acc.used + Length[r] <= Capacity
                THEN [acc EXCEPT !.used = @ + Length[r], !.granted = @ \cup {r}]
                ELSE acc,
             [used |-> bytes, granted |-> {}, queue |-> <<>>],
             queue)

(* SourceStagingLimiter.#drain: hand the free bytes to the waiters that    *)
(* fit, oldest first.  Bytes only shrink while it runs, so one pass over   *)
(* the queue is the same as its repeated search for the first that fits.   *)
Drain(bytes, queue) ==
    FoldLeft(LAMBDA acc, r :
                IF acc.used + Length[r] <= Capacity
                THEN [acc EXCEPT !.used = @ + Length[r], !.granted = @ \cup {r}]
                ELSE [acc EXCEPT !.queue = Append(@, r)],
             [used |-> bytes, granted |-> {}, queue |-> <<>>],
             queue)

(* The release closure of a staging permit. *)
ReleaseBytes(r) ==
    IF r \notin staged
    THEN UNCHANGED <<used, stagingQueue, staged>>
    ELSE LET d == IF engineOpen THEN Drain(used - Length[r], stagingQueue)
                  ELSE [used |-> used - Length[r], granted |-> {}, queue |-> stagingQueue]
         IN  /\ used' = d.used
             /\ stagingQueue' = d.queue
             /\ staged' = (staged \ {r}) \cup d.granted

RunningAfterAlways(s, handover) == running[s] - 1       \* mutant: the handover is not counted
RunningAfter(s, handover) == IF handover THEN running[s] ELSE running[s] - 1

(* The release closure of a provider call: it goes to the next read of the *)
(* same reader, unless the reader is closed.                               *)
ReleaseCall(r) ==
    LET s == SourceOf[r]
        handover == readerOpen[s] /\ concurrencyQueue[s] # <<>>
    IN  IF r \notin calls
        THEN UNCHANGED <<running, concurrencyQueue, calls>>
        ELSE /\ running' = [running EXCEPT ![s] = RunningAfter(s, handover)]
             /\ concurrencyQueue' = [concurrencyQueue EXCEPT ![s] = IF handover THEN Tail(@) ELSE @]
             /\ calls' = (calls \ {r}) \cup (IF handover THEN {Head(concurrencyQueue[s])} ELSE {})

(* A continuation runs; between the end of a read's try block and its      *)
(* finally block nothing else does.                                        *)
NoneEnding == \A r \in Reads : phase[r] # "ending"
Runs(r) == r \in ready /\ (NoneEnding \/ phase[r] = "ending")

(* The finally block of runSourceRead. *)
Finally(r) ==
    /\ Runs(r) /\ phase[r] = "ending"
    /\ ReleaseBytes(r) /\ ReleaseCall(r)
    /\ pending' = pending \ {r}
    /\ LET admit == calls' \ calls
           stage == staged' \ staged
       IN  /\ phase' = [q \in Reads |-> IF q = r THEN "done" ELSE IF q \in admit THEN "admitted"
                                        ELSE IF q \in stage THEN "staged" ELSE phase[q]]
           /\ ready' = (ready \ {r}) \cup admit \cup stage
    /\ UNCHANGED <<worker, toMain, toWorker, readerOpen, closeCalls, aborted, engineOpen>>

(* record.concurrency.acquire for a read that has just been registered. *)
AcquireCall(r) ==
    LET s == SourceOf[r]
        free == running[s] < maxConcurrency[s]
    IN  /\ running' = IF free THEN [running EXCEPT ![s] = @ + 1] ELSE running
        /\ calls' = IF free THEN calls \cup {r} ELSE calls
        /\ concurrencyQueue' = IF free THEN concurrencyQueue
                               ELSE [concurrencyQueue EXCEPT ![s] = Append(@, r)]
        /\ phase' = [phase EXCEPT ![r] = IF free THEN "admitted" ELSE "concurrency"]
        /\ ready' = IF free THEN ready \cup {r} ELSE ready

(* The provider call is granted: sourceStaging.acquire, which rejects when *)
(* the engine is closed or the signal has fired, takes the bytes if they   *)
(* fit even when others wait, and queues otherwise.                        *)
AcquireBytes(r) ==
    /\ Runs(r) /\ phase[r] = "admitted"
    /\ LET refused == ~engineOpen \/ r \in aborted
           fits == used + Length[r] <= Capacity
       IN  /\ phase' = [phase EXCEPT ![r] = IF refused THEN "rejected"
                                            ELSE IF fits THEN "staged" ELSE "staging"]
           /\ used' = IF ~refused /\ fits THEN used + Length[r] ELSE used
           /\ staged' = IF ~refused /\ fits THEN staged \cup {r} ELSE staged
           /\ stagingQueue' = IF ~refused /\ ~fits THEN Append(stagingQueue, r) ELSE stagingQueue
           /\ ready' = IF ~refused /\ ~fits THEN ready \ {r} ELSE ready
    /\ UNCHANGED <<worker, toMain, toWorker, readerOpen, closeCalls, pending, aborted,
                   concurrencyQueue, running, calls, engineOpen>>

Current(r) == readerOpen[SourceOf[r]] /\ r \in pending

Wanted(r) == Current(r) /\ r \notin aborted

(* The bytes are granted and the read is re-checked: it ends there if it   *)
(* was cancelled or its reader closed, and else schedules the call.        *)
Recheck(r) ==
    /\ Runs(r) /\ phase[r] = "staged"
    /\ phase' = [phase EXCEPT ![r] = IF Wanted(r) THEN "calling" ELSE "ending"]
    /\ UNCHANGED <<worker, toMain, toWorker, readerOpen, closeCalls, pending, aborted,
                   concurrencyQueue, running, calls, stagingQueue, used, staged, engineOpen, ready>>

(* Promise.resolve().then(() => reader.read(...)): user code is called,    *)
(* whatever other continuations have done to the read since its re-check.  *)
CallProvider(r) ==
    /\ Runs(r) /\ phase[r] = "calling"
    /\ phase' = [phase EXCEPT ![r] = "providing"]
    /\ ready' = ready \ {r}
    /\ UNCHANGED <<worker, toMain, toWorker, readerOpen, closeCalls, pending, aborted,
                   concurrencyQueue, running, calls, stagingQueue, used, staged, engineOpen>>

(* The catch block of a rejected acquire. *)
Rejected(r) ==
    /\ Runs(r) /\ phase[r] = "rejected"
    /\ toWorker' = IF Current(r) THEN Append(toWorker, Msg("failure", r)) ELSE toWorker
    /\ phase' = [phase EXCEPT ![r] = "ending"]
    /\ UNCHANGED <<worker, toMain, readerOpen, closeCalls, pending, aborted,
                   concurrencyQueue, running, calls, stagingQueue, used, staged, engineOpen, ready>>

Closable(S) == {s \in S : readerOpen[s]}

QueuedForCalls(S) == {r \in S : phase[r] = "concurrency"}   \* mutant: the signal of a staging waiter is lost
Queued(S) == {r \in S : phase[r] \in {"concurrency", "staging"}}

(* closeSourceReader for the readers in S, once each: the waiting reads    *)
(* are rejected, running provider reads only see their signal fire.        *)
CloseReaders(S, phase0) ==
    LET closing == Closable(S)
        hit == {r \in pending : SourceOf[r] \in closing}
        waiting == Queued(hit)
    IN  /\ readerOpen' = [s \in Sources |-> readerOpen[s] /\ s \notin closing]
        /\ closeCalls' = [s \in Sources |-> IF s \in closing THEN closeCalls[s] + 1 ELSE closeCalls[s]]
        /\ aborted' = aborted \cup hit
        /\ pending' = pending \ hit
        /\ concurrencyQueue' = [s \in Sources |-> IF s \in closing THEN <<>> ELSE concurrencyQueue[s]]
        /\ stagingQueue' = Without(stagingQueue, waiting)
        /\ phase' = [r \in Reads |-> IF r \in waiting THEN "rejected" ELSE phase0[r]]
        /\ ready' = ready \cup waiting \cup {r \in Reads : phase0[r] = "ending"}

(* The provider's promise settles, at any time: a provider may answer from *)
(* memory, between two continuations.  A result for a read that is no      *)
(* longer current is dropped; a rejection is reported while the read is    *)
(* registered, and SOURCE_CHANGED also closes the reader.                  *)
ProviderResolves(r) ==
    /\ NoneEnding /\ phase[r] = "providing"
    /\ toWorker' = IF Wanted(r) THEN Append(toWorker, Msg("bytes", r)) ELSE toWorker
    /\ phase' = [phase EXCEPT ![r] = "ending"]
    /\ ready' = ready \cup {r}
    /\ UNCHANGED <<worker, toMain, readerOpen, closeCalls, pending, aborted,
                   concurrencyQueue, running, calls, stagingQueue, used, staged, engineOpen>>

ProviderRejects(r, changed) ==
    /\ NoneEnding /\ phase[r] = "providing"
    /\ toWorker' = IF Current(r) THEN Append(toWorker, Msg("failure", r)) ELSE toWorker
    /\ CloseReaders(IF changed /\ Current(r) THEN {SourceOf[r]} ELSE {},
                    [phase EXCEPT ![r] = "ending"])
    /\ UNCHANGED <<worker, toMain, running, calls, used, staged, engineOpen>>

(* handleSourceBrokerMessage *)
ReceiveRead(r) ==
    IF readerOpen[SourceOf[r]]
    THEN /\ pending' = pending \cup {r}
         /\ AcquireCall(r)
         /\ UNCHANGED <<toWorker, readerOpen, closeCalls, aborted, stagingQueue>>
    ELSE /\ toWorker' = Append(toWorker, Msg("failure", r))
         /\ UNCHANGED <<pending, running, calls, concurrencyQueue, phase, ready, readerOpen,
                        closeCalls, aborted, stagingQueue>>

ReceiveCancel(r) ==
    LET waiting == phase[r] \in {"concurrency", "staging"}
    IN  IF ~Current(r)
        THEN UNCHANGED <<pending, running, calls, concurrencyQueue, phase, ready, readerOpen,
                         closeCalls, aborted, stagingQueue, toWorker>>
        ELSE /\ aborted' = aborted \cup {r}
             /\ concurrencyQueue' = [concurrencyQueue EXCEPT
                                         ![SourceOf[r]] = Without(@, {r})]
             /\ stagingQueue' = Without(stagingQueue, {r})
             /\ phase' = IF waiting THEN [phase EXCEPT ![r] = "rejected"] ELSE phase
             /\ ready' = IF waiting THEN {r} ELSE {}
             /\ UNCHANGED <<pending, running, calls, readerOpen, closeCalls, toWorker>>

MainReceive ==
    /\ Quiet /\ toMain # <<>>
    /\ toMain' = Tail(toMain)
    /\ LET m == Head(toMain) IN
       CASE m.type = "read" -> ReceiveRead(m.of)
         [] m.type = "cancel" -> ReceiveCancel(m.of)
         [] m.type = "close" -> CloseReaders({m.of}, phase) /\ UNCHANGED <<running, calls, toWorker>>
    /\ UNCHANGED <<worker, used, staged, engineOpen>>

(* Engine.close or handleRuntimeFailure: the staging limiter and every     *)
(* reader close.  A Worker that still runs until its shutdown is answered  *)
(* HANDLE_CLOSED.  The application may call close from a continuation of   *)
(* its own, between any two of the engine's.                               *)
EngineStops ==
    /\ NoneEnding /\ engineOpen
    /\ engineOpen' = FALSE
    /\ CloseReaders(Sources, phase)
    /\ UNCHANGED <<worker, toMain, toWorker, running, calls, used, staged>>

Microtask(r) == AcquireBytes(r) \/ Recheck(r) \/ CallProvider(r) \/ Rejected(r) \/ Finally(r)

ProviderSettles(r) == ProviderResolves(r) \/ \E changed \in BOOLEAN : ProviderRejects(r, changed)

Step ==
    \/ \E r \in Reads : WorkerRead(r) \/ WorkerCancel(r) \/ Microtask(r) \/ ProviderSettles(r)
    \/ \E s \in Sources : WorkerClose(s)
    \/ WorkerReceive \/ MainReceive \/ EngineStops

Next == Step /\ UNCHANGED maxConcurrency

Spec == Init /\ [][Next]_vars

----------------------------------------------------------------------------
Answer == {"none", "pending", "bytes", "failed", "cancelled", "closed"}

TypeOK ==
    /\ phase \in [Reads -> Phase]
    /\ outcome \in [Reads -> Answer]
    /\ used \in 0..Capacity
    /\ running \in [Sources -> Nat]
    /\ pending \subseteq Reads /\ aborted \subseteq Reads
    /\ ready \subseteq Reads /\ calls \subseteq Reads /\ staged \subseteq Reads

BytesOf(S) == FoldSet(LAMBDA r, n : Length[r] + n, 0, S)

(* The staging bytes charged are exactly those of the reads that hold a    *)
(* permit, and the provider calls charged to a reader are its own.         *)
LimitersExact ==
    /\ used = BytesOf(staged)
    /\ \A s \in Sources : running[s] = Cardinality({r \in calls : SourceOf[r] = s})
                            /\ running[s] <= maxConcurrency[s]

(* A read that has ended holds neither a provider call nor staging bytes,  *)
(* and none waits in a queue: cancellation, close and failure leak nothing.*)
NothingHeld ==
    \A r \in Reads : phase[r] \in {"none", "done"} =>
        /\ r \notin calls /\ r \notin staged /\ r \notin pending
        /\ \A i \in 1..Len(stagingQueue) : stagingQueue[i] # r

(* Each reader's close is called once, however many of dataset close,      *)
(* source-close, SOURCE_CHANGED and engine close happen.                   *)
ClosedOnce == \A s \in Sources : closeCalls[s] = (IF readerOpen[s] THEN 0 ELSE 1)

(* Calls, bytes, queues and readers of the main thread, all accounted for. *)
BrokerInv == TypeOK /\ LimitersExact /\ NothingHeld /\ ClosedOnce

(* No lost wakeup in either limiter: when the main thread is idle, a read  *)
(* waits only for capacity that really is taken.                           *)
WaitsForCapacity ==
    Quiet /\ engineOpen =>
        /\ \A i \in 1..Len(stagingQueue) : used + Length[stagingQueue[i]] > Capacity
        /\ \A s \in Sources : concurrencyQueue[s] # <<>> => running[s] = maxConcurrency[s]

(* Calls of user code for a source: those on their way and those running,  *)
(* of reads still wanted and of reads cancelled or closed meanwhile.       *)
UserCalls(s) == {r \in Reads : SourceOf[r] = s /\ phase[r] \in {"calling", "providing"}}

(* The engine's claim on user code stays bounded however reads end: never  *)
(* more calls of a source at once than it asked for and never more bytes   *)
(* than the staging budget, the calls of dead reads (which go on) included.*)
(* Once a reader has closed and the main thread has gone idle, nothing of  *)
(* it is left but calls already made: no waiter can call it later.  (Within*)
(* that drain it can: a reader that closes between a read's re-check and   *)
(* its call is still called.)                                              *)
HostWorkContained ==
    /\ \A s \in Sources : Cardinality(UserCalls(s)) <= maxConcurrency[s]
    /\ BytesOf(UNION {UserCalls(s) : s \in Sources}) <= Capacity
    /\ Quiet => \A r \in Reads :
          ~readerOpen[SourceOf[r]] => phase[r] \in {"none", "providing", "done"}

(* The Worker never waits for ever for a range of a reader that stays      *)
(* open: its request is on the way, in the care of runSourceRead (and, if  *)
(* it waits for a limiter, in that queue), or its answer is on the way.    *)
(* That a closed reader's reads are answered too is more than the code     *)
(* does: when a provider reports SOURCE_CHANGED for a read the Worker has  *)
(* cancelled meanwhile, the reader's other reads are dropped.              *)
AnswerUnderWay ==
    \A r \in Outstanding : readerOpen[SourceOf[r]] =>
        \/ Contains(toMain, Msg("read", r))
        \/ Contains(toWorker, Msg("bytes", r)) \/ Contains(toWorker, Msg("failure", r))
        \/ phase[r] \in {"admitted", "staged", "calling", "providing"}
        \/ phase[r] = "concurrency" /\ Contains(concurrencyQueue[SourceOf[r]], r)
        \/ phase[r] = "staging" /\ Contains(stagingQueue, r)

(* A read of an open reader is always under way, and waits only for what   *)
(* others really hold.                                                     *)
ReadsAdvance == WaitsForCapacity /\ AnswerUnderWay
=============================================================================
