---------------------------- MODULE RangeFlights ----------------------------
(***************************************************************************)
(* Shared range reads of the main thread (js/client.ts): callers that ask  *)
(* for the same range of the same table at the same revision join one      *)
(* Worker request, whose answer may enter the decoded-batch cache.  The    *)
(* table handles belong to one logical table of one dataset, and one range *)
(* is read, so that a cache key is a revision.                             *)
(*                                                                         *)
(* A message from the Worker is one task of the main thread.  What it or   *)
(* an abort resolves runs in microtasks (Settle, Leave, Resume), before    *)
(* the next message; code of the application may run between them.  The    *)
(* Worker is another thread: messages both ways are queued in order.       *)
(***************************************************************************)
EXTENDS Naturals, Sequences, SequencesExt

CONSTANTS
    Calls,        \* calls of readRange
    Handles,      \* table handles open at first
    HandleOf,     \* the handle each call is made on
    MaxRevision,  \* bound on the metadata updates of the Worker
    None

Revisions == 0..MaxRevision
Batch(r, complete) == [kind |-> "batch", revision |-> r, complete |-> complete]
Failure(kind) == [kind |-> kind]
Results == {Batch(r, b) : r \in Revisions, b \in BOOLEAN}
           \cup {Failure(k) : k \in {"aborted", "cancelled", "closed", "runtime", "error", "workerCancelled",
                                     "invalid"}}

ASSUME FlightAssumption ==
    /\ HandleOf \in [Calls -> Handles]
    /\ MaxRevision \in Nat
    /\ None \notin Calls \cup Results

VARIABLES
    open,        \* table handles that are not closed
    ver,         \* metadata.revision of each handle
    session,     \* "open", "closed" (the dataset) or "stopped" (the engine)
    call,        \* where each call stands
    asked,       \* revision in the key of each call
    joined,      \* the flight a call waits for, named by the call that created it
    got,         \* how a call ended
    flight,      \* where each flight stands
    answer,      \* what its request came to
    map,         \* #rangeSingleflight
    cache,       \* #rangeCache
    toWorker, toClient,          \* messages under way
    wtables, wactive, wrevision  \* the Worker: tables, active reads, revision

client == <<open, ver, session, call, asked, joined, got, flight, answer, map, cache>>
worker == <<wtables, wactive, wrevision>>
vars == <<client, toWorker, toClient, worker>>

Init ==
    /\ open = Handles /\ ver = [h \in Handles |-> 0] /\ session = "open"
    /\ call = [c \in Calls |-> "idle"] /\ asked = [c \in Calls |-> 0]
    /\ joined = [c \in Calls |-> None] /\ got = [c \in Calls |-> None]
    /\ flight = [c \in Calls |-> "none"] /\ answer = [c \in Calls |-> None]
    /\ map = [r \in Revisions |-> None] /\ cache = {}
    /\ toWorker = <<>> /\ toClient = <<>>
    /\ wtables = Handles /\ wactive = {} /\ wrevision = 0

(* Calls in flight.callers: a call leaves in the finally block of its join. *)
Callers(f) == {c \in Calls : joined[c] = f /\ call[c] \in {"waiting", "aborted"}}

(* No promise of the main thread has a reaction left to run. *)
Quiet ==
    /\ \A c \in Calls : call[c] # "aborted" /\ flight[c] # "arrived"
    /\ \A c \in Calls : call[c] = "waiting" => flight[joined[c]] # "settled"

----------------------------------------------------------------------------
(* readRange: the cache, then a flight of the same key, then a request. *)
Cached(r) == {e \in cache : e.key = r}

ReadHit(c) ==
    LET r == ver[HandleOf[c]] IN
    /\ call[c] = "idle" /\ HandleOf[c] \in open /\ session # "stopped"
    /\ asked' = [asked EXCEPT ![c] = r]
    /\ \E e \in Cached(r) : got' = [got EXCEPT ![c] = Batch(e.revision, e.complete)]
    /\ call' = [call EXCEPT ![c] = "done"]
    /\ UNCHANGED <<open, ver, session, joined, flight, answer, map, cache, toWorker, toClient, worker>>

ReadJoin(c) ==
    LET r == ver[HandleOf[c]] IN
    /\ call[c] = "idle" /\ HandleOf[c] \in open /\ session # "stopped"
    /\ Cached(r) = {} /\ map[r] # None
    /\ asked' = [asked EXCEPT ![c] = r]
    /\ joined' = [joined EXCEPT ![c] = map[r]]
    /\ call' = [call EXCEPT ![c] = "waiting"]
    /\ UNCHANGED <<open, ver, session, got, flight, answer, map, cache, toWorker, toClient, worker>>

(* createRangeSingleflight sends the request on the handle of this call. *)
ReadCreate(c) ==
    LET r == ver[HandleOf[c]] IN
    /\ call[c] = "idle" /\ HandleOf[c] \in open /\ session # "stopped"
    /\ Cached(r) = {} /\ map[r] = None
    /\ asked' = [asked EXCEPT ![c] = r]
    /\ joined' = [joined EXCEPT ![c] = c]
    /\ call' = [call EXCEPT ![c] = "waiting"]
    /\ flight' = [flight EXCEPT ![c] = "pending"]
    /\ map' = [map EXCEPT ![r] = c]
    /\ toWorker' = Append(toWorker, <<"read", c>>)
    /\ UNCHANGED <<open, ver, session, got, answer, cache, toClient, worker>>

(* The caller's signal aborts: its race rejects, unless the flight's       *)
(* promise has settled before.                                             *)
AbortCall(c) ==
    /\ call[c] = "waiting" /\ flight[joined[c]] # "settled"
    /\ call' = [call EXCEPT ![c] = "aborted"]
    /\ UNCHANGED <<open, ver, session, asked, joined, got, flight, answer, map, cache, toWorker, toClient, worker>>

----------------------------------------------------------------------------
(* controller.abort() on a set of flights, in the RPC client: a pending    *)
(* request is forgotten, cancelled in the Worker and rejected.             *)
AbortFlights(fs) ==
    LET pending == {f \in fs : flight[f] = "pending"} IN
    /\ flight' = [f \in Calls |-> IF f \in pending THEN "arrived" ELSE flight[f]]
    /\ answer' = [f \in Calls |-> IF f \in pending THEN Failure("aborted") ELSE answer[f]]

Cancels(fs) == {<<"cancel", f>> : f \in {g \in fs : flight[g] = "pending"}}

AbandonedAny(f, c) == flight[f] # "settled"               \* mutant: whoever else waits
Abandoned(f, c) == flight[f] # "settled" /\ Callers(f) \subseteq {c}

Forget(f) == [r \in Revisions |-> IF map[r] = f THEN None ELSE map[r]]

(* The finally block of joinRangeSingleflight after an abort: the last     *)
(* caller takes the flight out of the map and aborts it.                   *)
Leave(c) ==
    LET f == joined[c]
        gone == IF Abandoned(f, c) THEN {f} ELSE {} IN
    /\ call[c] = "aborted"
    /\ call' = [call EXCEPT ![c] = "done"]
    /\ got' = [got EXCEPT ![c] = Failure("cancelled")]
    /\ map' = IF gone = {} THEN map ELSE Forget(f)
    /\ AbortFlights(gone)
    /\ toWorker' = toWorker \o SetToSeq(Cancels(gone))
    /\ UNCHANGED <<open, ver, session, asked, joined, cache, toClient, worker>>

CacheableAny(f) == answer[f].kind = "batch" /\ answer[f].complete   \* mutant: checked before, not now
Cacheable(f) ==
    /\ answer[f].kind = "batch" /\ answer[f].complete
    /\ answer[f].revision = asked[f] /\ ver[HandleOf[f]] = asked[f]
    /\ session = "open"

ForgetKey(f) == [map EXCEPT ![asked[f]] = None]    \* mutant: whoever has the key
ForgetSettled(f) == Forget(f)

(* What validateBatchBacking does not accept: rows older than the request, *)
(* or a batch out of the range asked for or with an invalid layout, for    *)
(* which "invalid" stands.                                                 *)
RefusedBatch(f) ==
    \/ answer[f].kind = "invalid"
    \/ answer[f].kind = "batch" /\ answer[f].revision < asked[f]

(* The reactions of the request's promise: the cache takes a complete      *)
(* batch of the current revision, and the flight leaves the map if it is   *)
(* still the one there.                                                    *)
Settle(f) ==
    /\ flight[f] = "arrived" /\ ~RefusedBatch(f)
    /\ flight' = [flight EXCEPT ![f] = "settled"]
    /\ map' = ForgetSettled(f)
    /\ cache' = IF ~Cacheable(f) THEN cache
                ELSE cache \cup {[key |-> asked[f], revision |-> answer[f].revision,
                                  complete |-> answer[f].complete]}
    /\ UNCHANGED <<open, ver, session, call, asked, joined, got, answer, toWorker, toClient, worker>>

(* A caller goes on: a batch is refused if its handle has closed. *)
Resume(c) ==
    /\ call[c] = "waiting" /\ flight[joined[c]] = "settled"
    /\ call' = [call EXCEPT ![c] = "done"]
    /\ got' = [got EXCEPT ![c] =
                  IF answer[joined[c]].kind # "batch" THEN answer[joined[c]]
                  ELSE IF HandleOf[c] \in open /\ session # "stopped" THEN answer[joined[c]]
                  ELSE Failure("closed")]
    /\ UNCHANGED <<open, ver, session, asked, joined, flight, answer, map, cache, toWorker, toClient, worker>>

----------------------------------------------------------------------------
(* closeTable, and closeSession: clearDatasetCache drops the cache, and    *)
(* the flights in the map.                                                 *)
CloseTable(h) ==
    /\ h \in open
    /\ open' = open \ {h}
    /\ toWorker' = Append(toWorker, <<"closeTable", h>>)
    /\ UNCHANGED <<ver, session, call, asked, joined, got, flight, answer, map, cache, toClient, worker>>

Mapped == {map[r] : r \in Revisions} \ {None}

(* Once every handle is closed and no request is pending, the main thread  *)
(* ignores what the Worker still sends; the queues and the Worker's part   *)
(* are dropped with the session.                                           *)
WorkerDropped ==
    /\ toWorker' = <<>> /\ toClient' = <<>>
    /\ wtables' = {} /\ wactive' = {} /\ UNCHANGED wrevision

ClearDatasetCache ==
    /\ cache' = {} /\ map' = [r \in Revisions |-> None]
    /\ AbortFlights(Mapped)

CloseSession ==
    /\ session = "open" /\ session' = "closed"
    /\ ClearDatasetCache
    /\ open' = {} /\ WorkerDropped
    /\ UNCHANGED <<ver, call, asked, joined, got>>

(* Engine.close closes the sessions locally, then shuts the Worker down. *)
EngineClose ==
    /\ session = "open" /\ session' = "stopped"
    /\ ClearDatasetCache
    /\ open' = {} /\ WorkerDropped
    /\ UNCHANGED <<ver, call, asked, joined, got>>

(* The RPC client stops: every request that is pending is rejected, those  *)
(* in done have already been answered and settle.                          *)
FailPendingNone(done) ==                                   \* mutant: callers are not told
    /\ flight' = [f \in Calls |-> IF f \in done THEN "settled" ELSE flight[f]]
    /\ UNCHANGED answer
FailPending(done) ==
    /\ flight' = [f \in Calls |-> IF f \in done THEN "settled"
                                  ELSE IF flight[f] = "pending" THEN "arrived" ELSE flight[f]]
    /\ answer' = [f \in Calls |-> IF flight[f] = "pending" THEN Failure("runtime") ELSE answer[f]]

HandleRuntimeFailure ==
    /\ session' = "stopped"
    /\ cache' = {} /\ map' = [r \in Revisions |-> None]
    /\ open' = {} /\ WorkerDropped

(* The Worker dies. *)
RuntimeFailure ==
    /\ Quiet /\ session = "open"
    /\ FailPending({})
    /\ HandleRuntimeFailure
    /\ UNCHANGED <<ver, call, asked, joined, got>>

(* The reaction refuses the batch: terminateForProtocolFailure ends the    *)
(* engine, unless it has ended before, and the flight settles with the     *)
(* error.                                                                  *)
SettleRefused(f) ==
    /\ flight[f] = "arrived" /\ RefusedBatch(f)
    /\ FailPending({f})
    /\ IF session # "stopped" THEN HandleRuntimeFailure
       ELSE map' = ForgetSettled(f) /\ UNCHANGED <<open, session, cache, toWorker, toClient, worker>>
    /\ UNCHANGED <<ver, call, asked, joined, got>>

----------------------------------------------------------------------------
(* A message of the Worker: an answer to a request that is still pending,  *)
(* or new metadata for the handles that are open.                          *)
DeliverAnswer ==
    LET m == Head(toClient) IN
    /\ Quiet /\ toClient # <<>> /\ m[1] = "answer"
    /\ toClient' = Tail(toClient)
    /\ IF flight[m[2]] # "pending" THEN UNCHANGED <<flight, answer>>
       ELSE /\ flight' = [flight EXCEPT ![m[2]] = "arrived"]
            /\ answer' = [answer EXCEPT ![m[2]] = m[3]]
    /\ UNCHANGED <<open, ver, session, call, asked, joined, got, map, cache, toWorker, worker>>

DeliverMetadata ==
    LET m == Head(toClient) IN
    /\ Quiet /\ toClient # <<>> /\ m[1] = "metadata"
    /\ toClient' = Tail(toClient)
    /\ ver' = [h \in Handles |-> IF h \in open THEN m[2] ELSE ver[h]]
    /\ cache' = IF open = {} THEN cache ELSE Cached(m[2])
    /\ UNCHANGED <<open, session, call, asked, joined, got, flight, answer, map, toWorker, worker>>

----------------------------------------------------------------------------
(* The Worker.  It owns reads by table handle: closing a handle cancels    *)
(* the reads that were sent on it.                                         *)
WorkerCancels(fs) == toClient' = toClient \o SetToSeq({<<"answer", f, Failure("workerCancelled")>> : f \in fs})

ReceiveRead ==
    LET f == Head(toWorker)[2] IN
    /\ toWorker # <<>> /\ Head(toWorker)[1] = "read" /\ toWorker' = Tail(toWorker)
    /\ IF HandleOf[f] \in wtables
       THEN wactive' = wactive \cup {f} /\ UNCHANGED toClient
       ELSE UNCHANGED wactive /\ WorkerCancels({f})
    /\ UNCHANGED <<client, wtables, wrevision>>

ReceiveCancel ==
    LET hit == wactive \cap {Head(toWorker)[2]} IN
    /\ toWorker # <<>> /\ Head(toWorker)[1] = "cancel" /\ toWorker' = Tail(toWorker)
    /\ wactive' = wactive \ hit /\ WorkerCancels(hit)
    /\ UNCHANGED <<client, wtables, wrevision>>

ReceiveCloseTable ==
    LET h == Head(toWorker)[2]
        hit == {f \in wactive : HandleOf[f] = h} IN
    /\ toWorker # <<>> /\ Head(toWorker)[1] = "closeTable" /\ toWorker' = Tail(toWorker)
    /\ wtables' = wtables \ {h}
    /\ wactive' = wactive \ hit /\ WorkerCancels(hit)
    /\ UNCHANGED <<client, wrevision>>

WorkerReceive == ReceiveRead \/ ReceiveCancel \/ ReceiveCloseTable

WorkerAnswer(f) ==
    /\ f \in wactive /\ wactive' = wactive \ {f}
    /\ \E a \in {Batch(wrevision, TRUE), Batch(wrevision, FALSE), Failure("error"), Failure("invalid")} :
          toClient' = Append(toClient, <<"answer", f, a>>)
    /\ UNCHANGED <<client, toWorker, wtables, wrevision>>

WorkerRevises ==
    /\ wrevision < MaxRevision /\ session = "open"
    /\ wrevision' = wrevision + 1
    /\ toClient' = Append(toClient, <<"metadata", wrevision + 1>>)
    /\ UNCHANGED <<client, toWorker, wtables, wactive>>

Microtask(c) == Leave(c) \/ Settle(c) \/ SettleRefused(c) \/ Resume(c)

Next ==
    \/ \E c \in Calls : ReadHit(c) \/ ReadJoin(c) \/ ReadCreate(c) \/ AbortCall(c)
                        \/ Leave(c) \/ Settle(c) \/ SettleRefused(c) \/ Resume(c) \/ WorkerAnswer(c)
    \/ \E h \in Handles : CloseTable(h)
    \/ CloseSession \/ EngineClose \/ RuntimeFailure
    \/ DeliverAnswer \/ DeliverMetadata \/ WorkerRevises
    \/ ReceiveRead \/ ReceiveCancel \/ ReceiveCloseTable

(* Microtasks and messages are delivered, and the Worker answers           *)
(* (NoStrandedReader of WorkerRanges).                                     *)
Fairness ==
    /\ \A c \in Calls : WF_vars(Microtask(c)) /\ WF_vars(WorkerAnswer(c))
    /\ WF_vars(DeliverAnswer) /\ WF_vars(DeliverMetadata) /\ WF_vars(WorkerReceive)

Spec == Init /\ [][Next]_vars
LiveSpec == Spec /\ Fairness

----------------------------------------------------------------------------
TypeOK ==
    /\ open \subseteq Handles /\ ver \in [Handles -> Revisions]
    /\ session \in {"open", "closed", "stopped"}
    /\ call \in [Calls -> {"idle", "waiting", "aborted", "done"}]
    /\ joined \in [Calls -> Calls \cup {None}]
    /\ \A c \in Calls : got[c] \in Results \cup {None} /\ (call[c] = "done") = (got[c] # None)
    /\ flight \in [Calls -> {"none", "pending", "arrived", "settled"}]
    /\ \A c \in Calls : (flight[c] \in {"arrived", "settled"}) = (answer[c] # None)
    /\ map \in [Revisions -> Calls \cup {None}]

(* README.md 248: concurrent identical misses share one Worker request.    *)
(* A pending flight is the one the next caller of its key finds, although a *)
(* flight that was aborted cleans up after its successor may have been     *)
(* created; so no two requests of one key are pending together.            *)
OneRequestPerKey ==
    /\ \A f, g \in Calls : flight[f] = "pending" /\ flight[g] = "pending" /\ asked[f] = asked[g] => f = g
    /\ \A f \in Calls : flight[f] = "pending" /\ session = "open" => map[asked[f]] = f

(* The main thread itself cancels a call only when the caller has asked    *)
(* for it or the dataset is closed: no caller joins an abandoned flight.   *)
CancelledByOwner ==
    \A c \in Calls : got[c] = Failure("aborted") => session # "open"

FlightInv == TypeOK /\ OneRequestPerKey /\ CancelledByOwner

(* Work shared by others is not cancelled: while the dataset is open a     *)
(* cancel is posted for a flight only when nobody waits for it any more.   *)
CancelWhenAllLeft ==
    [][\A f \in Calls :
          (session' = "open" /\ Contains(toWorker', <<"cancel", f>>) /\ ~Contains(toWorker, <<"cancel", f>>))
          => \A c \in Calls : joined'[c] = f => call'[c] # "waiting"]_vars

(* No caller gets rows of a revision older than the one its handle showed  *)
(* when it asked, from the cache or from a flight.                         *)
NoStaleBatch ==
    \A c \in Calls : got[c] # None /\ got[c].kind = "batch" => got[c].revision >= asked[c]

(* The cache holds complete batches of the revision in their key, and      *)
(* nothing of a closed dataset, also when the close comes between the      *)
(* arrival of an answer and the code that would store it.                  *)
CacheHonest ==
    \A e \in cache : e.complete /\ e.revision = e.key /\ session = "open"

(* The rows a caller gets are those it asked for. *)
NoStaleRows == NoStaleBatch /\ CacheHonest

(* Every call of readRange settles. *)
CallSettles == \A c \in Calls : call[c] = "waiting" ~> call[c] = "done"

(* docs/architecture.md 145: a single caller may cancel independently, and *)
(* only cancellation of all waiters propagates to the Worker.  A caller    *)
(* whose handle is open never sees its read cancelled by the Worker.       *)
OthersUndisturbed ==
    \A c \in Calls : got[c] = Failure("workerCancelled") => HandleOf[c] \notin open
=============================================================================
