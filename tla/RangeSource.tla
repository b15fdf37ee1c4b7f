---------------------------- MODULE RangeSource ----------------------------
(***************************************************************************)
(* RangeSourceAccessor (js/worker/source-accessor.ts): reads of a remote   *)
(* source share provider work (an in-flight range is joined by every read  *)
(* that overlaps it), keep the bytes in a byte-bounded LRU, take at most   *)
(* MaxConcurrency provider permits, and may each be cancelled alone.       *)
(*                                                                         *)
(* A task is a call of read, an answer of the broker, a cancellation or    *)
(* close.  Reads whose promises a task settles continue as microtasks      *)
(* (ready), in some order, before the next task.  An in-flight range is    *)
(* named by the read that created it: a read creates at most one.          *)
(***************************************************************************)
EXTENDS RangeIntervals

CONSTANTS
    Reads,            \* calls of read
    Want,             \* the byte range of each
    MaxCache,         \* #maxCacheBytes
    MaxConcurrency    \* #maxConcurrency

ASSUME RangeSourceAssumption ==
    /\ IsFiniteSet(Reads)
    /\ Want \in [Reads -> [lo : Nat, hi : Nat]]
    /\ \A r \in Reads : Want[r].lo < Want[r].hi
    /\ MaxCache \in Nat
    /\ MaxConcurrency \in 1..4

VARIABLES
    open,        \* ~#closed
    cache,       \* #cache, in order of insertion; used is the rank of lastUsed
    state,       \* "idle", "waiting" for promises, or "done"
    joined,      \* the in-flight ranges a waiting read waits for
    inherited,   \* segments a read got from ranges it joined
    outcome,     \* what read settled with
    inflight,    \* #inflight
    waiters,     \* their waiters
    flight,      \* their promise: running, failing (a lane has failed), or settled
    todo,        \* their holes not yet taken by a lane of runBounded
    fetched,     \* the segments they fetched
    queue,       \* #providerQueue, of <<range, hole>>
    requested,   \* broker requests outstanding, of <<range, hole>>
    permits,     \* #providerReads
    ready        \* the microtask queue: reads whose promises have settled, oldest first

flights == <<inflight, waiters, flight, todo, fetched, queue, requested, permits>>
vars == <<open, cache, state, joined, inherited, outcome, inflight, waiters, flight, todo,
          fetched, queue, requested, permits, ready>>

Quiet == ready = <<>>
Runs(r) == ~Quiet /\ Head(ready) = r

Init ==
    /\ open = TRUE
    /\ cache = <<>>
    /\ state = [r \in Reads |-> "idle"]
    /\ joined = [r \in Reads |-> {}]
    /\ inherited = [r \in Reads |-> {}]
    /\ outcome = [r \in Reads |-> "none"]
    /\ inflight = {}
    /\ waiters = [r \in Reads |-> 0]
    /\ flight = [r \in Reads |-> "none"]
    /\ todo = [r \in Reads |-> <<>>]
    /\ fetched = [r \in Reads |-> <<>>]
    /\ queue = <<>>
    /\ requested = {}
    /\ permits = 0
    /\ ready = <<>>

----------------------------------------------------------------------------
(* The cache.  lastUsed values matter only by their order: ranks suffice.  *)
Ranked(c) == [k \in DOMAIN c |-> [c[k] EXCEPT !.used = Cardinality({j \in DOMAIN c : c[j].used < c[k].used})]]

(* #assemble touches every entry that overlaps the range, in list order. *)
Touch(c, want) ==
    Ranked([k \in DOMAIN c |-> IF Overlaps(c[k], want) THEN [c[k] EXCEPT !.used = Len(c) + k] ELSE c[k]])

CacheBytes(c) == FoldLeft(LAMBDA n, e : n + e.hi - e.lo, 0, c)

(* Evict least recently used entries until the bytes fit.  Entry e goes    *)
(* exactly when those used at or after it exceed the budget.               *)
UsedSince(c, e) == Where(c, {x \in Range(c) : x.used >= e.used})
Evict(c) == Where(c, {e \in Range(c) : CacheBytes(UsedSince(c, e)) <= MaxCache})

Insert(c, hole) ==
    IF hole.hi - hole.lo > MaxCache THEN c
    ELSE Ranked(Evict(Append(c, [lo |-> hole.lo, hi |-> hole.hi, used |-> Len(c)])))

----------------------------------------------------------------------------
(* Provider permits: grant the free ones to holes, oldest first.           *)
Grant(held, waiting) ==
    LET n == Smaller(MaxConcurrency - held, Len(waiting))
    IN  [permits |-> held + n,
         now |-> {waiting[k] : k \in 1..n},
         later |-> SubSeq(waiting, n + 1, Len(waiting))]

WakeNobody(dropped, q) ==                   \* mutant: a released permit is not handed on
    [permits |-> permits - Cardinality(dropped), now |-> {}, later |-> q]

(* #releaseProviderPermit for the requests in dropped, with queue q. *)
Wake(dropped, q) == Grant(permits - Cardinality(dropped), q)

Unsettled == {"running", "failing"}
Errors == {"unavailable", "failed", "cancelled", "closed"}

ResumableServed(f) ==                       \* mutant: a failed range wakes nobody
    {r \in Reads : state[r] = "waiting" /\ \A p \in joined[r] : f[p] = "ok"}

(* Promise.all: all of the ranges have resolved, or one has rejected.      *)
Resolved(ranges, f) == (\A p \in ranges : f[p] = "ok") \/ (\E p \in ranges : f[p] \in Errors)

(* The reads that wait for a settled range.                                *)
Resumable(f) == {r \in Reads : state[r] = "waiting" /\ Resolved(joined[r], f)}

(* Ranges that lose their last waiter before they settle are cancelled:    *)
(* their requests and queued holes are dropped.                            *)
Abandoned(W, lost) == {p \in lost : flight[p] \in Unsettled /\ W[p] = 0}

(* A read stops waiting for the ranges it joined (#releasePendingWaiter).  *)
Leave(r) ==
    LET W == [p \in Reads |-> IF p \in joined[r] THEN waiters[p] - 1 ELSE waiters[p]]
        gone == Abandoned(W, joined[r])
        dropped == {x \in requested : x[1] \in gone}
        granted == Wake(dropped, Where(queue, {x \in Range(queue) : x[1] \notin gone}))
    IN  /\ waiters' = W
        /\ flight' = [p \in Reads |-> IF p \in gone THEN "cancelled" ELSE flight[p]]
        /\ inflight' = {p \in inflight : W[p] > 0}
        /\ todo' = [p \in Reads |-> IF p \in gone THEN <<>> ELSE todo[p]]
        /\ requested' = (requested \ dropped) \cup granted.now
        /\ queue' = granted.later
        /\ permits' = granted.permits
        /\ UNCHANGED fetched

Finish(r, o) ==
    /\ state' = [state EXCEPT ![r] = "done"]
    /\ outcome' = [outcome EXCEPT ![r] = o]
    /\ joined' = [joined EXCEPT ![r] = {}]
    /\ inherited' = [inherited EXCEPT ![r] = {}]

(* The loop of #readInternal.  The bytes are there; or a range in flight   *)
(* overlaps; or the read fetches what is missing.                          *)
JoinableExact(r) == {p \in inflight : waiters[p] > 0 /\ Want[p] = Want[r]}   \* mutant
Joinable(r) == {p \in inflight : waiters[p] > 0 /\ Overlaps(Want[p], Want[r])}

Available(r, more) == Assembled(cache \o SetToSeq(more), Want[r])

UseBytes(r) ==
    /\ Finish(r, "bytes")
    /\ cache' = Touch(cache, Want[r])

Join(r) ==
    /\ Joinable(r) # {}
    /\ waiters' = [p \in Reads |-> IF p \in Joinable(r) THEN waiters[p] + 1 ELSE waiters[p]]
    /\ joined' = [joined EXCEPT ![r] = Joinable(r)]
    /\ state' = [state EXCEPT ![r] = "waiting"]
    /\ cache' = Touch(cache, Want[r])
    /\ UNCHANGED <<outcome, inflight, flight, todo, fetched, queue, requested, permits>>

(* #fetchMissing up to its first await: a lane for each of the first       *)
(* MaxConcurrency holes asks for a provider permit.                        *)
Fetch(r, segments) ==
    LET holes == Missing(cache \o SetToSeq(segments), Want[r])
        first == Smaller(MaxConcurrency, Len(holes))
        granted == Grant(permits, queue \o [k \in 1..first |-> <<r, holes[k]>>])
    IN  /\ Joinable(r) = {}
        /\ inflight' = inflight \cup {r}
        /\ waiters' = [waiters EXCEPT ![r] = 1]
        /\ flight' = [flight EXCEPT ![r] = "running"]
        /\ todo' = [todo EXCEPT ![r] = SubSeq(holes, first + 1, Len(holes))]
        /\ requested' = requested \cup granted.now
        /\ queue' = granted.later
        /\ permits' = granted.permits
        /\ joined' = [joined EXCEPT ![r] = {r}]
        /\ state' = [state EXCEPT ![r] = "waiting"]
        /\ cache' = Touch(cache, Want[r])
        /\ UNCHANGED <<outcome, fetched>>

(* Goes on once the microtasks in q have run: what it waits for is there.  *)
Rescheduled(r, q) ==
    IF state'[r] = "waiting" /\ Resolved(joined'[r], flight') THEN Append(q, r) ELSE q

(* read is called. *)
Start(r) ==
    /\ Quiet /\ state[r] = "idle"
    /\ \/ ~open /\ Finish(r, "closed") /\ UNCHANGED <<cache, flights>>
       \/ open /\ Available(r, {}) /\ UseBytes(r) /\ UNCHANGED flights
       \/ open /\ ~Available(r, {}) /\ Join(r) /\ UNCHANGED inherited
       \/ open /\ ~Available(r, {}) /\ Fetch(r, {}) /\ UNCHANGED inherited
    /\ ready' = Rescheduled(r, ready)
    /\ UNCHANGED open

(* The read that created a range gets its promise's value, or its error.   *)
ResumeOwner(r) ==
    /\ Runs(r) /\ r \in joined[r]
    /\ Finish(r, IF flight[r] = "ok" THEN "bytes" ELSE flight[r])
    /\ Leave(r)
    /\ ready' = Tail(ready)
    /\ UNCHANGED <<open, cache>>

(* One of the ranges a read joined has failed: so does the read. *)
ResumeFailed(r) ==
    /\ Runs(r) /\ r \notin joined[r]
    /\ \E p \in joined[r] : flight[p] \in Errors /\ Finish(r, flight[p])
    /\ Leave(r)
    /\ ready' = Tail(ready)
    /\ UNCHANGED <<open, cache>>

(* All of them have resolved: their segments are inherited.  First the     *)
(* read stops waiting, then it goes round the loop (ResumeLoop).           *)
ResumeShared(r) ==
    /\ Runs(r) /\ r \notin joined[r] /\ joined[r] # {}
    /\ \A p \in joined[r] : flight[p] = "ok"
    /\ inherited' = [inherited EXCEPT ![r] = @ \cup {Want[p] : p \in joined[r]}]
    /\ joined' = [joined EXCEPT ![r] = {}]
    /\ Leave(r)
    /\ UNCHANGED <<open, cache, state, outcome, ready>>

ResumeLoop(r) ==
    /\ Runs(r) /\ joined[r] = {}
    /\ \/ ~open /\ Finish(r, "closed") /\ UNCHANGED <<cache, flights>>
       \/ open /\ Available(r, inherited[r]) /\ UseBytes(r) /\ UNCHANGED flights
       \/ open /\ ~Available(r, inherited[r]) /\ Join(r) /\ UNCHANGED inherited
       \/ open /\ ~Available(r, inherited[r]) /\ Fetch(r, inherited[r]) /\ UNCHANGED inherited
    /\ ready' = Rescheduled(r, Tail(ready))
    /\ UNCHANGED open

Microtask(r) == ResumeOwner(r) \/ ResumeFailed(r) \/ ResumeShared(r) \/ ResumeLoop(r)

----------------------------------------------------------------------------
(* The lane of runBounded takes its next hole, or returns; the last lane   *)
(* to return settles the range, with the assembled bytes or an error.      *)
LanesOf(p, asked, q) == {x \in asked : x[1] = p} \cup {q[k] : k \in {j \in 1..Len(q) : q[j][1] = p}}

NeedsCache(p, segments) == ~(inherited[p] = {} /\ segments = <<Want[p]>>)

Settlement(p, c, segments) ==
    IF flight[p] = "failing" THEN "failed"
    ELSE IF ~NeedsCache(p, segments) \/ Assembled(c \o SetToSeq(inherited[p]) \o segments, Want[p]) THEN "ok" ELSE "unavailable"

(* The broker delivers the bytes of a hole: the permit is handed on, the   *)
(* bytes enter the cache, and the lane goes on.                            *)
HoleArrives(p, hole) ==
    LET woken == Wake({<<p, hole>>}, queue)
        lane == IF todo[p] = <<>> THEN <<>> ELSE <<(<<p, Head(todo[p])>>)>>
        granted == Grant(woken.permits, woken.later \o lane)
        asked == (requested \ {<<p, hole>>}) \cup woken.now \cup granted.now
        got == Append(fetched[p], hole)
        c == Insert(cache, hole)
        last == LanesOf(p, asked, granted.later) = {}
        result == Settlement(p, c, got)
    IN  /\ Quiet /\ <<p, hole>> \in requested
        /\ requested' = asked
        /\ queue' = granted.later
        /\ permits' = granted.permits
        /\ todo' = [todo EXCEPT ![p] = IF @ = <<>> THEN @ ELSE Tail(@)]
        /\ fetched' = [fetched EXCEPT ![p] = IF last THEN <<>> ELSE got]
        /\ cache' = IF last /\ NeedsCache(p, got) THEN Touch(c, Want[p]) ELSE c
        /\ flight' = IF last THEN [flight EXCEPT ![p] = result] ELSE flight
        /\ ready' \in IF last THEN SetToSeqs(Resumable(flight')) ELSE {<<>>}
        /\ UNCHANGED <<open, state, joined, inherited, outcome, inflight, waiters>>

(* The broker rejects a hole: the other lanes of the range stop after the  *)
(* hole they are at, and the last one to return rejects the range.         *)
HoleFails(p, hole) ==
    LET woken == Wake({<<p, hole>>}, queue)
        asked == (requested \ {<<p, hole>>}) \cup woken.now
        last == LanesOf(p, asked, woken.later) = {}
    IN  /\ Quiet /\ <<p, hole>> \in requested
        /\ requested' = asked
        /\ queue' = woken.later
        /\ permits' = woken.permits
        /\ todo' = [todo EXCEPT ![p] = <<>>]
        /\ fetched' = IF last THEN [fetched EXCEPT ![p] = <<>>] ELSE fetched
        /\ flight' = [flight EXCEPT ![p] = IF last THEN "failed" ELSE "failing"]
        /\ ready' \in IF last THEN SetToSeqs(Resumable(flight')) ELSE {<<>>}
        /\ UNCHANGED <<open, cache, state, joined, inherited, outcome, inflight, waiters>>

(* The dataset is closed, by the application or after a failed source read *)
(* (SourceBroker): every request, queued hole and waiting read is rejected *)
(* with HANDLE_CLOSED or the failure.                                      *)
Close ==
    /\ Quiet /\ open
    /\ open' = FALSE
    /\ cache' = <<>>
    /\ inflight' = {} /\ waiters' = [p \in Reads |-> 0]
    /\ flight' = [p \in Reads |-> IF flight[p] \in Unsettled THEN "closed" ELSE flight[p]]
    /\ todo' = [p \in Reads |-> <<>>] /\ fetched' = [p \in Reads |-> <<>>]
    /\ queue' = <<>> /\ requested' = {} /\ permits' = 0
    /\ state' = [r \in Reads |-> IF state[r] = "waiting" THEN "done" ELSE state[r]]
    /\ outcome' = [r \in Reads |-> IF state[r] = "waiting" THEN "closed" ELSE outcome[r]]
    /\ joined' = [r \in Reads |-> {}] /\ inherited' = [r \in Reads |-> {}]
    /\ UNCHANGED ready

(* The caller's own cancellation. *)
Cancel(r) ==
    /\ Quiet /\ state[r] = "waiting"
    /\ Finish(r, "cancelled")
    /\ Leave(r)
    /\ ready' \in SetToSeqs(Resumable(flight') \ {r})
    /\ UNCHANGED <<open, cache>>

Next ==
    \/ \E r \in Reads : Start(r) \/ Microtask(r) \/ Cancel(r)
    \/ \E x \in requested : HoleArrives(x[1], x[2]) \/ HoleFails(x[1], x[2])
    \/ Close

SafetySpec == Init /\ [][Next]_vars

(* Microtasks run, and the broker answers every request (SourceBroker).    *)
Fairness ==
    /\ \A r \in Reads : WF_vars(Microtask(r))
    /\ \A p \in Reads : WF_vars(\E x \in requested : x[1] = p /\ (HoleArrives(p, x[2]) \/ HoleFails(p, x[2])))

Spec == SafetySpec /\ Fairness

----------------------------------------------------------------------------
TypeOK ==
    /\ open \in BOOLEAN
    /\ state \in [Reads -> {"idle", "waiting", "done"}]
    /\ joined \in [Reads -> SUBSET Reads] /\ inflight \subseteq Reads
    /\ waiters \in [Reads -> 0..Cardinality(Reads)]
    /\ flight \in [Reads -> {"none", "ok"} \cup Unsettled \cup Errors]
    /\ permits \in 0..MaxConcurrency

(* The LRU stays within its byte budget. *)
CacheBounded == CacheBytes(cache) <= MaxCache

(* A permit is out for each outstanding request and nothing waits while    *)
(* one is free.                                                            *)
PermitsExact ==
    /\ permits = Cardinality(requested)
    /\ queue # <<>> => permits = MaxConcurrency

(* Work goes on exactly as long as somebody wants it: a running range has  *)
(* as many waiters as reads that joined it, and at least one.              *)
FetchesAreWanted ==
    \A p \in inflight :
        /\ waiters[p] = Cardinality({r \in Reads : p \in joined[r]})
        /\ waiters[p] > 0

(* Bytes, permits and waiters, all accounted for. *)
SourceInv == TypeOK /\ CacheBounded /\ PermitsExact /\ FetchesAreWanted

(* Singleflight: no byte is being fetched twice. *)
NoByteFetchedTwice ==
    \A x, y \in requested : x # y => Bytes(x[2]) \cap Bytes(y[2]) = {}

(* No lost wakeup: between tasks a waiting read waits for a range in       *)
(* flight that has a request outstanding or a hole queued for a permit.    *)
NoStrandedRead ==
    Quiet => \A r \in Reads : state[r] = "waiting" =>
        \E p \in joined[r] : flight[p] \in Unsettled /\ LanesOf(p, requested, queue) # {}

(* source-accessor.ts 393: a read waits for overlapping in-flight work     *)
(* before it computes the missing part; so it comes to an end once the     *)
(* work has settled.                                                       *)
ReadSettles == \A r \in Reads : state[r] = "waiting" ~> state[r] = "done"

(* source-accessor.ts 460: a response larger than the byte LRU still       *)
(* yields the exact result; a provider that returned every byte asked for  *)
(* is not reported as SOURCE_UNAVAILABLE.                                  *)
HealthySourceServes == \A r \in Reads : outcome[r] # "unavailable"
=============================================================================
