---------------------------- MODULE PermitQueue ----------------------------
(***************************************************************************)
(* AsyncPermitQueue (js/range-cache.ts): the FIFO permit queue that bounds *)
(* how many range reads of the Worker run at once.  A key (the id of a     *)
(* range request) asks for a permit once; it is granted at once, queued,   *)
(* or refused because the queue is full.  A queued key may be cancelled;   *)
(* a granted key gets a release closure whose first call returns the       *)
(* permit and whose later calls do nothing.                                *)
(*                                                                         *)
(* Every method runs to completion on the event loop, so one call is one   *)
(* action.                                                                 *)
(***************************************************************************)
EXTENDS Naturals, Sequences, FiniteSets

CONSTANTS
    Keys,        \* request ids, each used for at most one acquire
    MaxActive,   \* permits in circulation
    MaxWaiters   \* length limit of the waiting queue

ASSUME PermitAssumption ==
    /\ IsFiniteSet(Keys)
    /\ MaxActive \in Nat \ {0}
    /\ MaxWaiters \in Nat

VARIABLES
    active,      \* #active
    waiters,     \* #waiters, oldest first
    permit       \* what each key's acquire promise and release closure have become

vars == <<active, waiters, permit>>

PermitState ==
    {"none",      \* acquire not called yet
     "queued",    \* promise pending
     "held",      \* promise resolved, release closure not called
     "released",  \* release closure called
     "refused"}   \* promise rejected: the queue was full, or cancel removed the waiter

Init ==
    /\ active = 0
    /\ waiters = <<>>
    /\ permit = [k \in Keys |-> "none"]

Min2(m, n) == IF m <= n THEN m ELSE n

(* #wakeWaiters: hand the free permits to the oldest waiters.  It starts   *)
(* from a permit count a and a queue q, the values its caller has just     *)
(* assigned, and p is what the caller made of the permit states.           *)
WakeCountNone(a, q) == 0                                \* mutant: nobody is woken
WakeCount(a, q) == Min2(MaxActive - a, Len(q))

(* Mutant: the newest waiters are served first. *)
WakeNewest(a, q, p) ==
    LET n == WakeCount(a, q)
        woken == {q[i] : i \in (Len(q) - n + 1)..Len(q)}
    IN  /\ active' = a + n
        /\ waiters' = SubSeq(q, 1, Len(q) - n)
        /\ permit' = [k \in Keys |-> IF k \in woken THEN "held" ELSE p[k]]

WakeWaiters(a, q, p) ==
    LET n == WakeCount(a, q)
        woken == {q[i] : i \in 1..n}
    IN  /\ active' = a + n
        /\ waiters' = SubSeq(q, n + 1, Len(q))
        /\ permit' = [k \in Keys |-> IF k \in woken THEN "held" ELSE p[k]]

(* acquire(key): an immediate grant, *)
AcquireNow(k) ==
    /\ permit[k] = "none"
    /\ active < MaxActive
    /\ active' = active + 1
    /\ permit' = [permit EXCEPT ![k] = "held"]
    /\ UNCHANGED waiters

(* a refusal with PermitQueueFullError, *)
AcquireFull(k) ==
    /\ permit[k] = "none"
    /\ active >= MaxActive
    /\ Len(waiters) >= MaxWaiters
    /\ permit' = [permit EXCEPT ![k] = "refused"]
    /\ UNCHANGED <<active, waiters>>

(* or a place at the end of the queue. *)
AcquireWait(k) ==
    /\ permit[k] = "none"
    /\ active >= MaxActive
    /\ Len(waiters) < MaxWaiters
    /\ waiters' = Append(waiters, k)
    /\ permit' = [permit EXCEPT ![k] = "queued"]
    /\ UNCHANGED active

Acquire(k) == AcquireNow(k) \/ AcquireFull(k) \/ AcquireWait(k)

Without(s, i) == SubSeq(s, 1, i - 1) \o SubSeq(s, i + 1, Len(s))

(* cancel(key): reject the first waiter of that key.  For a key that is    *)
(* not waiting (not asked yet, or already granted) it returns false and    *)
(* changes nothing: a permit granted just before stays with its holder.    *)
Cancel(k) ==
    \E i \in 1..Len(waiters) :
        /\ waiters[i] = k
        /\ \A j \in 1..(i - 1) : waiters[j] # k
        /\ WakeWaiters(active, Without(waiters, i), [permit EXCEPT ![k] = "refused"])

(* Mutant: the closure forgets that it has been called. *)
ReleaseTwice(k) ==
    /\ permit[k] \in {"held", "released"}
    /\ WakeWaiters(active - 1, waiters, [permit EXCEPT ![k] = "released"])

(* The closure of #releaseOnce: only the first call counts. *)
Release(k) ==
    /\ permit[k] = "held"
    /\ WakeWaiters(active - 1, waiters, [permit EXCEPT ![k] = "released"])

Next == \E k \in Keys : Acquire(k) \/ Cancel(k) \/ Release(k)

(* Holders release: the callers' finally blocks run (js/worker.ts).        *)
Fairness == \A k \in Keys : WF_vars(Release(k))

Spec == Init /\ [][Next]_vars
LiveSpec == Spec /\ Fairness

----------------------------------------------------------------------------
Holders == {k \in Keys : permit[k] = "held"}
Queued == {k \in Keys : permit[k] = "queued"}

TypeOK ==
    /\ active \in Nat
    /\ waiters \in Seq(Keys)
    /\ permit \in [Keys -> PermitState]

(* The counter is exactly the number of release closures still out: no     *)
(* path of grant, cancel, release or double release leaks or forges one.   *)
PermitAccounting == active = Cardinality(Holders)

(* At most MaxActive holders at a time, at most MaxWaiters waiting.        *)
Bounded ==
    /\ active <= MaxActive
    /\ Len(waiters) <= MaxWaiters

(* No lost wakeup: someone waits only while every permit is out.           *)
NoLostWakeup == waiters # <<>> => active = MaxActive

(* The queue is a list without repetition of exactly the keys whose        *)
(* promise is pending, so no settled promise can be granted a permit and   *)
(* no pending one is forgotten.                                            *)
QueueIsPending ==
    /\ \A i, j \in 1..Len(waiters) : waiters[i] = waiters[j] => i = j
    /\ Queued = {waiters[i] : i \in 1..Len(waiters)}

(* The safety of the queue: permits are neither lost nor forged, limits    *)
(* and wakeups are kept, and the queue is the pending promises.            *)
PermitInv ==
    /\ TypeOK
    /\ PermitAccounting
    /\ Bounded
    /\ NoLostWakeup
    /\ QueueIsPending

(* First come, first served: a waiter gets its permit only after everyone  *)
(* ahead of it in the queue has one or has been cancelled.                 *)
FifoGrant ==
    [][\A i, j \in 1..Len(waiters) :
          (i < j /\ permit'[waiters[j]] = "held") => permit'[waiters[i]] # "queued"]_vars

(* Whoever waits is served, or is cancelled, provided holders release.     *)
WaiterServed ==
    \A k \in Keys : permit[k] = "queued" ~> permit[k] # "queued"
=============================================================================
