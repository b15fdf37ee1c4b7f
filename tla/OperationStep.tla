--------------------------- MODULE OperationStep ---------------------------
(***************************************************************************)
(* advanceAdapterOperationStep (js/worker.ts): an adapter operation asks   *)
(* for source bytes, the Worker reserves memory for every action, reads    *)
(* them (a Blob in at most Lanes reads at a time, a remote source through  *)
(* readMany), hands the bytes to the adapter and gives the reservations    *)
(* back.  A read of a Blob cannot be aborted: after a cancellation its     *)
(* lease is detached from the step and released when the read settles.     *)
(*                                                                         *)
(* An action's bytes are the unit of the ledger.  One action of this       *)
(* module is one task of the event loop with the microtasks it causes;     *)
(* they touch one step and the ledger only.                                *)
(***************************************************************************)
EXTENDS Integers, FiniteSets

CONSTANTS
    Steps,      \* operation steps in the Worker, of any request
    Count,      \* source actions each step asks for (0: a cooperative yield)
    Remote,     \* steps whose source is a RangeSourceAccessor
    Lanes,      \* Blob reads of a step at a time (4 in the code)
    Capacity    \* capacity of the MemoryReservationLedger

ASSUME StepAssumption ==
    /\ IsFiniteSet(Steps)
    /\ Count \in [Steps -> Nat]
    /\ Remote \subseteq Steps
    /\ Lanes \in Nat \ {0}
    /\ Capacity \in Nat

VARIABLES
    phase,      \* where each step stands
    used,       \* #usedBytes of the ledger
    owned,      \* leases the step's finally block will release
    detached,   \* leases that wait for onSettled of their read
    pending,    \* Blob reads that run in the host
    lanes,      \* reads the lanes of a step await
    next,       \* the next action a lane will take
    failed      \* a lane has seen an error

stepVars == <<phase, used, owned, detached, pending, lanes, next, failed>>

Actions(s) == {<<s, i>> : i \in 1..Count[s]}
Leases == UNION {Actions(s) : s \in Steps}
LeasesOf(s, set) == {l \in set : l[1] = s}

StepsInit ==
    /\ phase = [s \in Steps |-> "idle"]
    /\ used = 0
    /\ owned = {} /\ detached = {} /\ pending = {}
    /\ lanes = [s \in Steps |-> {}]
    /\ next = [s \in Steps |-> 1]
    /\ failed = [s \in Steps |-> FALSE]

----------------------------------------------------------------------------
Fits(s) == used + Count[s] <= Capacity

(* Reserve every action first.  When the ledger refuses one of them, the   *)
(* leases of those before it are in use, until the rollback releases them  *)
(* and the step fails.                                                     *)
Acquired(s) == {<<s, i>> : i \in 1..(Capacity - used)}
RolledBackLater(s) == {l \in Acquired(s) : l[2] > 1}   \* mutant: not the first
RolledBack(s) == Acquired(s)

Refused(s) ==
    LET left == Acquired(s) \ RolledBack(s)
    IN  /\ phase[s] = "idle" /\ ~Fits(s)
        /\ phase' = [phase EXCEPT ![s] = "done"]
        /\ owned' = owned \cup left
        /\ used' = used + Cardinality(left)
        /\ UNCHANGED <<detached, pending, lanes, next, failed>>

(* A yield has nothing to read. *)
Yield(s) ==
    /\ phase[s] = "idle" /\ Count[s] = 0
    /\ phase' = [phase EXCEPT ![s] = "continuing"]
    /\ UNCHANGED <<used, owned, detached, pending, lanes, next, failed>>

Reserve(s) ==
    /\ phase[s] = "idle" /\ Count[s] > 0 /\ Fits(s)
    /\ phase' = [phase EXCEPT ![s] = "reading"]
    /\ used' = used + Count[s]
    /\ owned' = owned \cup Actions(s)
    /\ UNCHANGED <<detached, failed>>

FirstReads(s) == IF s \in Remote THEN {} ELSE {<<s, i>> : i \in 1..(IF Count[s] <= Lanes THEN Count[s] ELSE Lanes)}

(* readLocalActions starts its lanes, each of which takes an action. *)
Begin(s) ==
    /\ Reserve(s)
    /\ lanes' = [lanes EXCEPT ![s] = FirstReads(s)]
    /\ pending' = pending \cup FirstReads(s)
    /\ next' = [next EXCEPT ![s] = Cardinality(FirstReads(s)) + 1]

----------------------------------------------------------------------------
(* The end of readLocalActions after a failure.  A lease is detached       *)
(* unless onSettled has been called for its action.                        *)
UnsettledNone(s, running) == {}                        \* mutant: nothing is detached
UnsettledAll(s, running) == Actions(s)                 \* mutant: settled reads too
Unsettled(s, running) == {l \in Actions(s) : l[2] >= next[s] \/ l \in running}

(* The step fails: readLocalActions detaches what is unsettled, and the    *)
(* finally block of the step releases the rest.                            *)
FailStep(s, running) ==
    LET mine == LeasesOf(s, owned)
        kept == IF s \in Remote THEN {} ELSE mine \cap Unsettled(s, running)
    IN  /\ phase' = [phase EXCEPT ![s] = "done"]
        /\ owned' = owned \ mine
        /\ detached' = detached \cup kept
        /\ used' = used - Cardinality(mine \ kept)
        /\ lanes' = [lanes EXCEPT ![s] = {}]

(* A Blob read settles for a lane: onSettled marks it, and the lane goes   *)
(* on to the next action, or returns.  The last lane to return ends the    *)
(* reading.  A read that fails at once (a closed Blob, a bad slice) is a   *)
(* read that settles with an error.                                        *)
LaneTakesNext(s, l) ==
    /\ next[s] <= Count[s] /\ ~failed[s]
    /\ lanes' = [lanes EXCEPT ![s] = (@ \ {l}) \cup {<<s, next[s]>>}]
    /\ pending' = (pending \ {l}) \cup {<<s, next[s]>>}
    /\ next' = [next EXCEPT ![s] = @ + 1]
    /\ UNCHANGED <<phase, used, owned, detached, failed>>

LaneReturns(s, l, ok) ==
    /\ ~ok \/ next[s] > Count[s] \/ failed[s]
    /\ pending' = pending \ {l}
    /\ failed' = [failed EXCEPT ![s] = @ \/ ~ok]
    /\ UNCHANGED next
    /\ IF lanes[s] # {l}
       THEN /\ lanes' = [lanes EXCEPT ![s] = @ \ {l}]
            /\ UNCHANGED <<phase, used, owned, detached>>
       ELSE IF failed'[s]
       THEN FailStep(s, pending')
       ELSE /\ phase' = [phase EXCEPT ![s] = "continuing"]
            /\ lanes' = [lanes EXCEPT ![s] = {}]
            /\ UNCHANGED <<used, owned, detached>>

LaneReadSettles(s, l, ok) ==
    /\ phase[s] = "reading" /\ l \in lanes[s]
    /\ (ok /\ LaneTakesNext(s, l)) \/ LaneReturns(s, l, ok)

(* A Blob read that nobody awaits any more settles: its lease goes. *)
DetachedReadSettles(l) ==
    /\ l \in pending /\ l \in detached
    /\ pending' = pending \ {l}
    /\ detached' = detached \ {l}
    /\ used' = used - 1
    /\ UNCHANGED <<phase, owned, lanes, next, failed>>

(* readMany of a remote source resolves or rejects. *)
RemoteReadSettles(s, ok) ==
    /\ phase[s] = "reading" /\ s \in Remote
    /\ IF ok THEN phase' = [phase EXCEPT ![s] = "continuing"] /\ UNCHANGED <<used, owned, detached, lanes>>
       ELSE FailStep(s, pending)
    /\ UNCHANGED <<pending, next, failed>>

(* The request is cancelled: every lane's race rejects at once, while the  *)
(* Blob reads run on.                                                      *)
CancelReading(s) ==
    /\ phase[s] = "reading"
    /\ FailStep(s, pending)
    /\ failed' = [failed EXCEPT ![s] = TRUE]
    /\ UNCHANGED <<pending, next>>

(* The adapter has taken the bytes, or refused them, or the request was    *)
(* cancelled meanwhile: the finally block releases every lease.            *)
Continued(s) ==
    /\ phase[s] = "continuing"
    /\ phase' = [phase EXCEPT ![s] = "done"]
    /\ owned' = owned \ LeasesOf(s, owned)
    /\ used' = used - Cardinality(LeasesOf(s, owned))
    /\ UNCHANGED <<detached, pending, lanes, next, failed>>

StepsNext ==
    \/ \E s \in Steps :
          \/ Refused(s) \/ Yield(s) \/ Begin(s) \/ CancelReading(s) \/ Continued(s)
          \/ \E ok \in BOOLEAN : RemoteReadSettles(s, ok)
          \/ \E ok \in BOOLEAN, l \in lanes[s] : LaneReadSettles(s, l, ok)
    \/ \E l \in pending : DetachedReadSettles(l)

StepsSpec == StepsInit /\ [][StepsNext]_stepVars

----------------------------------------------------------------------------
Phase == {"idle", "reading", "continuing", "done"}

StepsTypeOK ==
    /\ phase \in [Steps -> Phase]
    /\ used \in Nat
    /\ owned \subseteq Leases /\ detached \subseteq Leases /\ pending \subseteq Leases
    /\ lanes \in [Steps -> SUBSET Leases]
    /\ next \in [Steps -> Nat \ {0}]
    /\ failed \in [Steps -> BOOLEAN]

(* The ledger counts every lease once: those of running steps and those    *)
(* that wait for a late read.  No path releases one twice.                 *)
LedgerExact == owned \cap detached = {} /\ used = Cardinality(owned \cup detached)

(* The Worker never reserves more than the engine's budget. *)
WithinCapacity == used <= Capacity

(* A Blob read that still runs in the host is covered by a lease, also     *)
(* after its step has failed or been cancelled: the ledger does not        *)
(* under-count bytes a pending read retains (worker.ts, readLocalActions). *)
PendingCovered == pending \subseteq owned \cup detached

(* A finished step owns nothing; what it detached is unsettled.            *)
FinishedOwnsNothing ==
    \A s \in Steps : phase[s] = "done" =>
        /\ LeasesOf(s, owned) = {}
        /\ \A l \in LeasesOf(s, detached) : l \in pending \/ l[2] >= next[s]

(* A step with no more actions than lanes gives everything back once it is *)
(* done and its reads have settled.                                        *)
SmallStepReleased ==
    \A s \in Steps : phase[s] = "done" /\ Count[s] <= Lanes /\ LeasesOf(s, pending) = {}
        => LeasesOf(s, owned \cup detached) = {}

(* Where leases and reads can be: a lease is owned while its step reads or *)
(* continues, and detached after it; a read in the host is awaited by a    *)
(* lane or detached; a step with few actions has started all of them.      *)
OwnedBusy == \A l \in owned : phase[l[1]] \in {"reading", "continuing"}
BusyOwns == \A s \in Steps : phase[s] \in {"reading", "continuing"} => Actions(s) \subseteq owned
DetachedDone ==
    \A l \in detached :
        /\ phase[l[1]] = "done" /\ l[1] \notin Remote
        /\ l \in pending \/ l[2] >= next[l[1]]
        /\ Count[l[1]] <= Lanes => l[2] < next[l[1]]
PendingAwaited ==
    \A l \in pending :
        /\ l[1] \notin Remote /\ l[2] < next[l[1]]
        /\ l \in lanes[l[1]] \/ l \in detached
LanesRead == \A s \in Steps : \A l \in lanes[s] : l[1] = s /\ l \in pending /\ phase[s] = "reading"
NextInRange ==
    \A s \in Steps : phase[s] = "reading" /\ s \notin Remote =>
        /\ next[s] <= Count[s] + 1
        /\ Count[s] <= Lanes => next[s] = Count[s] + 1

StepInv ==
    /\ StepsTypeOK /\ LedgerExact /\ WithinCapacity
    /\ OwnedBusy /\ BusyOwns /\ DetachedDone /\ PendingAwaited /\ LanesRead /\ NextInRange

(* README.md 272: reservations are released on success, failure,           *)
(* cancellation, and close.                                                *)
ReservationsReleased ==
    (\A s \in Steps : phase[s] \in {"idle", "done"}) /\ pending = {} => used = 0
=============================================================================
