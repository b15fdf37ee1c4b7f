--------------------------- MODULE RangeReadProofs ---------------------------
(***************************************************************************)
(* The two ends of a range read: the flights the main thread shares among  *)
(* its callers, and the memory the Worker leases for the source reads of   *)
(* one operation step.  Neither machine has a variable of the other.       *)
(*                                                                         *)
(* Flights, for any calls, handles and number of revisions.  The argument  *)
(* has three parts.  A flight keeps the revision its creator asked for,    *)
(* and every message about it was sent at that revision or a later one     *)
(* (Messages, Fresh).  The map holds exactly the flights a later caller    *)
(* may still join, and every pending one (Mapping).  A flight the main     *)
(* thread aborted while the dataset is open has no caller left and is out  *)
(* of the map, so nobody can be told of the abort (Undisturbed).           *)
(*                                                                         *)
(* Leases, for any number of steps, actions, lanes and any capacity.       *)
(* LedgerExact is not inductive alone: one must know that a step's leases  *)
(* are all owned while it is busy and that a detached lease belongs to a   *)
(* step that is done.  StepInv adds that, and what connects lanes, reads   *)
(* in the host and leases.                                                 *)
(***************************************************************************)
EXTENDS RangeFlights, OperationStep, FoldTheorems, SequenceTheorems

Started == {f \in Calls : flight[f] # "none"}
WorkerResults == {Batch(r, b) : r \in Revisions, b \in BOOLEAN}
                 \cup {Failure("error"), Failure("invalid"), Failure("workerCancelled")}

\* What may be under way in the state at hand.
Requests ==
    ({"read"} \X Started) \cup ({"cancel"} \X Calls) \cup ({"closeTable"} \X Handles)

Answered ==
    {m \in {"answer"} \X Started \X WorkerResults :
        m[3].kind = "batch" => asked[m[2]] <= m[3].revision}
Answers == Answered \cup ({"metadata"} \X {r \in Revisions : r <= wrevision})

Typed ==
    /\ open \subseteq Handles /\ ver \in [Handles -> Revisions]
    /\ session \in {"open", "closed", "stopped"}
    /\ call \in [Calls -> {"idle", "waiting", "aborted", "done"}]
    /\ asked \in [Calls -> Revisions]
    /\ joined \in [Calls -> Calls \cup {None}]
    /\ got \in [Calls -> Results \cup {None}]
    /\ flight \in [Calls -> {"none", "pending", "arrived", "settled"}]
    /\ answer \in [Calls -> Results \cup {None}]
    /\ map \in [Revisions -> Calls \cup {None}]
    /\ cache \subseteq [key : Revisions, revision : Revisions, complete : BOOLEAN]
    /\ wrevision \in Revisions

Messages ==
    /\ toWorker \in Seq(Requests) /\ toClient \in Seq(Answers)
    /\ wactive \subseteq Started /\ IsFiniteSet(wactive)

\* Every revision the main thread holds is one the Worker has reached, and
\* a batch is never older than the request it answers.
Fresh ==
    /\ \A h \in Handles : ver[h] <= wrevision
    /\ \A c \in Calls : asked[c] <= wrevision
    /\ \A f \in Calls : answer[f] # None /\ answer[f].kind = "batch" => asked[f] <= answer[f].revision

Progress ==
    \A c \in Calls :
        /\ (call[c] = "done") = (got[c] # None)
        /\ (flight[c] \in {"arrived", "settled"}) = (answer[c] # None)
        /\ flight[c] # "none" => joined[c] = c
        /\ call[c] = "idle" => joined[c] = None
        /\ call[c] \in {"waiting", "aborted"} => joined[c] # None
        /\ joined[c] # None => flight[joined[c]] # "none" /\ asked[joined[c]] = asked[c]

Mapping ==
    /\ \A r \in Revisions : map[r] # None =>
          /\ asked[map[r]] = r /\ flight[map[r]] \in {"pending", "arrived"}
          /\ answer[map[r]] # Failure("aborted")
    /\ \A f \in Calls : flight[f] = "pending" => session = "open" /\ map[asked[f]] = f
    /\ session # "open" => open = {} /\ \A r \in Revisions : map[r] = None

Undisturbed ==
    /\ \A f \in Calls : session = "open" /\ answer[f] = Failure("aborted") => Callers(f) = {}
    /\ CancelledByOwner

IInv ==
    Typed /\ Messages /\ Fresh /\ Progress /\ Mapping /\ Undisturbed /\ NoStaleBatch /\ CacheHonest

-----------------------------------------------------------------------------
LEMMA ResultKinds == \A a \in WorkerResults : a.kind \in {"batch", "error", "invalid", "workerCancelled"}
  <1>1. \A r \in Revisions, b \in BOOLEAN : Batch(r, b).kind = "batch" BY DEF Batch
  <1>2. /\ Failure("error").kind = "error" /\ Failure("invalid").kind = "invalid"
        /\ Failure("workerCancelled").kind = "workerCancelled"
    BY DEF Failure
  <1>3. ASSUME NEW a \in WorkerResults
        PROVE  \/ \E r \in Revisions, b \in BOOLEAN : a = Batch(r, b)
               \/ a = Failure("error") \/ a = Failure("invalid") \/ a = Failure("workerCancelled")
    BY DEF WorkerResults
  <1>4. QED BY <1>1, <1>2, <1>3

\* A flight that exists keeps its revision, so what was said of it stays true.
LEMMA MessagesStay ==
  ASSUME IInv,
         \A f \in Started : f \in Started' /\ asked'[f] = asked[f],
         wrevision' \in Revisions, wrevision <= wrevision'
  PROVE  /\ Requests \subseteq Requests' /\ Answers \subseteq Answers'
         /\ toWorker \in Seq(Requests') /\ toClient \in Seq(Answers')
         /\ wactive \subseteq Started'
  <1>1. Started \subseteq Started' OBVIOUS
  <1>2. Requests \subseteq Requests' BY <1>1 DEF Requests
  <1>3. Answered \subseteq Answered' BY <1>1 DEF Answered
  <1>4. Answers \subseteq Answers'
    BY <1>3, FlightAssumption DEF Answers, IInv, Typed, Revisions
  <1>5. QED BY <1>1, <1>2, <1>4, SeqMonotonic DEF IInv, Messages

LEMMA InitInv == Init => IInv
  <1> SUFFICES ASSUME Init PROVE IInv OBVIOUS
  <1>1. Typed /\ Fresh
    BY FlightAssumption DEF Init, Typed, Fresh, Revisions
  <1>2. Messages
    BY FS_EmptySet DEF Init, Messages, Started
  <1>3. Progress /\ Mapping
    BY FlightAssumption DEF Init, Progress, Mapping, Revisions
  <1>4. Undisturbed /\ NoStaleBatch /\ CacheHonest
    BY FlightAssumption DEF Init, Undisturbed, CancelledByOwner, NoStaleBatch, CacheHonest, Failure, Results
  <1>5. QED BY <1>1, <1>2, <1>3, <1>4 DEF IInv

-----------------------------------------------------------------------------
(* Calls of readRange. *)
LEMMA ReadHitStep == ASSUME IInv, NEW c \in Calls, ReadHit(c) PROVE IInv'
  <1> USE DEF IInv
  <1>1. PICK e \in cache : e.key = ver[HandleOf[c]] /\ got' = [got EXCEPT ![c] = Batch(e.revision, e.complete)]
    BY DEF ReadHit, Cached
  <1>2. Batch(e.revision, e.complete) \in Results /\ e.revision = ver[HandleOf[c]]
    BY <1>1 DEF Typed, CacheHonest, Results
  <1>3. Typed' BY <1>1, <1>2, FlightAssumption DEF Typed, ReadHit, worker
  <1>4. flight[c] = "none" /\ joined[c] = None BY FlightAssumption DEF Progress, ReadHit, Typed
  <1>5. \A f \in Calls : joined[f] # c
    BY <1>4, FlightAssumption DEF Progress, Typed
  <1>6. Messages'
    BY <1>3, <1>4, MessagesStay DEF ReadHit, worker, Messages, Started, Typed, Revisions
  <1>7. Fresh' BY <1>4, FlightAssumption DEF Fresh, ReadHit, worker, Typed, Progress
  <1>8. Progress' BY <1>1, <1>2, <1>4, <1>5, FlightAssumption DEF Progress, ReadHit, Typed
  <1>9. Mapping' BY <1>4, FlightAssumption DEF Mapping, ReadHit, Typed, Progress
  <1>10. Undisturbed'
    BY <1>1, FlightAssumption DEF Undisturbed, CancelledByOwner, ReadHit, Typed, Callers, Batch, Failure
  <1>11. NoStaleBatch' /\ CacheHonest'
    BY <1>1, <1>2, FlightAssumption DEF NoStaleBatch, CacheHonest, ReadHit, Typed, Batch, Revisions
  <1>12. QED BY <1>3, <1>6, <1>7, <1>8, <1>9, <1>10, <1>11

LEMMA ReadJoinStep == ASSUME IInv, NEW c \in Calls, ReadJoin(c) PROVE IInv'
  <1> USE DEF IInv
  <1>1. flight[c] = "none" /\ joined[c] = None /\ c \notin Callers(map[ver[HandleOf[c]]])
    BY FlightAssumption DEF Progress, ReadJoin, Typed, Callers
  <1>2. \A f \in Calls : joined[f] # c
    BY <1>1, FlightAssumption DEF Progress, Typed
  <1> DEFINE g == map[ver[HandleOf[c]]]
  <1>3. /\ g \in Calls /\ asked[g] = ver[HandleOf[c]] /\ flight[g] \in {"pending", "arrived"}
        /\ answer[g] # Failure("aborted") /\ g # c
    BY <1>1, FlightAssumption DEF Mapping, ReadJoin, Typed
  <1>4. /\ asked' = [asked EXCEPT ![c] = ver[HandleOf[c]]]
        /\ joined' = [joined EXCEPT ![c] = g]
        /\ call' = [call EXCEPT ![c] = "waiting"] /\ call[c] = "idle"
        /\ UNCHANGED <<open, ver, session, got, flight, answer, map, cache, toWorker, toClient, worker>>
    BY DEF ReadJoin
  <1> HIDE DEF g
  <1>5. Typed' BY <1>3, <1>4, FlightAssumption DEF Typed, worker
  <1>6. Messages'
    BY <1>1, <1>4, <1>5, MessagesStay DEF worker, Messages, Started, Typed, Revisions
  <1>7. Fresh' BY <1>1, <1>4, FlightAssumption DEF Fresh, worker, Typed, Progress
  <1>8. Progress' BY <1>1, <1>2, <1>3, <1>4, FlightAssumption DEF Progress, Typed
  <1>9. Mapping' BY <1>1, <1>4, FlightAssumption DEF Mapping, Typed, Progress
  <1>10. Undisturbed'
    BY <1>3, <1>4, FlightAssumption DEF Undisturbed, CancelledByOwner, Typed, Callers
  <1>11. NoStaleBatch' /\ CacheHonest'
    BY <1>4, FlightAssumption DEF NoStaleBatch, CacheHonest, Typed, Progress
  <1>12. QED BY <1>5, <1>6, <1>7, <1>8, <1>9, <1>10, <1>11

LEMMA ReadCreateStep == ASSUME IInv, NEW c \in Calls, ReadCreate(c) PROVE IInv'
  <1> USE DEF IInv
  <1> DEFINE r == ver[HandleOf[c]]
  <1>1. /\ flight[c] = "none" /\ joined[c] = None /\ answer[c] = None
        /\ session = "open" /\ r \in Revisions /\ r <= wrevision
    <2>1. call[c] = "idle" /\ HandleOf[c] \in open /\ HandleOf[c] \in Handles
      BY FlightAssumption DEF ReadCreate
    <2>2. joined[c] = None /\ flight[c] = "none"
      BY <2>1, FlightAssumption DEF Progress, Typed
    <2>3. answer[c] = None BY <2>2 DEF Progress
    <2>4. session = "open" BY <2>1 DEF Mapping
    <2>5. QED BY <2>1, <2>2, <2>3, <2>4 DEF Fresh, Typed
  <1>2. \A f \in Calls : joined[f] # c
    BY <1>1, FlightAssumption DEF Progress, Typed
  <1>3. \A f \in Calls : flight[f] = "pending" => asked[f] # r
    BY FlightAssumption DEF Mapping, ReadCreate, Typed
  <1>4. /\ asked' = [asked EXCEPT ![c] = r]
        /\ joined' = [joined EXCEPT ![c] = c]
        /\ call' = [call EXCEPT ![c] = "waiting"] /\ call[c] = "idle"
        /\ flight' = [flight EXCEPT ![c] = "pending"]
        /\ map' = [map EXCEPT ![r] = c] /\ map[r] = None
        /\ toWorker' = Append(toWorker, <<"read", c>>)
        /\ UNCHANGED <<open, ver, session, got, answer, cache, toClient, worker>>
    BY DEF ReadCreate
  <1> HIDE DEF r
  <1>5. Typed' BY <1>1, <1>4, FlightAssumption DEF Typed, worker
  <1>6. Messages'
    <2>1. \A f \in Started : f \in Started' /\ asked'[f] = asked[f]
      BY <1>1, <1>4 DEF Started, Typed
    <2>2. wrevision' = wrevision /\ wactive' = wactive /\ wrevision \in Int
      BY <1>4, FlightAssumption DEF worker, Typed, Revisions
    <2>3. /\ toWorker \in Seq(Requests') /\ toClient \in Seq(Answers') /\ wactive \subseteq Started'
      BY <2>1, <2>2, MessagesStay DEF Typed
    <2>4. <<"read", c>> \in Requests'
      BY <1>4 DEF Requests, Started, Typed
    <2>5. QED BY <1>4, <2>2, <2>3, <2>4, AppendProperties DEF Messages
  <1>7. Fresh' BY <1>1, <1>4, FlightAssumption DEF Fresh, worker, Typed, Progress
  <1>8. Progress' BY <1>1, <1>2, <1>4, FlightAssumption DEF Progress, Typed
  <1>9. Mapping' BY <1>1, <1>3, <1>4, FlightAssumption DEF Mapping, Typed, Progress, Failure, Results
  <1>10. Undisturbed'
    BY <1>1, <1>2, <1>4, FlightAssumption
       DEF Undisturbed, CancelledByOwner, Typed, Callers, Failure, Results
  <1>11. NoStaleBatch' /\ CacheHonest'
    BY <1>1, <1>4, FlightAssumption DEF NoStaleBatch, CacheHonest, Typed, Progress
  <1>12. QED BY <1>5, <1>6, <1>7, <1>8, <1>9, <1>10, <1>11

LEMMA AbortCallStep == ASSUME IInv, NEW c \in Calls, AbortCall(c) PROVE IInv'
  <1> USE DEF IInv
  <1>1. /\ call' = [call EXCEPT ![c] = "aborted"] /\ call[c] = "waiting"
        /\ UNCHANGED <<open, ver, session, asked, joined, got, flight, answer, map, cache,
                       toWorker, toClient, worker>>
    BY DEF AbortCall
  <1>2. Typed' /\ Fresh' /\ Mapping' /\ NoStaleBatch' /\ CacheHonest'
    BY <1>1 DEF Typed, worker, Fresh, Mapping, NoStaleBatch, CacheHonest
  <1>3. Messages'
    BY <1>1 DEF Messages, Requests, Answers, Answered, Started, worker
  <1>4. Progress' BY <1>1, FlightAssumption DEF Progress, Typed
  <1>5. Undisturbed' BY <1>1 DEF Undisturbed, CancelledByOwner, Callers, Typed
  <1>6. QED BY <1>2, <1>3, <1>4, <1>5

-----------------------------------------------------------------------------
(* Reactions of promises. *)

\* What controller.abort() on flights of the map or on one abandoned flight
\* does to the flights: those pending become answers, the others stay.
LEMMA AbortedFlights ==
  ASSUME IInv, NEW fs \in SUBSET Calls, AbortFlights(fs)
  PROVE  /\ flight' \in [Calls -> {"none", "pending", "arrived", "settled"}]
         /\ answer' \in [Calls -> Results \cup {None}]
         /\ \A f \in Calls : flight[f] = "pending" /\ f \in fs =>
               flight'[f] = "arrived" /\ answer'[f] = Failure("aborted")
         /\ \A f \in Calls : ~(flight[f] = "pending" /\ f \in fs) =>
               flight'[f] = flight[f] /\ answer'[f] = answer[f]
         /\ \A f \in Calls : flight'[f] = "none" <=> flight[f] = "none"
         /\ Started' = Started
  <1> USE DEF IInv, Typed, AbortFlights
  <1>0. Failure("aborted") \in Results BY DEF Results
  <1>1. /\ flight' = [f \in Calls |-> IF f \in fs /\ flight[f] = "pending" THEN "arrived" ELSE flight[f]]
        /\ answer' = [f \in Calls |-> IF f \in fs /\ flight[f] = "pending" THEN Failure("aborted") ELSE answer[f]]
    OBVIOUS
  <1> HIDE DEF AbortFlights
  <1>2. /\ flight' \in [Calls -> {"none", "pending", "arrived", "settled"}]
        /\ answer' \in [Calls -> Results \cup {None}]
    BY <1>0, <1>1
  <1>3. QED BY <1>1, <1>2 DEF Started

LEMMA LeaveStep == ASSUME IInv, NEW c \in Calls, Leave(c) PROVE IInv'
  <1> USE DEF IInv
  <1> DEFINE f == joined[c]
             gone == IF Abandoned(f, c) THEN {f} ELSE {}
  <1>1. /\ f \in Calls /\ gone \in SUBSET Calls
        /\ gone # {} => gone = {f} /\ flight[f] # "settled" /\ Callers(f) \subseteq {c}
    BY FlightAssumption DEF Leave, Progress, Typed, Abandoned
  <1>2. /\ call[c] = "aborted" /\ call' = [call EXCEPT ![c] = "done"]
        /\ got' = [got EXCEPT ![c] = Failure("cancelled")]
        /\ map' = IF gone = {} THEN map ELSE Forget(f)
        /\ AbortFlights(gone)
        /\ toWorker' = toWorker \o SetToSeq(Cancels(gone))
        /\ UNCHANGED <<open, ver, session, asked, joined, cache, toClient, worker>>
    BY DEF Leave
  <1> HIDE DEF f, gone
  <1>3. /\ flight' \in [Calls -> {"none", "pending", "arrived", "settled"}]
        /\ answer' \in [Calls -> Results \cup {None}]
        /\ \A g \in Calls : flight[g] = "pending" /\ g \in gone =>
              flight'[g] = "arrived" /\ answer'[g] = Failure("aborted")
        /\ \A g \in Calls : ~(flight[g] = "pending" /\ g \in gone) =>
              flight'[g] = flight[g] /\ answer'[g] = answer[g]
        /\ \A g \in Calls : flight'[g] = "none" <=> flight[g] = "none"
        /\ Started' = Started
    BY <1>1, <1>2, AbortedFlights
  <1>4. /\ map' \in [Revisions -> Calls \cup {None}]
        /\ \A r \in Revisions : map'[r] \in {map[r], None}
        /\ \A r \in Revisions : map[r] \notin gone => map'[r] = map[r]
        /\ \A r \in Revisions : map'[r] = None \/ map'[r] \notin gone
    BY <1>1, <1>2, FlightAssumption DEF Typed, Forget
  <1>5. Failure("cancelled") \in Results /\ Failure("cancelled") # None
    BY FlightAssumption DEF Results
  <1>6. Typed' BY <1>2, <1>3, <1>4, <1>5 DEF Typed, worker
  <1>7. Messages'
    <2>1. Cancels(gone) \subseteq {<<"cancel", f>>} BY <1>1 DEF Cancels
    <2>2. IsFiniteSet(Cancels(gone)) /\ Cancels(gone) \subseteq {"cancel"} \X Calls
      <3>1. IsFiniteSet({<<"cancel", f>>}) BY FS_Singleton
      <3>2. IsFiniteSet(Cancels(gone)) BY <2>1, <3>1, FS_Subset
      <3>3. QED BY <1>1, <2>1, <3>2
    <2>3. Requests' = Requests /\ Answers' = Answers
      BY <1>2, <1>3 DEF Requests, Answers, Answered, worker
    <2>4. SetToSeq(Cancels(gone)) \in Seq(Requests)
      BY <2>2, EnumerationIn DEF Requests
    <2>5. QED BY <1>2, <1>3, <2>3, <2>4, ConcatProperties DEF Messages, worker
  <1>8. Fresh'
    BY <1>2, <1>3 DEF Fresh, worker, Typed, Failure
  <1>9. Progress'
    <2>1. \A g \in Calls : (flight'[g] \in {"arrived", "settled"}) = (answer'[g] # None)
      BY <1>3, FlightAssumption DEF Progress, Typed, Results
    <2>2. \A g \in Calls : (call'[g] = "done") = (got'[g] # None)
      BY <1>2, <1>5 DEF Progress, Typed
    <2>3. QED BY <1>2, <1>3, <2>1, <2>2 DEF Progress, Typed
  <1>10. Mapping'
    <2>1. ASSUME NEW r \in Revisions, map'[r] # None
          PROVE  /\ asked'[map'[r]] = r /\ flight'[map'[r]] \in {"pending", "arrived"}
                 /\ answer'[map'[r]] # Failure("aborted")
      BY <1>2, <1>3, <1>4, <2>1 DEF Mapping, Typed
    <2>2. ASSUME NEW g \in Calls, flight'[g] = "pending"
          PROVE  session' = "open" /\ map'[asked'[g]] = g
      BY <1>2, <1>3, <1>4, <2>2 DEF Mapping, Typed
    <2>3. QED BY <1>2, <1>4, <2>1, <2>2 DEF Mapping
  <1>11. Undisturbed'
    <2>1. \A g \in Calls : Callers(g)' \subseteq Callers(g) \ {c}
      BY <1>2 DEF Callers, Typed
    <2>2. CancelledByOwner' BY <1>2 DEF Undisturbed, CancelledByOwner, Typed, Failure
    <2>3. QED BY <1>1, <1>2, <1>3, <2>1, <2>2 DEF Undisturbed
  <1>12. NoStaleBatch' /\ CacheHonest'
    BY <1>2 DEF NoStaleBatch, CacheHonest, Typed, Failure
  <1>13. QED BY <1>6, <1>7, <1>8, <1>9, <1>10, <1>11, <1>12

\* An answered flight settles and leaves the map; only a complete batch of
\* the revision in its key enters the cache, while the dataset is open.
LEMMA FlightSettles ==
  ASSUME IInv, NEW f \in Calls, flight[f] = "arrived",
         flight' = [flight EXCEPT ![f] = "settled"], map' = Forget(f),
         UNCHANGED <<open, ver, session, call, asked, joined, got, answer, toWorker, toClient, worker>>,
         \A e \in cache' : \/ e \in cache
                          \/ /\ e = [key |-> asked[f], revision |-> asked[f], complete |-> TRUE]
                             /\ session = "open"
  PROVE  IInv'
  <1> USE DEF IInv
  <1>2. /\ map' \in [Revisions -> Calls \cup {None}]
        /\ \A r \in Revisions : map'[r] = (IF map[r] = f THEN None ELSE map[r])
    BY DEF Typed, Forget
  <1>4. Typed'
    <2>1. cache' \subseteq [key : Revisions, revision : Revisions, complete : BOOLEAN]
      <3>1. [key |-> asked[f], revision |-> asked[f], complete |-> TRUE]
               \in [key : Revisions, revision : Revisions, complete : BOOLEAN]
        BY DEF Typed
      <3>2. QED BY <3>1, Zenon DEF Typed
    <2>2. flight' \in [Calls -> {"none", "pending", "arrived", "settled"}]
      BY DEF Typed
    <2>3. QED BY <1>2, <2>1, <2>2 DEF Typed, worker
  <1>5. Messages'
    <2>1. Started' = Started BY DEF Started, Typed
    <2>2. Requests' = Requests /\ Answers' = Answers
      BY <2>1 DEF Requests, Answers, Answered, worker
    <2>3. QED BY <2>1, <2>2 DEF Messages, worker
  <1>6. Fresh' BY DEF Fresh, worker
  <1>7. Progress' BY DEF Progress, Typed
  <1>8. Mapping' BY <1>2 DEF Mapping, Typed
  <1>9. Undisturbed' BY DEF Undisturbed, CancelledByOwner, Callers
  <1>10. NoStaleBatch' /\ CacheHonest' BY DEF NoStaleBatch, CacheHonest
  <1>11. QED BY <1>4, <1>5, <1>6, <1>7, <1>8, <1>9, <1>10

LEMMA SettleStep == ASSUME IInv, NEW f \in Calls, Settle(f) PROVE IInv'
  <1>1. /\ flight[f] = "arrived" /\ flight' = [flight EXCEPT ![f] = "settled"]
        /\ map' = Forget(f)
        /\ UNCHANGED <<open, ver, session, call, asked, joined, got, answer, toWorker, toClient, worker>>
    BY DEF Settle, ForgetSettled
  <1>2. \A e \in cache' : \/ e \in cache
                          \/ /\ e = [key |-> asked[f], revision |-> asked[f], complete |-> TRUE]
                             /\ session = "open"
    <2>1. CASE ~Cacheable(f) BY <2>1 DEF Settle
    <2>2. CASE Cacheable(f)
      <3>1. answer[f] \in Results
        BY <1>1, FlightAssumption DEF IInv, Typed, Progress
      <3>2. answer[f].complete = TRUE
        BY <2>2, <3>1 DEF Cacheable, Results, Batch, Failure
      <3>3. cache' = cache \cup {[key |-> asked[f], revision |-> answer[f].revision,
                                  complete |-> answer[f].complete]}
        BY <2>2 DEF Settle
      <3>4. QED BY <2>2, <3>2, <3>3 DEF Cacheable
    <2>3. QED BY <2>1, <2>2
  <1>3. QED BY <1>1, <1>2, FlightSettles

LEMMA ResumeStep == ASSUME IInv, NEW c \in Calls, Resume(c) PROVE IInv'
  <1> USE DEF IInv
  <1> DEFINE f == joined[c]
  <1>1. f \in Calls /\ flight[f] = "settled" /\ answer[f] # None /\ asked[f] = asked[c] /\ c \in Callers(f)
    BY FlightAssumption DEF Resume, Progress, Typed, Callers
  <1>2. PICK g \in {answer[f], Failure("closed")} :
           /\ got' = [got EXCEPT ![c] = g]
           /\ call' = [call EXCEPT ![c] = "done"] /\ call[c] = "waiting"
           /\ UNCHANGED <<open, ver, session, asked, joined, flight, answer, map, cache,
                          toWorker, toClient, worker>>
    BY DEF Resume
  <1> HIDE DEF f
  <1>3. g \in Results /\ g # None /\ (g = answer[f] \/ g.kind = "closed")
    BY <1>1, <1>2, FlightAssumption DEF Typed, Results, Failure
  <1>4. Typed' BY <1>2, <1>3 DEF Typed, worker
  <1>5. Messages' BY <1>2 DEF Messages, Requests, Answers, Answered, Started, worker
  <1>6. Fresh' /\ Mapping' /\ CacheHonest' BY <1>2 DEF Fresh, Mapping, CacheHonest, worker
  <1>7. Progress' BY <1>2, <1>3 DEF Progress, Typed
  <1>8. Undisturbed'
    <2>1. \A h \in Calls : Callers(h)' \subseteq Callers(h) BY <1>2 DEF Callers, Typed
    <2>2. session = "open" => g # Failure("aborted")
      BY <1>1, <1>3 DEF Undisturbed, Failure
    <2>3. CancelledByOwner' BY <1>2, <2>2 DEF Undisturbed, CancelledByOwner, Typed
    <2>4. QED BY <1>2, <2>1, <2>3 DEF Undisturbed
  <1>9. NoStaleBatch'
    BY <1>1, <1>2, <1>3 DEF NoStaleBatch, Fresh, Typed
  <1>10. QED BY <1>4, <1>5, <1>6, <1>7, <1>8, <1>9

-----------------------------------------------------------------------------
(* Closing. *)
LEMMA CloseTableStep == ASSUME IInv, NEW h \in Handles, CloseTable(h) PROVE IInv'
  <1> USE DEF IInv
  <1>1. /\ open' = open \ {h} /\ toWorker' = Append(toWorker, <<"closeTable", h>>)
        /\ UNCHANGED <<ver, session, call, asked, joined, got, flight, answer, map, cache, toClient, worker>>
    BY DEF CloseTable
  <1>2. Typed' /\ Fresh' /\ Progress' /\ Mapping' /\ NoStaleBatch' /\ CacheHonest'
    BY <1>1 DEF Typed, worker, Fresh, Progress, Mapping, NoStaleBatch, CacheHonest
  <1>3. Messages'
    <2>1. Requests' = Requests /\ Answers' = Answers /\ Started' = Started
      BY <1>1 DEF Requests, Answers, Answered, Started, worker
    <2>2. <<"closeTable", h>> \in Requests BY DEF Requests
    <2>3. QED BY <1>1, <2>1, <2>2, AppendProperties DEF Messages, worker
  <1>4. Undisturbed' BY <1>1 DEF Undisturbed, CancelledByOwner, Callers
  <1>5. QED BY <1>2, <1>3, <1>4

\* The session ends and every pending flight is answered by the main thread;
\* an answered one (in done) may settle in the same step.
LEMMA SessionEnds ==
  ASSUME IInv, session' \in {"closed", "stopped"},
         cache' = {}, map' = [r \in Revisions |-> None], open' = {}, WorkerDropped,
         UNCHANGED <<ver, call, asked, joined, got>>,
         NEW reason \in {"aborted", "runtime"},
         NEW done \in SUBSET Calls, \A f \in done : flight[f] = "arrived",
         flight' = [f \in Calls |-> IF f \in done THEN "settled"
                                    ELSE IF flight[f] = "pending" THEN "arrived" ELSE flight[f]],
         answer' = [f \in Calls |-> IF flight[f] = "pending" THEN Failure(reason) ELSE answer[f]]
  PROVE  IInv'
  <1> USE DEF IInv
  <1>0. /\ Failure(reason) \in Results /\ Failure(reason) # None
        /\ Failure(reason).kind # "batch"
    BY FlightAssumption DEF Results, Failure
  <1>1. Typed' BY <1>0 DEF Typed, WorkerDropped
  <1>2. Messages'
    BY FS_EmptySet, EmptySeq DEF Messages, WorkerDropped
  <1>3. Fresh'
    <2>1. \A f \in Calls : answer'[f] # None /\ answer'[f].kind = "batch" => answer'[f] = answer[f]
      BY <1>0 DEF Typed
    <2>2. QED BY <2>1 DEF Fresh, WorkerDropped
  <1>4. Progress'
    <2>1. \A f \in Calls : (flight'[f] \in {"arrived", "settled"}) = (answer'[f] # None)
      BY <1>0 DEF Progress, Typed
    <2>2. \A f \in Calls : flight'[f] = "none" <=> flight[f] = "none"
      BY DEF Typed
    <2>3. QED BY <2>1, <2>2, FlightAssumption DEF Progress, Typed
  <1>5. Mapping' BY DEF Mapping, Typed
  <1>6. Undisturbed' BY DEF Undisturbed, CancelledByOwner
  <1>7. NoStaleBatch' /\ CacheHonest' BY DEF NoStaleBatch, CacheHonest
  <1>8. QED BY <1>1, <1>2, <1>3, <1>4, <1>5, <1>6, <1>7

\* While the dataset is open every pending flight is in the map, so clearing
\* the map reaches all of them.
LEMMA ClearReachesAll ==
  ASSUME IInv, ClearDatasetCache
  PROVE  /\ flight' = [f \in Calls |-> IF flight[f] = "pending" THEN "arrived" ELSE flight[f]]
         /\ answer' = [f \in Calls |-> IF flight[f] = "pending" THEN Failure("aborted") ELSE answer[f]]
  <1>1. \A f \in Calls : flight[f] = "pending" => f \in Mapped
    BY FlightAssumption DEF IInv, Mapping, Typed, Mapped
  <1>2. QED BY <1>1 DEF ClearDatasetCache, AbortFlights

LEMMA ClosingStep ==
  ASSUME IInv, CloseSession \/ EngineClose \/ RuntimeFailure PROVE IInv'
  <1> DEFINE done == {}
  <1>1. CASE CloseSession \/ EngineClose
    <2>1. /\ ClearDatasetCache /\ session' \in {"closed", "stopped"} /\ open' = {} /\ WorkerDropped
          /\ UNCHANGED <<ver, call, asked, joined, got>>
      BY <1>1 DEF CloseSession, EngineClose
    <2>2. /\ flight' = [f \in Calls |-> IF f \in done THEN "settled"
                                        ELSE IF flight[f] = "pending" THEN "arrived" ELSE flight[f]]
          /\ answer' = [f \in Calls |-> IF flight[f] = "pending" THEN Failure("aborted") ELSE answer[f]]
      BY <2>1, ClearReachesAll
    <2>3. cache' = {} /\ map' = [r \in Revisions |-> None] BY <2>1 DEF ClearDatasetCache
    <2>4. done \in SUBSET Calls /\ \A f \in done : flight[f] = "arrived" OBVIOUS
    <2> HIDE DEF done
    <2>5. QED BY <2>1, <2>2, <2>3, <2>4, SessionEnds
  <1>2. CASE RuntimeFailure
    <2>1. /\ HandleRuntimeFailure /\ FailPending(done) /\ UNCHANGED <<ver, call, asked, joined, got>>
      BY <1>2 DEF RuntimeFailure
    <2>2. done \in SUBSET Calls /\ \A f \in done : flight[f] = "arrived" OBVIOUS
    <2> HIDE DEF done
    <2>3. QED BY <2>1, <2>2, SessionEnds DEF HandleRuntimeFailure, FailPending
  <1>3. QED BY <1>1, <1>2

\* A refused batch ends the engine.  If it had ended before, nothing is
\* pending and the flight just settles.
LEMMA SettleRefusedStep == ASSUME IInv, NEW f \in Calls, SettleRefused(f) PROVE IInv'
  <1>1. /\ flight[f] = "arrived" /\ FailPending({f})
        /\ UNCHANGED <<ver, call, asked, joined, got>>
    BY DEF SettleRefused
  <1>2. CASE session # "stopped"
    <2> DEFINE done == {f}
    <2>1. HandleRuntimeFailure /\ FailPending(done) BY <1>1, <1>2 DEF SettleRefused
    <2>2. done \in SUBSET Calls /\ \A g \in done : flight[g] = "arrived" BY <1>1
    <2> HIDE DEF done
    <2>3. QED BY <1>1, <2>1, <2>2, SessionEnds DEF HandleRuntimeFailure, FailPending
  <1>3. CASE session = "stopped"
    <2>1. \A g \in Calls : flight[g] # "pending" BY <1>3 DEF IInv, Mapping
    <2>2. /\ flight' = [flight EXCEPT ![f] = "settled"] /\ answer' = answer
      BY <1>1, <2>1 DEF FailPending, IInv, Typed
    <2>3. map' = Forget(f) /\ UNCHANGED <<open, session, cache, toWorker, toClient, worker>>
      BY <1>3 DEF SettleRefused, ForgetSettled
    <2>4. QED BY <1>1, <2>2, <2>3, FlightSettles
  <1>4. QED BY <1>2, <1>3

-----------------------------------------------------------------------------
(* Messages from the Worker. *)
LEMMA DeliverAnswerStep == ASSUME IInv, DeliverAnswer PROVE IInv'
  <1> USE DEF IInv
  <1> DEFINE m == Head(toClient)
             f == m[2]
  <1>1. m \in Answered /\ Tail(toClient) \in Seq(Answers)
    <2>1. m \in Answers /\ Tail(toClient) \in Seq(Answers) /\ m[1] = "answer"
      BY HeadTailProperties DEF DeliverAnswer, Messages
    <2>2. m \notin {"metadata"} \X {r \in Revisions : r <= wrevision} BY <2>1
    <2>3. QED BY <2>1, <2>2 DEF Answers
  <1>2. /\ f \in Calls /\ m[3] \in WorkerResults /\ m[3] # None
        /\ m[3].kind = "batch" => asked[f] <= m[3].revision
        /\ m[3] \in Results /\ m[3] # Failure("aborted")
    <2>1. f \in Calls /\ m[3] \in WorkerResults /\ (m[3].kind = "batch" => asked[f] <= m[3].revision)
      BY <1>1 DEF Answered, Started
    <2>2. m[3] \in Results BY <2>1 DEF WorkerResults, Results
    <2>3. m[3].kind \in {"batch", "error", "invalid", "workerCancelled"}
      BY <2>1, ResultKinds
    <2>4. m[3] # Failure("aborted")
      <3>1. Failure("aborted").kind = "aborted" BY DEF Failure
      <3>2. QED BY <2>3, <3>1
    <2>5. QED BY <2>1, <2>2, <2>4, FlightAssumption
  <1>3. /\ toClient' = Tail(toClient)
        /\ UNCHANGED <<open, ver, session, call, asked, joined, got, map, cache, toWorker, worker>>
        /\ \/ UNCHANGED <<flight, answer>>
           \/ /\ flight[f] = "pending"
              /\ flight' = [flight EXCEPT ![f] = "arrived"]
              /\ answer' = [answer EXCEPT ![f] = m[3]]
    BY DEF DeliverAnswer
  <1> HIDE DEF m, f
  <1>4. Started' = Started BY <1>2, <1>3 DEF Started, Typed
  <1>5. Typed' BY <1>2, <1>3 DEF Typed, worker
  <1>6. Messages'
    <2>1. Requests' = Requests /\ Answers' = Answers
      BY <1>3, <1>4 DEF Requests, Answers, Answered, worker
    <2>2. QED BY <1>1, <1>3, <1>4, <2>1 DEF Messages, worker
  <1>7. Fresh' BY <1>2, <1>3 DEF Fresh, worker, Typed
  <1>8. Progress' BY <1>2, <1>3 DEF Progress, Typed
  <1>9. Mapping' BY <1>2, <1>3 DEF Mapping, Typed
  <1>10. Undisturbed' BY <1>2, <1>3 DEF Undisturbed, CancelledByOwner, Callers, Typed
  <1>11. NoStaleBatch' /\ CacheHonest' BY <1>3 DEF NoStaleBatch, CacheHonest
  <1>12. QED BY <1>5, <1>6, <1>7, <1>8, <1>9, <1>10, <1>11

LEMMA DeliverMetadataStep == ASSUME IInv, DeliverMetadata PROVE IInv'
  <1> USE DEF IInv
  <1> DEFINE r == Head(toClient)[2]
  <1>1. r \in Revisions /\ r <= wrevision /\ Tail(toClient) \in Seq(Answers)
    <2>1. Head(toClient) \in Answers /\ Tail(toClient) \in Seq(Answers) /\ Head(toClient)[1] = "metadata"
      BY HeadTailProperties DEF DeliverMetadata, Messages
    <2>2. Head(toClient) \notin Answered BY <2>1 DEF Answered
    <2>3. QED BY <2>1, <2>2 DEF Answers
  <1>2. /\ toClient' = Tail(toClient)
        /\ ver' = [h \in Handles |-> IF h \in open THEN r ELSE ver[h]]
        /\ cache' \subseteq cache
        /\ UNCHANGED <<open, session, call, asked, joined, got, flight, answer, map, toWorker, worker>>
    BY DEF DeliverMetadata, Cached
  <1> HIDE DEF r
  <1>3. Typed' BY <1>1, <1>2 DEF Typed, worker
  <1>4. Messages'
    BY <1>1, <1>2 DEF Messages, Requests, Answers, Answered, Started, worker
  <1>5. Fresh' BY <1>1, <1>2 DEF Fresh, worker
  <1>6. Progress' /\ Mapping' BY <1>2 DEF Progress, Mapping
  <1>7. Undisturbed' BY <1>2 DEF Undisturbed, CancelledByOwner, Callers
  <1>8. NoStaleBatch' /\ CacheHonest' BY <1>2 DEF NoStaleBatch, CacheHonest
  <1>9. QED BY <1>3, <1>4, <1>5, <1>6, <1>7, <1>8

-----------------------------------------------------------------------------
(* The Worker. *)

\* A step of the Worker that keeps the two channels and its reads well formed.
LEMMA WorkerStep ==
  ASSUME IInv, UNCHANGED client, wrevision' \in Revisions, wrevision <= wrevision',
         toWorker' \in Seq(Requests), toClient' \in Seq(Answers'),
         wactive' \subseteq Started, IsFiniteSet(wactive')
  PROVE  IInv'
  <1> USE DEF IInv, client
  <1>1. Typed' BY DEF Typed
  <1>2. Messages'
    BY DEF Messages, Requests, Started
  <1>3. Fresh'
    BY FlightAssumption DEF Fresh, Typed, Revisions
  <1>4. Progress' /\ Mapping' BY DEF Progress, Mapping
  <1>5. Undisturbed' BY DEF Undisturbed, CancelledByOwner, Callers
  <1>6. NoStaleBatch' /\ CacheHonest' BY DEF NoStaleBatch, CacheHonest
  <1>7. QED BY <1>1, <1>2, <1>3, <1>4, <1>5, <1>6

LEMMA WorkerCancelsAnswers ==
  ASSUME IInv, UNCHANGED <<client, wrevision>>, NEW fs \in SUBSET Started, IsFiniteSet(fs),
         WorkerCancels(fs)
  PROVE  toClient' \in Seq(Answers')
  <1> DEFINE ms == {<<"answer", f, Failure("workerCancelled")>> : f \in fs}
  <1>1. Answers' = Answers BY DEF Answers, Answered, Started, client
  <1>2. ms \subseteq Answers
    BY DEF Answers, Answered, WorkerResults, Failure
  <1>3. IsFiniteSet(ms)
    <2> DEFINE g == [f \in fs |-> <<"answer", f, Failure("workerCancelled")>>]
    <2>1. g \in Surjection(fs, ms) BY DEF Surjection
    <2>2. QED BY <2>1, FS_Surjection
  <1>4. SetToSeq(ms) \in Seq(Answers) BY <1>2, <1>3, EnumerationIn
  <1>5. QED BY <1>1, <1>4, ConcatProperties DEF WorkerCancels, IInv, Messages

LEMMA WorkerReceiveStep == ASSUME IInv, WorkerReceive PROVE IInv'
  <1> USE DEF IInv
  <1> DEFINE m == Head(toWorker)
  <1>1. /\ m \in Requests /\ Tail(toWorker) \in Seq(Requests) /\ toWorker' = Tail(toWorker)
        /\ UNCHANGED <<client, wrevision>> /\ wrevision \in Int /\ wrevision \in Revisions
    BY HeadTailProperties, FlightAssumption
       DEF WorkerReceive, ReceiveRead, ReceiveCancel, ReceiveCloseTable, Messages, Typed, Revisions
  <1>2. Answers' = Answers BY <1>1 DEF Answers, Answered, Started, client
  <1>3. wactive \subseteq Started /\ IsFiniteSet(wactive) /\ toClient \in Seq(Answers)
    BY DEF Messages
  <1>4. \A s \in SUBSET wactive : IsFiniteSet(s) BY <1>3, FS_Subset
  <1>5. CASE ReceiveRead
    <2>1. m[2] \in Started BY <1>1, <1>5 DEF ReceiveRead, Requests
    <2>2. IsFiniteSet(wactive \cup {m[2]}) /\ IsFiniteSet({m[2]})
      BY <1>3, FS_AddElement, FS_Singleton
    <2>3. /\ wactive' \in {wactive, wactive \cup {m[2]}}
          /\ toClient' = toClient \/ WorkerCancels({m[2]})
      BY <1>5 DEF ReceiveRead
    <2>4. toClient' \in Seq(Answers')
      BY <1>1, <1>2, <1>3, <2>1, <2>2, <2>3, WorkerCancelsAnswers
    <2>5. wactive' \subseteq Started /\ IsFiniteSet(wactive')
      BY <1>3, <2>1, <2>2, <2>3
    <2>6. QED BY <1>1, <2>4, <2>5, WorkerStep
  <1>6. CASE ReceiveCancel \/ ReceiveCloseTable
    <2>1. PICK hit \in SUBSET wactive : wactive' = wactive \ hit /\ WorkerCancels(hit)
      <3>1. CASE ReceiveCancel BY <3>1 DEF ReceiveCancel
      <3>2. CASE ReceiveCloseTable BY <3>2 DEF ReceiveCloseTable
      <3>3. QED BY <1>6, <3>1, <3>2
    <2>2. toClient' \in Seq(Answers')
      BY <1>1, <1>3, <1>4, <2>1, WorkerCancelsAnswers
    <2>3. IsFiniteSet(wactive') BY <1>4, <2>1
    <2>4. QED BY <1>1, <1>3, <2>1, <2>2, <2>3, WorkerStep
  <1>7. QED BY <1>5, <1>6 DEF WorkerReceive

LEMMA WorkerAnswerStep == ASSUME IInv, NEW f \in Calls, WorkerAnswer(f) PROVE IInv'
  <1> USE DEF IInv
  <1>1. /\ f \in wactive /\ wactive' = wactive \ {f}
        /\ UNCHANGED <<client, toWorker, wtables, wrevision>>
        /\ wrevision \in Revisions /\ wrevision \in Int
    BY FlightAssumption DEF WorkerAnswer, Typed, Revisions
  <1>2. PICK a \in {Batch(wrevision, TRUE), Batch(wrevision, FALSE), Failure("error"), Failure("invalid")} :
           toClient' = Append(toClient, <<"answer", f, a>>)
    BY DEF WorkerAnswer
  <1>3. a \in WorkerResults /\ (a.kind = "batch" => a.revision = wrevision)
    <2>1. CASE a = Failure("error") \/ a = Failure("invalid") BY <2>1 DEF WorkerResults, Failure
    <2>2. ASSUME NEW b \in BOOLEAN, a = Batch(wrevision, b)
          PROVE  a \in WorkerResults /\ (a.kind = "batch" => a.revision = wrevision)
      BY <1>1, <2>2 DEF WorkerResults, Batch
    <2>3. QED BY <1>2, <2>1, <2>2
  <1>4. <<"answer", f, a>> \in Answers
    BY <1>1, <1>3 DEF Answers, Answered, Messages, Fresh
  <1>5. Answers' = Answers BY <1>1 DEF Answers, Answered, Started, client
  <1>6. toClient' \in Seq(Answers')
    BY <1>2, <1>4, <1>5, AppendProperties DEF Messages
  <1>7. wactive' \subseteq Started /\ IsFiniteSet(wactive')
    BY <1>1, FS_RemoveElement DEF Messages
  <1>8. QED BY <1>1, <1>6, <1>7, WorkerStep DEF Messages

LEMMA WorkerRevisesStep == ASSUME IInv, WorkerRevises PROVE IInv'
  <1> USE DEF IInv
  <1>1. /\ wrevision' = wrevision + 1 /\ wrevision' \in Revisions /\ wrevision <= wrevision'
        /\ toClient' = Append(toClient, <<"metadata", wrevision + 1>>)
        /\ UNCHANGED <<client, toWorker, wtables, wactive>>
    BY FlightAssumption DEF WorkerRevises, Typed, Revisions
  <1>2. toClient \in Seq(Answers')
    BY <1>1, MessagesStay DEF client, Started
  <1>3. <<"metadata", wrevision + 1>> \in Answers'
    BY <1>1, FlightAssumption DEF Answers, Revisions
  <1>4. toClient' \in Seq(Answers') BY <1>1, <1>2, <1>3, AppendProperties
  <1>5. QED BY <1>1, <1>4, WorkerStep DEF Messages

-----------------------------------------------------------------------------
LEMMA Inductive == IInv /\ [Next]_vars => IInv'
  <1> SUFFICES ASSUME IInv, [Next]_vars PROVE IInv' OBVIOUS
  <1>1. CASE UNCHANGED vars
    BY <1>1 DEF vars, client, worker, IInv, Typed, Messages, Fresh, Progress, Mapping, Undisturbed,
       CancelledByOwner, Callers, NoStaleBatch, CacheHonest, Requests, Answers, Answered, Started
  <1>2. ASSUME NEW c \in Calls,
               \/ ReadHit(c) \/ ReadJoin(c) \/ ReadCreate(c) \/ AbortCall(c)
               \/ Leave(c) \/ Settle(c) \/ SettleRefused(c) \/ Resume(c) \/ WorkerAnswer(c)
        PROVE  IInv'
    BY <1>2, ReadHitStep, ReadJoinStep, ReadCreateStep, AbortCallStep, LeaveStep, SettleStep,
       SettleRefusedStep, ResumeStep, WorkerAnswerStep
  <1>3. ASSUME NEW h \in Handles, CloseTable(h) PROVE IInv' BY <1>3, CloseTableStep
  <1>4. CASE CloseSession \/ EngineClose \/ RuntimeFailure BY <1>4, ClosingStep
  <1>5. CASE DeliverAnswer \/ DeliverMetadata BY <1>5, DeliverAnswerStep, DeliverMetadataStep
  <1>6. CASE WorkerRevises BY <1>6, WorkerRevisesStep
  <1>7. CASE WorkerReceive BY <1>7, WorkerReceiveStep
  <1>8. QED BY <1>1, <1>2, <1>3, <1>4, <1>5, <1>6, <1>7 DEF Next, WorkerReceive

\* For any set of callers of one range: at most one request per key is
\* pending and the map finds it, and the main thread reports no abort to a
\* caller who did not ask for one (js/client.ts, #rangeSingleflight).
THEOREM FlightsCorrect == Spec => []FlightInv
  <1>1. IInv => FlightInv
    BY FlightAssumption
       DEF IInv, Typed, Progress, Mapping, Undisturbed, FlightInv, TypeOK, OneRequestPerKey
  <1>2. QED BY InitInv, Inductive, <1>1, PTL DEF Spec

\* Whatever the order of metadata, answers, aborts and closes, no caller gets
\* rows older than its handle showed, and the cache never stores a batch that
\* is partial, of another revision or of a closed dataset.
THEOREM NeverStale == Spec => []NoStaleRows
  <1>1. IInv => NoStaleRows BY DEF IInv, NoStaleRows
  <1>2. QED BY InitInv, Inductive, <1>1, PTL DEF Spec

\* The main thread cancels a shared request in the Worker only when no caller
\* waits for it any more: only the last joiner to leave posts the message.
THEOREM SharedWorkKept == Spec => CancelWhenAllLeft
  <1> DEFINE Fine == \A f \in Calls :
                (session' = "open" /\ Contains(toWorker', <<"cancel", f>>) /\ ~Contains(toWorker, <<"cancel", f>>))
                => \A c \in Calls : joined'[c] = f => call'[c] # "waiting"
  <1>1. IInv /\ [Next]_vars => [Fine]_vars
    <2> SUFFICES ASSUME IInv, Next, NEW f \in Calls, session' = "open",
                        Contains(toWorker', <<"cancel", f>>), ~Contains(toWorker, <<"cancel", f>>),
                        NEW c \in Calls, joined'[c] = f, call'[c] = "waiting"
                 PROVE  FALSE
      BY DEF vars, client, worker
    <2>1. toWorker \in Seq(Requests) BY DEF IInv, Messages
    <2>2. PICK i \in 1..Len(toWorker') : toWorker'[i] = <<"cancel", f>> BY DEF Contains
    <2>3. \A j \in 1..Len(toWorker) : toWorker[j] # <<"cancel", f>> BY DEF Contains
    <2>4. toWorker' # toWorker /\ toWorker' # <<>> BY <2>2, <2>3
    <2>5. ASSUME NEW m, toWorker' = Append(toWorker, m) PROVE m = <<"cancel", f>>
      BY <2>1, <2>2, <2>3, <2>5
    <2>6. ASSUME toWorker # <<>>, toWorker' = Tail(toWorker) PROVE FALSE
      <3>1. /\ Len(toWorker) \in Nat /\ Len(toWorker') = Len(toWorker) - 1
            /\ toWorker'[i] = toWorker[i + 1]
        BY <2>1, <2>6, HeadTailProperties
      <3>2. i + 1 \in 1..Len(toWorker) BY <3>1
      <3>3. QED BY <2>2, <2>3, <3>1, <3>2
    <2>7. ASSUME NEW d \in Calls, Leave(d) PROVE FALSE
      <3> DEFINE g == joined[d]
                 gone == IF Abandoned(g, d) THEN {g} ELSE {}
      <3>1. /\ toWorker' = toWorker \o SetToSeq(Cancels(gone))
            /\ UNCHANGED joined /\ call' = [call EXCEPT ![d] = "done"]
        BY <2>7 DEF Leave
      <3>2. /\ g \in Calls /\ gone \subseteq {g}
            /\ gone # {} => Callers(g) \subseteq {d}
        BY <2>7, FlightAssumption DEF Leave, IInv, Progress, Typed, Abandoned
      <3> HIDE DEF g, gone
      <3>3. Cancels(gone) \subseteq {<<"cancel", g>>} /\ (Cancels(gone) # {} => gone # {})
        BY <3>2 DEF Cancels
      <3>4. /\ SetToSeq(Cancels(gone)) \in Seq(Requests)
            /\ \A j \in 1..Len(SetToSeq(Cancels(gone))) : SetToSeq(Cancels(gone))[j] \in Cancels(gone)
        <4>1. IsFiniteSet({<<"cancel", g>>}) BY FS_Singleton
        <4>2. IsFiniteSet(Cancels(gone)) BY <3>3, <4>1, FS_Subset
        <4>3. Cancels(gone) \subseteq Requests BY <3>2, <3>3 DEF Requests
        <4>4. QED BY <4>2, <4>3, EnumerationIn
      <3>5. <<"cancel", f>> \in Cancels(gone)
        <4> DEFINE t == SetToSeq(Cancels(gone))
        <4>1. Len(toWorker) \in Nat /\ Len(t) \in Nat /\ i \in 1..(Len(toWorker) + Len(t))
          BY <2>1, <2>2, <3>1, <3>4, ConcatProperties
        <4>2. toWorker'[i] = IF i <= Len(toWorker) THEN toWorker[i] ELSE t[i - Len(toWorker)]
          BY <2>1, <3>1, <3>4, <4>1, ConcatProperties
        <4> HIDE DEF t
        <4>3. ~(i <= Len(toWorker)) BY <2>2, <2>3, <4>1, <4>2
        <4>4. i - Len(toWorker) \in 1..Len(t) BY <4>1, <4>3
        <4>5. QED BY <2>2, <3>4, <4>2, <4>3, <4>4 DEF t
      <3>6. f = g /\ Callers(g) \subseteq {d} BY <3>2, <3>3, <3>5
      <3>7. call[c] = "waiting" /\ joined[c] = f /\ c # d
        BY <3>1 DEF IInv, Typed
      <3>8. QED BY <3>6, <3>7 DEF Callers
    <2>8. ASSUME NEW d \in Calls,
                 \/ ReadHit(d) \/ ReadJoin(d) \/ ReadCreate(d) \/ AbortCall(d)
                 \/ Settle(d) \/ SettleRefused(d) \/ Resume(d) \/ WorkerAnswer(d)
          PROVE  FALSE
      BY <2>4, <2>5, <2>8
         DEF ReadHit, ReadJoin, ReadCreate, AbortCall, Settle, SettleRefused, HandleRuntimeFailure,
             WorkerDropped, Resume, WorkerAnswer
    <2>9. ASSUME NEW h \in Handles, CloseTable(h) PROVE FALSE
      BY <2>5, <2>9 DEF CloseTable
    <2>10. CASE CloseSession \/ EngineClose \/ RuntimeFailure
      BY <2>4, <2>10 DEF CloseSession, EngineClose, RuntimeFailure, HandleRuntimeFailure, WorkerDropped
    <2>11. CASE DeliverAnswer \/ DeliverMetadata \/ WorkerRevises
      BY <2>4, <2>11 DEF DeliverAnswer, DeliverMetadata, WorkerRevises
    <2>12. CASE ReceiveRead \/ ReceiveCancel \/ ReceiveCloseTable
      BY <2>6, <2>12 DEF ReceiveRead, ReceiveCancel, ReceiveCloseTable
    <2>13. QED BY <2>7, <2>8, <2>9, <2>10, <2>11, <2>12 DEF Next
  <1>2. QED BY InitInv, Inductive, <1>1, PTL DEF Spec, CancelWhenAllLeft

-----------------------------------------------------------------------------
(* The leases of an operation step.                                        *)

(* A lease names its step and one of its actions. *)
LEMMA LeaseParts ==
  ASSUME NEW l \in Leases
  PROVE  /\ l[1] \in Steps /\ l[2] \in 1..Count[l[1]]
         /\ l = <<l[1], l[2]>> /\ l \in Actions(l[1])
  BY DEF Leases, Actions

(* The actions of a step are the leases that name it. *)
LEMMA ActionParts ==
  ASSUME NEW s \in Steps
  PROVE  /\ Actions(s) \subseteq Leases
         /\ \A l \in Actions(s) : l[1] = s
         /\ \A l \in Leases : l[1] = s => l \in Actions(s)
         /\ \A i \in 1..Count[s] : <<s, i>> \in Actions(s) /\ <<s, i>>[1] = s /\ <<s, i>>[2] = i
  <1>1. Actions(s) \subseteq Leases BY DEF Leases
  <1>2. \A l \in Actions(s) : l[1] = s BY DEF Actions
  <1>3. \A l \in Leases : l[1] = s => l \in Actions(s) BY LeaseParts
  <1>4. \A i \in 1..Count[s] : <<s, i>> \in Actions(s) /\ <<s, i>>[1] = s /\ <<s, i>>[2] = i
    BY DEF Actions
  <1>5. QED BY <1>1, <1>2, <1>3, <1>4

(* Numbering: the first n actions of a step are n leases. *)
LEMMA NumberedLeases ==
  ASSUME NEW s, NEW n \in Nat
  PROVE  /\ IsFiniteSet({<<s, i>> : i \in 1..n})
         /\ Cardinality({<<s, i>> : i \in 1..n}) = n
  <1> DEFINE T == {<<s, i>> : i \in 1..n}
             f == [i \in 1..n |-> <<s, i>>]
  <1>1. f \in Bijection(1..n, T)
    <2>1. f \in [1..n -> T] OBVIOUS
    <2>2. \A i, j \in 1..n : f[i] = f[j] => i = j OBVIOUS
    <2>3. \A t \in T : \E i \in 1..n : f[i] = t OBVIOUS
    <2>4. QED BY <2>1, <2>2, <2>3, Zenon DEF Bijection, Injection, Surjection, IsInjective
  <1>2. ExistsBijection(1..n, T) BY <1>1 DEF ExistsBijection
  <1>3. IsFiniteSet(T) BY <1>2, FS_NatBijection
  <1>4. Cardinality(T) = n BY <1>2, FS_CountingElements
  <1>5. QED BY <1>3, <1>4

(* A step has Count[s] actions. *)
LEMMA ActionsCounted ==
  ASSUME NEW s \in Steps
  PROVE  IsFiniteSet(Actions(s)) /\ Cardinality(Actions(s)) = Count[s]
  BY StepAssumption, NumberedLeases DEF Actions

(* There are finitely many leases, so every set of them has a size. *)
LEMMA LeasesFinite == IsFiniteSet(Leases)
  <1> DEFINE T == {Actions(s) : s \in Steps}
             f == [s \in Steps |-> Actions(s)]
  <1>1. f \in Surjection(Steps, T)
    <2>1. f \in [Steps -> T] OBVIOUS
    <2>2. \A t \in T : \E s \in Steps : f[s] = t OBVIOUS
    <2>3. QED BY <2>1, <2>2, Zenon DEF Surjection
  <1>2. IsFiniteSet(T) BY <1>1, StepAssumption, FS_Surjection
  <1>3. \A t \in T : IsFiniteSet(t) BY ActionsCounted
  <1>4. QED BY <1>2, <1>3, FS_UNION DEF Leases

(* Adding leases that were not there adds their number. *)
LEMMA CountAdded ==
  ASSUME NEW A, NEW B, A \subseteq Leases, B \subseteq Leases, A \cap B = {}
  PROVE  Cardinality(A \cup B) = Cardinality(A) + Cardinality(B)
  <1>1. IsFiniteSet(A) /\ IsFiniteSet(B) BY LeasesFinite, FS_Subset
  <1>2. Cardinality(A) \in Nat /\ Cardinality(B) \in Nat BY <1>1, FS_CardinalityType
  <1>3. Cardinality(A \cap B) = 0 BY FS_EmptySet
  <1>4. Cardinality(A \cup B) = Cardinality(A) + Cardinality(B) - Cardinality(A \cap B)
    BY <1>1, FS_Union
  <1>5. QED BY <1>2, <1>3, <1>4

(* Removing leases that are there subtracts their number. *)
LEMMA CountRemoved ==
  ASSUME NEW A, NEW B, A \subseteq Leases, B \subseteq A
  PROVE  /\ Cardinality(A \ B) = Cardinality(A) - Cardinality(B)
         /\ Cardinality(A \ B) \in Nat /\ Cardinality(A) \in Nat /\ Cardinality(B) \in Nat
  <1>1. IsFiniteSet(A) /\ IsFiniteSet(B) /\ IsFiniteSet(A \ B)
    BY LeasesFinite, FS_Subset
  <1>2. A \cap B = B OBVIOUS
  <1>3. Cardinality(A \ B) = Cardinality(A) - Cardinality(A \cap B) BY <1>1, FS_Difference
  <1>4. QED BY <1>1, <1>2, <1>3, FS_CardinalityType

(* Nothing is reserved at first. *)
LEMMA StepsBegin == StepsInit => StepInv
  <1> SUFFICES ASSUME StepsInit PROVE StepInv OBVIOUS
  <1>1. StepsTypeOK BY DEF StepsInit, StepsTypeOK, Phase
  <1>2. LedgerExact BY FS_EmptySet DEF StepsInit, LedgerExact
  <1>3. WithinCapacity BY StepAssumption DEF StepsInit, WithinCapacity
  <1>4. QED BY <1>1, <1>2, <1>3
            DEF StepsInit, StepInv, OwnedBusy, BusyOwns, DetachedDone, PendingAwaited, LanesRead,
                NextInRange

(* A step that is refused releases the leases it took, one that yields     *)
(* takes none.                                                             *)
LEMMA IdleEnds ==
  ASSUME StepInv, NEW s \in Steps, Refused(s) \/ Yield(s)
  PROVE  StepInv'
  <1>0. /\ phase' = [phase EXCEPT ![s] = "done"] \/ (phase' = [phase EXCEPT ![s] = "continuing"] /\ Yield(s))
        /\ phase[s] = "idle"
        /\ UNCHANGED <<used, owned, detached, pending, lanes, next, failed>>
    <2>1. CASE Refused(s)
      <3>1. used \in Nat BY DEF StepInv, StepsTypeOK
      <3>2. used' = used + Cardinality({}) /\ owned' = owned
        BY <2>1 DEF Refused, RolledBack
      <3>3. QED BY <2>1, <3>1, <3>2, FS_EmptySet DEF Refused
    <2>2. CASE Yield(s) BY <2>2 DEF Yield
    <2>3. QED BY <2>1, <2>2
  <1> USE <1>0 DEF StepInv
  <1>1. StepsTypeOK' BY DEF StepsTypeOK, Phase
  <1>2. LedgerExact' /\ WithinCapacity' BY DEF LedgerExact, WithinCapacity
  <1>3. OwnedBusy' BY LeaseParts DEF OwnedBusy, StepsTypeOK
  <1>4. BusyOwns'
    <2>1. CASE Yield(s)
      <3>1. Actions(s) = {} BY <2>1 DEF Yield, Actions
      <3>2. phase' = [phase EXCEPT ![s] = "continuing"] /\ Actions(s)' = Actions(s)
        BY <2>1 DEF Yield, Actions
      <3>3. \A t \in Steps : Actions(t)' = Actions(t) BY DEF Actions
      <3>4. QED BY <3>1, <3>2, <3>3 DEF BusyOwns, StepsTypeOK
    <2>2. CASE Refused(s)
      <3>1. phase' = [phase EXCEPT ![s] = "done"] BY <2>2 DEF Refused
      <3>2. QED BY <3>1 DEF BusyOwns, StepsTypeOK, Actions
    <2>3. QED BY <2>1, <2>2
  <1>5. DetachedDone' BY LeaseParts DEF DetachedDone, StepsTypeOK
  <1>6. PendingAwaited' BY LeaseParts DEF PendingAwaited, StepsTypeOK
  <1>7. LanesRead' BY DEF LanesRead, StepsTypeOK
  <1>8. NextInRange' BY DEF NextInRange, StepsTypeOK
  <1>9. QED BY <1>1, <1>2, <1>3, <1>4, <1>5, <1>6, <1>7, <1>8

(* The reads a step starts at once are its first actions, a Lanes of them  *)
(* at most.                                                                *)
LEMMA FirstReadsShape ==
  ASSUME NEW s \in Steps
  PROVE  /\ FirstReads(s) \subseteq Actions(s)
         /\ s \in Remote => FirstReads(s) = {}
         /\ Cardinality(FirstReads(s)) \in Nat
         /\ s \notin Remote =>
              /\ Cardinality(FirstReads(s)) = IF Count[s] <= Lanes THEN Count[s] ELSE Lanes
              /\ \A l \in FirstReads(s) : l[2] <= Cardinality(FirstReads(s))
  <1> DEFINE n == IF Count[s] <= Lanes THEN Count[s] ELSE Lanes
  <1>1. n \in Nat /\ n <= Count[s] /\ Count[s] \in Nat BY StepAssumption
  <1>2. CASE s \in Remote BY <1>2, FS_EmptySet DEF FirstReads
  <1>3. CASE s \notin Remote
    <2>1. FirstReads(s) = {<<s, i>> : i \in 1..n} BY <1>3 DEF FirstReads
    <2>2. Cardinality(FirstReads(s)) = n BY <1>1, <2>1, NumberedLeases
    <2>3. FirstReads(s) \subseteq Actions(s) BY <1>1, <2>1 DEF Actions
    <2>4. \A l \in FirstReads(s) : l[2] <= n BY <1>1, <2>1
    <2>5. QED BY <1>1, <1>3, <2>2, <2>3, <2>4
  <1>4. QED BY <1>2, <1>3

(* Reserving and starting the first reads. *)
LEMMA BeginStep ==
  ASSUME StepInv, NEW s \in Steps, Begin(s)
  PROVE  StepInv'
  <1> USE DEF StepInv, Begin, Reserve
  <1>0. /\ FirstReads(s) \subseteq Actions(s) /\ Actions(s) \subseteq Leases
        /\ Cardinality(FirstReads(s)) \in Nat /\ Count[s] \in Nat
    BY FirstReadsShape, ActionParts, StepAssumption
  <1>1. StepsTypeOK'
    <2>1. phase' \in [Steps -> Phase] BY DEF StepsTypeOK, Phase
    <2>2. used' \in Nat BY <1>0 DEF StepsTypeOK
    <2>3. owned' \subseteq Leases /\ detached' \subseteq Leases /\ pending' \subseteq Leases
      BY <1>0 DEF StepsTypeOK
    <2>4. lanes' \in [Steps -> SUBSET Leases] BY <1>0 DEF StepsTypeOK
    <2>5. next' \in [Steps -> Nat \ {0}] BY <1>0 DEF StepsTypeOK
    <2>6. QED BY <2>1, <2>2, <2>3, <2>4, <2>5 DEF StepsTypeOK
  <1>2. Actions(s) \cap (owned \cup detached) = {}
    BY ActionParts DEF OwnedBusy, DetachedDone
  <1>3. LedgerExact'
    <2>1. owned' \cap detached' = {} BY <1>2 DEF LedgerExact
    <2>2. owned' \cup detached' = (owned \cup detached) \cup Actions(s) OBVIOUS
    <2>3. Cardinality((owned \cup detached) \cup Actions(s))
             = Cardinality(owned \cup detached) + Cardinality(Actions(s))
      BY <1>0, <1>2, CountAdded DEF StepsTypeOK
    <2>4. QED BY <2>1, <2>2, <2>3, ActionsCounted DEF LedgerExact
  <1>4. WithinCapacity' BY DEF WithinCapacity, Fits
  <1>5. OwnedBusy' BY ActionParts, LeaseParts DEF OwnedBusy, StepsTypeOK
  <1>6. BusyOwns' BY DEF BusyOwns, StepsTypeOK, Actions
  <1>7. DetachedDone'
    <2>1. \A l \in detached : l[1] # s /\ l[1] \in Steps BY LeaseParts DEF DetachedDone, StepsTypeOK
    <2>2. QED BY <2>1 DEF DetachedDone, StepsTypeOK
  <1>8. \A l \in pending : l[1] # s /\ l[1] \in Steps
    BY LeaseParts DEF PendingAwaited, LanesRead, DetachedDone, StepsTypeOK
  <1>9. PendingAwaited'
    <2> SUFFICES ASSUME NEW l \in pending'
                 PROVE  /\ l[1] \notin Remote /\ l[2] < next'[l[1]]
                        /\ l \in lanes'[l[1]] \/ l \in detached'
      BY DEF PendingAwaited
    <2>1. CASE l \in pending BY <1>8, <2>1 DEF PendingAwaited, StepsTypeOK
    <2>2. CASE l \in FirstReads(s)
      <3>1. l[1] = s /\ s \notin Remote BY <1>0, <2>2, ActionParts, FirstReadsShape
      <3>2. l[2] \in Nat BY <1>0, <2>2, <3>1, LeaseParts
      <3>3. QED BY <1>0, <2>2, <3>1, <3>2, FirstReadsShape DEF StepsTypeOK
    <2>3. QED BY <2>1, <2>2
  <1>10. LanesRead' BY <1>0, ActionParts DEF LanesRead, StepsTypeOK
  <1>11. NextInRange'
    <2> SUFFICES ASSUME NEW t \in Steps, phase'[t] = "reading", t \notin Remote
                 PROVE  /\ next'[t] <= Count[t] + 1
                        /\ Count[t] <= Lanes => next'[t] = Count[t] + 1
      BY DEF NextInRange
    <2>1. CASE t = s BY <1>0, <2>1, FirstReadsShape, StepAssumption DEF StepsTypeOK
    <2>2. CASE t # s BY <2>2 DEF NextInRange, StepsTypeOK
    <2>3. QED BY <2>1, <2>2
  <1>12. QED BY <1>1, <1>3, <1>4, <1>5, <1>6, <1>7, <1>9, <1>10, <1>11

(* While a step is busy the leases it owns are its actions, and none of    *)
(* them is detached.                                                       *)
LEMMA BusyLeases ==
  ASSUME StepInv, NEW s \in Steps, phase[s] \in {"reading", "continuing"}
  PROVE  /\ LeasesOf(s, owned) = Actions(s)
         /\ Actions(s) \subseteq owned
         /\ Actions(s) \cap detached = {}
         /\ \A l \in Leases : l[1] = s => l \in owned /\ l \notin detached
  <1>1. Actions(s) \subseteq owned BY DEF StepInv, BusyOwns
  <1>2. LeasesOf(s, owned) = Actions(s)
    BY <1>1, ActionParts DEF LeasesOf, StepInv, StepsTypeOK
  <1>3. Actions(s) \cap detached = {} BY <1>1 DEF StepInv, LedgerExact
  <1>4. QED BY <1>1, <1>2, <1>3, ActionParts

(* A step fails while it reads: the leases of reads that have not settled  *)
(* are detached, the others leave the ledger.  pending' is what still      *)
(* runs in the host after this task.                                       *)
LEMMA FailedStep ==
  ASSUME StepInv, NEW s \in Steps, phase[s] = "reading", FailStep(s, pending'),
         UNCHANGED next, failed' \in [Steps -> BOOLEAN],
         pending' \subseteq pending, \A l \in pending \ pending' : l[1] = s
  PROVE  StepInv'
  <1> DEFINE mine == LeasesOf(s, owned)
             kept == IF s \in Remote THEN {} ELSE mine \cap Unsettled(s, pending')
  <1> USE DEF StepInv
  <1>0. /\ phase' = [phase EXCEPT ![s] = "done"]
        /\ owned' = owned \ mine /\ detached' = detached \cup kept
        /\ used' = used - Cardinality(mine \ kept)
        /\ lanes' = [lanes EXCEPT ![s] = {}]
    BY DEF FailStep
  <1>1. /\ mine = Actions(s) /\ mine \subseteq owned /\ mine \cap detached = {}
        /\ kept \subseteq mine /\ mine \subseteq Leases
    BY BusyLeases, ActionParts
  <1>2. \A l \in mine : l[1] = s BY <1>1, ActionParts
  <1>3. \A l \in Leases : l[1] = s => l \in mine BY <1>1, ActionParts
  <1> HIDE DEF mine
  <1>4. LedgerExact' /\ WithinCapacity' /\ used' \in Nat
    <2>1. owned' \cap detached' = {} BY <1>0, <1>1 DEF LedgerExact
    <2>2. owned' \cup detached' = (owned \cup detached) \ (mine \ kept)
      BY <1>0, <1>1
    <2>3. /\ Cardinality((owned \cup detached) \ (mine \ kept))
               = Cardinality(owned \cup detached) - Cardinality(mine \ kept)
          /\ Cardinality((owned \cup detached) \ (mine \ kept)) \in Nat
          /\ Cardinality(mine \ kept) \in Nat
      <3>1. /\ owned \cup detached \subseteq Leases
            /\ mine \ kept \subseteq owned \cup detached
        BY <1>1 DEF StepsTypeOK
      <3> HIDE DEF kept
      <3>2. QED BY <3>1, CountRemoved
    <2>4. used' = Cardinality(owned' \cup detached')
      <3> HIDE DEF kept
      <3>1. QED BY <1>0, <2>2, <2>3 DEF LedgerExact
    <2>5. used' \in Nat /\ used' <= used
      <3> HIDE DEF kept
      <3>1. QED BY <1>0, <2>2, <2>3, <2>4 DEF LedgerExact, StepsTypeOK
    <2>6. QED BY <2>1, <2>4, <2>5, StepAssumption DEF LedgerExact, WithinCapacity, StepsTypeOK
  <1>5. StepsTypeOK' BY <1>0, <1>1, <1>4 DEF StepsTypeOK, Phase
  <1>6. OwnedBusy'
    <2>1. \A l \in owned' : l \in owned /\ l[1] # s /\ l[1] \in Steps
      BY <1>0, <1>3, LeaseParts DEF StepsTypeOK
    <2>2. QED BY <1>0, <2>1 DEF OwnedBusy, StepsTypeOK
  <1>7. BusyOwns'
    <2> SUFFICES ASSUME NEW t \in Steps, phase'[t] \in {"reading", "continuing"}
                 PROVE  Actions(t) \subseteq owned'
      BY DEF BusyOwns, Actions
    <2>1. t # s /\ phase[t] \in {"reading", "continuing"} BY <1>0 DEF StepsTypeOK
    <2>2. Actions(t) \subseteq owned BY <2>1 DEF BusyOwns
    <2>3. QED BY <1>0, <1>2, <2>1, <2>2, ActionParts
  <1>8. DetachedDone'
    <2> SUFFICES ASSUME NEW l \in detached'
                 PROVE  /\ phase'[l[1]] = "done" /\ l[1] \notin Remote
                        /\ l \in pending' \/ l[2] >= next'[l[1]]
                        /\ Count[l[1]] <= Lanes => l[2] < next'[l[1]]
      BY DEF DetachedDone
    <2>1. CASE l \in detached
      <3>1. l[1] \in Steps /\ l[1] # s BY <2>1, <1>1, <1>3, LeaseParts DEF StepsTypeOK
      <3>2. l \in pending => l \in pending' BY <3>1
      <3>3. QED BY <1>0, <2>1, <3>1, <3>2 DEF DetachedDone, StepsTypeOK
    <2>2. CASE l \in kept
      <3>1. /\ l[1] = s /\ s \notin Remote /\ l \in mine /\ l[2] \in 1..Count[s]
            /\ l[2] >= next[s] \/ l \in pending'
        BY <1>1, <1>2, <2>2, LeaseParts DEF Unsettled
      <3>2. Count[s] <= Lanes => next[s] = Count[s] + 1
        BY <3>1 DEF NextInRange
      <3>3. next[s] \in Nat /\ Count[s] \in Nat BY StepAssumption DEF StepsTypeOK
      <3>4. phase'[s] = "done" BY <1>0 DEF StepsTypeOK
      <3>5. Count[s] <= Lanes => l[2] < next[s] BY <3>1, <3>2, <3>3
      <3>6. QED BY <3>1, <3>4, <3>5
    <2>3. QED BY <1>0, <2>1, <2>2
  <1>9. PendingAwaited'
    <2> SUFFICES ASSUME NEW l \in pending'
                 PROVE  /\ l[1] \notin Remote /\ l[2] < next'[l[1]]
                        /\ l \in lanes'[l[1]] \/ l \in detached'
      BY DEF PendingAwaited
    <2>1. l \in pending /\ l \in Leases /\ l[1] \in Steps BY LeaseParts DEF StepsTypeOK
    <2>2. CASE l[1] = s
      <3>1. l \in mine /\ s \notin Remote BY <1>3, <2>1, <2>2 DEF PendingAwaited
      <3>2. l \in kept BY <1>1, <3>1 DEF Unsettled
      <3>3. QED BY <1>0, <2>1, <3>2 DEF PendingAwaited
    <2>3. CASE l[1] # s BY <1>0, <2>1, <2>3 DEF PendingAwaited, StepsTypeOK
    <2>4. QED BY <2>2, <2>3
  <1>10. LanesRead'
    <2> SUFFICES ASSUME NEW t \in Steps, NEW l \in lanes'[t]
                 PROVE  l[1] = t /\ l \in pending' /\ phase'[t] = "reading"
      BY DEF LanesRead
    <2>1. t # s /\ l \in lanes[t] BY <1>0 DEF StepsTypeOK
    <2>2. QED BY <1>0, <2>1 DEF LanesRead, StepsTypeOK
  <1>11. NextInRange' BY <1>0 DEF NextInRange, StepsTypeOK
  <1>12. QED BY <1>4, <1>5, <1>6, <1>7, <1>8, <1>9, <1>10, <1>11

(* What a read that a lane awaits is. *)
LEMMA LaneRead ==
  ASSUME StepInv, NEW s \in Steps, NEW l \in lanes[s]
  PROVE  /\ l \in pending /\ l \in Leases /\ l[1] = s /\ phase[s] = "reading"
         /\ s \notin Remote /\ l \notin detached
  <1>1. l \in pending /\ l[1] = s /\ phase[s] = "reading" BY DEF StepInv, LanesRead
  <1>2. l \in Leases BY <1>1 DEF StepInv, StepsTypeOK
  <1>3. s \notin Remote BY <1>1 DEF StepInv, PendingAwaited
  <1>4. l \notin detached BY <1>1 DEF StepInv, DetachedDone
  <1>5. QED BY <1>1, <1>2, <1>3, <1>4

(* A lane goes on to the next action. *)
LEMMA LaneAdvances ==
  ASSUME StepInv, NEW s \in Steps, NEW l \in lanes[s], LaneTakesNext(s, l)
  PROVE  StepInv'
  <1> DEFINE m == <<s, next[s]>>
  <1> USE DEF StepInv
  <1>0. /\ l \in pending /\ l[1] = s /\ phase[s] = "reading" /\ s \notin Remote
        /\ l \notin detached
    BY LaneRead
  <1>1. /\ next[s] \in Nat \ {0} /\ Count[s] \in Nat /\ next[s] <= Count[s]
        /\ Lanes \in Nat
    BY StepAssumption DEF StepsTypeOK, LaneTakesNext
  <1>2. m \in Leases /\ m[1] = s /\ m[2] = next[s]
    BY <1>1, ActionParts
  <1>3. m \notin pending BY <1>1, <1>2 DEF PendingAwaited
  <1>4. /\ lanes' = [lanes EXCEPT ![s] = (@ \ {l}) \cup {m}]
        /\ pending' = (pending \ {l}) \cup {m}
        /\ next' = [next EXCEPT ![s] = @ + 1]
        /\ UNCHANGED <<phase, used, owned, detached, failed>>
    BY DEF LaneTakesNext
  <1> HIDE DEF m
  <1>5. StepsTypeOK' BY <1>1, <1>2, <1>4 DEF StepsTypeOK
  <1>6. LedgerExact' /\ WithinCapacity' /\ OwnedBusy' /\ BusyOwns'
    BY <1>4 DEF LedgerExact, WithinCapacity, OwnedBusy, BusyOwns, Actions
  <1>7. DetachedDone'
    <2>1. \A d \in detached : d[1] \in Steps /\ d[1] # s /\ d # l
      BY <1>0, LeaseParts DEF DetachedDone, StepsTypeOK
    <2>2. QED BY <1>4, <2>1 DEF DetachedDone, StepsTypeOK
  <1>8. PendingAwaited'
    <2> SUFFICES ASSUME NEW p \in pending'
                 PROVE  /\ p[1] \notin Remote /\ p[2] < next'[p[1]]
                        /\ p \in lanes'[p[1]] \/ p \in detached'
      BY DEF PendingAwaited
    <2>1. CASE p = m
      <3>1. next'[s] = next[s] + 1 /\ m \in lanes'[s] BY <1>4 DEF StepsTypeOK
      <3>2. QED BY <1>0, <1>1, <1>2, <2>1, <3>1
    <2>2. CASE p # m
      <3>1. p \in pending /\ p # l /\ p[1] \in Steps /\ p[2] \in Nat
        BY <1>4, <2>2, LeaseParts, StepAssumption DEF StepsTypeOK
      <3>2. next[p[1]] <= next'[p[1]] /\ next[p[1]] \in Nat /\ next'[p[1]] \in Nat
        BY <1>1, <1>4, <3>1 DEF StepsTypeOK
      <3>3. p \in lanes[p[1]] => p \in lanes'[p[1]] BY <1>4, <3>1 DEF StepsTypeOK
      <3>4. QED BY <1>4, <3>1, <3>2, <3>3 DEF PendingAwaited
    <2>3. QED BY <2>1, <2>2
  <1>9. LanesRead'
    <2> SUFFICES ASSUME NEW t \in Steps, NEW p \in lanes'[t]
                 PROVE  p[1] = t /\ p \in pending' /\ phase'[t] = "reading"
      BY DEF LanesRead
    <2>1. CASE p = m /\ t = s BY <1>0, <1>2, <1>4, <2>1
    <2>2. CASE ~(p = m /\ t = s)
      <3>1. p \in lanes[t] /\ p # l
        BY <1>0, <1>4, <2>2 DEF LanesRead, StepsTypeOK
      <3>2. QED BY <1>4, <3>1 DEF LanesRead
    <2>3. QED BY <2>1, <2>2
  <1>10. NextInRange'
    <2> SUFFICES ASSUME NEW t \in Steps, phase'[t] = "reading", t \notin Remote
                 PROVE  /\ next'[t] <= Count[t] + 1
                        /\ Count[t] <= Lanes => next'[t] = Count[t] + 1
      BY DEF NextInRange
    <2>1. CASE t = s
      <3>1. ~(Count[s] <= Lanes) BY <1>0, <1>1 DEF NextInRange
      <3>2. next'[s] = next[s] + 1 BY <1>4 DEF StepsTypeOK
      <3>3. QED BY <1>1, <2>1, <3>1, <3>2
    <2>2. CASE t # s BY <1>4, <2>2 DEF NextInRange, StepsTypeOK
    <2>3. QED BY <2>1, <2>2
  <1>11. QED BY <1>5, <1>6, <1>7, <1>8, <1>9, <1>10

(* A lane returns and its step reads on in other lanes, or continues. *)
LEMMA LaneStops ==
  ASSUME StepInv, NEW s \in Steps, NEW l \in lanes[s],
         pending' = pending \ {l}, failed' \in [Steps -> BOOLEAN],
         lanes' = [lanes EXCEPT ![s] = @ \ {l}],
         \/ UNCHANGED phase
         \/ lanes[s] = {l} /\ phase' = [phase EXCEPT ![s] = "continuing"],
         UNCHANGED <<next, used, owned, detached>>
  PROVE  StepInv'
  <1> USE DEF StepInv
  <1>0. /\ l \in pending /\ l[1] = s /\ phase[s] = "reading" /\ s \notin Remote
        /\ l \notin detached
    BY LaneRead
  <1>1. StepsTypeOK' BY DEF StepsTypeOK, Phase
  <1>2. LedgerExact' /\ WithinCapacity' BY DEF LedgerExact, WithinCapacity
  <1>3. OwnedBusy' BY <1>0, LeaseParts DEF OwnedBusy, StepsTypeOK
  <1>4. BusyOwns' BY <1>0 DEF BusyOwns, StepsTypeOK, Actions
  <1>5. DetachedDone' BY <1>0, LeaseParts DEF DetachedDone, StepsTypeOK
  <1>6. PendingAwaited' BY <1>0, LeaseParts DEF PendingAwaited, StepsTypeOK
  <1>7. LanesRead'
    <2> SUFFICES ASSUME NEW t \in Steps, NEW p \in lanes'[t]
                 PROVE  p[1] = t /\ p \in pending' /\ phase'[t] = "reading"
      BY DEF LanesRead
    <2>1. p \in lanes[t] /\ p # l BY <1>0 DEF LanesRead, StepsTypeOK
    <2>2. t = s => lanes[s] # {l} BY <2>1
    <2>3. QED BY <2>1, <2>2 DEF LanesRead, StepsTypeOK
  <1>8. NextInRange' BY <1>0 DEF NextInRange, StepsTypeOK
  <1>9. QED BY <1>1, <1>2, <1>3, <1>4, <1>5, <1>6, <1>7, <1>8

(* A read awaited by a lane settles. *)
LEMMA LaneStep ==
  ASSUME StepInv, NEW s \in Steps, NEW l \in lanes[s], NEW ok \in BOOLEAN,
         LaneReadSettles(s, l, ok)
  PROVE  StepInv'
  <1>1. CASE LaneTakesNext(s, l) BY <1>1, LaneAdvances
  <1>2. CASE LaneReturns(s, l, ok)
    <2>0. /\ pending' = pending \ {l} /\ UNCHANGED next
          /\ failed' \in [Steps -> BOOLEAN] /\ lanes[s] \subseteq Leases
          /\ lanes \in [Steps -> SUBSET Leases]
      BY <1>2 DEF LaneReturns, StepInv, StepsTypeOK
    <2>1. CASE lanes[s] # {l}
      BY <1>2, <2>0, <2>1, LaneStops DEF LaneReturns
    <2>2. CASE lanes[s] = {l} /\ failed'[s]
      <3>1. FailStep(s, pending') BY <1>2, <2>2 DEF LaneReturns
      <3>2. phase[s] = "reading" /\ l[1] = s BY LaneRead
      <3>3. QED BY <2>0, <3>1, <3>2, FailedStep
    <2>3. CASE lanes[s] = {l} /\ ~failed'[s]
      <3>1. /\ phase' = [phase EXCEPT ![s] = "continuing"]
            /\ lanes' = [lanes EXCEPT ![s] = {}] /\ UNCHANGED <<used, owned, detached>>
        BY <1>2, <2>3 DEF LaneReturns
      <3>2. lanes' = [lanes EXCEPT ![s] = @ \ {l}] BY <2>0, <2>3, <3>1
      <3>3. QED BY <2>0, <2>3, <3>1, <3>2, LaneStops
    <2>4. QED BY <2>1, <2>2, <2>3
  <1>3. QED BY <1>1, <1>2 DEF LaneReadSettles

(* readMany settles, or the request is cancelled. *)
LEMMA ReadingEnds ==
  ASSUME StepInv, NEW s \in Steps,
         CancelReading(s) \/ \E ok \in BOOLEAN : RemoteReadSettles(s, ok)
  PROVE  StepInv'
  <1>1. CASE CancelReading(s)
    <2>1. failed' \in [Steps -> BOOLEAN] BY <1>1 DEF CancelReading, StepInv, StepsTypeOK
    <2>2. pending' = pending /\ next' = next /\ phase[s] = "reading" /\ FailStep(s, pending')
      BY <1>1 DEF CancelReading
    <2>3. QED BY <2>1, <2>2, FailedStep
  <1>2. ASSUME NEW ok \in BOOLEAN, RemoteReadSettles(s, ok) PROVE StepInv'
    <2>0. /\ pending' = pending /\ next' = next /\ failed' = failed
          /\ phase[s] = "reading" /\ s \in Remote
      BY <1>2 DEF RemoteReadSettles
    <2>1. CASE ~ok
      <3>1. FailStep(s, pending') BY <1>2, <2>0, <2>1 DEF RemoteReadSettles
      <3>2. failed' \in [Steps -> BOOLEAN] BY <2>0 DEF StepInv, StepsTypeOK
      <3>3. QED BY <2>0, <3>1, <3>2, FailedStep
    <2>2. CASE ok
      <3> USE DEF StepInv
      <3>1. /\ phase' = [phase EXCEPT ![s] = "continuing"]
            /\ UNCHANGED <<used, owned, detached, lanes>>
        BY <1>2, <2>2 DEF RemoteReadSettles
      <3>2. StepsTypeOK' BY <2>0, <3>1 DEF StepsTypeOK, Phase
      <3>3. LedgerExact' /\ WithinCapacity' BY <3>1 DEF LedgerExact, WithinCapacity
      <3>4. OwnedBusy' BY <2>0, <3>1, LeaseParts DEF OwnedBusy, StepsTypeOK
      <3>5. BusyOwns' BY <2>0, <3>1 DEF BusyOwns, StepsTypeOK, Actions
      <3>6. DetachedDone' BY <2>0, <3>1, LeaseParts DEF DetachedDone, StepsTypeOK
      <3>7. PendingAwaited' BY <2>0, <3>1 DEF PendingAwaited
      <3>8. LanesRead' BY <2>0, <3>1, LaneRead DEF LanesRead, StepsTypeOK
      <3>9. NextInRange' BY <2>0, <3>1 DEF NextInRange, StepsTypeOK
      <3>10. QED BY <3>2, <3>3, <3>4, <3>5, <3>6, <3>7, <3>8, <3>9
    <2>3. QED BY <2>1, <2>2
  <1>3. QED BY <1>1, <1>2

(* A detached read settles and its lease leaves the ledger. *)
LEMMA DetachedStep ==
  ASSUME StepInv, NEW l \in pending, DetachedReadSettles(l)
  PROVE  StepInv'
  <1> USE DEF StepInv, DetachedReadSettles
  <1>0. /\ l \in detached /\ l \in Leases /\ l[1] \in Steps /\ l \notin owned
    BY LeaseParts DEF StepsTypeOK, LedgerExact
  <1>1. /\ Cardinality((owned \cup detached) \ {l}) = used - 1
        /\ Cardinality((owned \cup detached) \ {l}) \in Nat
    <2>1. owned \cup detached \subseteq Leases /\ {l} \subseteq owned \cup detached
      BY <1>0 DEF StepsTypeOK
    <2>2. Cardinality({l}) = 1 BY FS_Singleton
    <2>3. /\ Cardinality((owned \cup detached) \ {l})
               = Cardinality(owned \cup detached) - Cardinality({l})
          /\ Cardinality((owned \cup detached) \ {l}) \in Nat
      BY <2>1, CountRemoved
    <2>4. used = Cardinality(owned \cup detached) BY DEF LedgerExact
    <2>5. QED BY <2>2, <2>3, <2>4
  <1>2. owned' \cup detached' = (owned \cup detached) \ {l} BY <1>0
  <1>3. StepsTypeOK' BY <1>1 DEF StepsTypeOK
  <1>4. LedgerExact' BY <1>1, <1>2 DEF LedgerExact
  <1>5. WithinCapacity' BY StepAssumption DEF WithinCapacity, StepsTypeOK
  <1>6. OwnedBusy' /\ BusyOwns' BY DEF OwnedBusy, BusyOwns, Actions
  <1>7. DetachedDone' BY DEF DetachedDone
  <1>8. PendingAwaited' BY DEF PendingAwaited
  <1>9. LanesRead' BY <1>0, LaneRead DEF LanesRead
  <1>10. NextInRange' BY DEF NextInRange
  <1>11. QED BY <1>3, <1>4, <1>5, <1>6, <1>7, <1>8, <1>9, <1>10

(* The finally block after the adapter has continued. *)
LEMMA ContinuedStep ==
  ASSUME StepInv, NEW s \in Steps, Continued(s)
  PROVE  StepInv'
  <1> DEFINE mine == LeasesOf(s, owned)
  <1> USE DEF StepInv
  <1>0. /\ phase[s] = "continuing" /\ phase' = [phase EXCEPT ![s] = "done"]
        /\ owned' = owned \ mine /\ used' = used - Cardinality(mine)
        /\ UNCHANGED <<detached, pending, lanes, next, failed>>
    BY DEF Continued
  <1>1. /\ mine = Actions(s) /\ mine \subseteq owned /\ mine \cap detached = {}
        /\ \A l \in mine : l[1] = s
        /\ \A l \in Leases : l[1] = s => l \in mine /\ l \notin detached
    BY <1>0, BusyLeases, ActionParts
  <1> HIDE DEF mine
  <1>2. LedgerExact' /\ used' \in Nat /\ used' <= used
    <2>1. owned' \cup detached' = (owned \cup detached) \ mine BY <1>0, <1>1
    <2>2. owned \cup detached \subseteq Leases /\ mine \subseteq owned \cup detached
      BY <1>1 DEF StepsTypeOK
    <2>3. /\ Cardinality((owned \cup detached) \ mine)
               = Cardinality(owned \cup detached) - Cardinality(mine)
          /\ Cardinality((owned \cup detached) \ mine) \in Nat
          /\ Cardinality(mine) \in Nat
      BY <2>2, CountRemoved
    <2>4. used = Cardinality(owned \cup detached) /\ used \in Nat BY DEF LedgerExact, StepsTypeOK
    <2>5. used' = Cardinality(owned' \cup detached') BY <1>0, <2>1, <2>3, <2>4
    <2>6. used' \in Nat /\ used' <= used BY <1>0, <2>1, <2>3, <2>4, <2>5
    <2>7. owned' \cap detached' = {} BY <1>0 DEF LedgerExact
    <2>8. QED BY <2>5, <2>6, <2>7 DEF LedgerExact
  <1>3. StepsTypeOK' BY <1>0, <1>2 DEF StepsTypeOK, Phase
  <1>4. WithinCapacity' BY <1>2, StepAssumption DEF WithinCapacity, StepsTypeOK
  <1>5. OwnedBusy'
    <2>1. \A l \in owned' : l \in owned /\ l[1] # s /\ l[1] \in Steps
      BY <1>0, <1>1, LeaseParts DEF StepsTypeOK
    <2>2. QED BY <1>0, <2>1 DEF OwnedBusy, StepsTypeOK
  <1>6. BusyOwns'
    <2> SUFFICES ASSUME NEW t \in Steps, phase'[t] \in {"reading", "continuing"}
                 PROVE  Actions(t) \subseteq owned'
      BY DEF BusyOwns, Actions
    <2>1. t # s /\ phase[t] \in {"reading", "continuing"} BY <1>0 DEF StepsTypeOK
    <2>2. Actions(t) \subseteq owned BY <2>1 DEF BusyOwns
    <2>3. QED BY <1>0, <1>1, <2>1, <2>2, ActionParts
  <1>7. DetachedDone' BY <1>0, LeaseParts DEF DetachedDone, StepsTypeOK
  <1>8. PendingAwaited' BY <1>0 DEF PendingAwaited
  <1>9. LanesRead' BY <1>0, LaneRead DEF LanesRead, StepsTypeOK
  <1>10. NextInRange' BY <1>0 DEF NextInRange, StepsTypeOK
  <1>11. QED BY <1>2, <1>3, <1>4, <1>5, <1>6, <1>7, <1>8, <1>9, <1>10

(* Every task of the Worker keeps the ledger in step with the reads: no    *)
(* interleaving of reservations, settled reads, cancellations and          *)
(* continuations loses a lease, releases one twice or exceeds the budget.  *)
THEOREM StepInvariant == StepsSpec => []StepInv
  <1>1. StepInv /\ [StepsNext]_stepVars => StepInv'
    <2> SUFFICES ASSUME StepInv, [StepsNext]_stepVars PROVE StepInv'
      OBVIOUS
    <2>1. CASE UNCHANGED stepVars
      BY <2>1 DEF stepVars, StepInv, StepsTypeOK, LedgerExact, WithinCapacity, OwnedBusy, BusyOwns,
                  DetachedDone, PendingAwaited, LanesRead, NextInRange, Actions
    <2>2. ASSUME NEW s \in Steps, Refused(s) \/ Yield(s) PROVE StepInv' BY <2>2, IdleEnds
    <2>3. ASSUME NEW s \in Steps, Begin(s) PROVE StepInv' BY <2>3, BeginStep
    <2>4. ASSUME NEW s \in Steps,
                 CancelReading(s) \/ \E ok \in BOOLEAN : RemoteReadSettles(s, ok)
          PROVE  StepInv'
      BY <2>4, ReadingEnds
    <2>5. ASSUME NEW s \in Steps, Continued(s) PROVE StepInv' BY <2>5, ContinuedStep
    <2>6. ASSUME NEW s \in Steps, NEW l \in lanes[s], NEW ok \in BOOLEAN,
                 LaneReadSettles(s, l, ok)
          PROVE  StepInv'
      BY <2>6, LaneStep
    <2>7. ASSUME NEW l \in pending, DetachedReadSettles(l) PROVE StepInv'
      BY <2>7, DetachedStep
    <2>8. QED BY <2>1, <2>2, <2>3, <2>4, <2>5, <2>6, <2>7 DEF StepsNext
  <1>2. QED BY StepsBegin, <1>1, PTL DEF StepsSpec

(* The ledger's #usedBytes counts each live reservation exactly once. *)
THEOREM LedgerIsExact == StepsSpec => []LedgerExact
  <1>1. StepInv => LedgerExact BY DEF StepInv
  <1>2. QED BY StepInvariant, <1>1, PTL

(* The Worker's reservations never exceed the engine's budget. *)
THEOREM BudgetHolds == StepsSpec => []WithinCapacity
  <1>1. StepInv => WithinCapacity BY DEF StepInv
  <1>2. QED BY StepInvariant, <1>1, PTL

(* Bytes a Blob read still holds in the host are covered by a reservation, *)
(* also after the step that asked for them has failed or been cancelled.   *)
THEOREM PendingIsCovered == StepsSpec => []PendingCovered
  <1>1. StepInv => PendingCovered
    <2> SUFFICES ASSUME StepInv, NEW l \in pending PROVE l \in owned \cup detached
      BY DEF PendingCovered
    <2>1. l \in Leases /\ l[1] \in Steps BY LeaseParts DEF StepInv, StepsTypeOK
    <2>2. CASE l \in detached BY <2>2
    <2>3. CASE l \in lanes[l[1]]
      BY <2>1, <2>3, LaneRead, BusyLeases
    <2>4. QED BY <2>2, <2>3 DEF StepInv, PendingAwaited
  <1>2. QED BY StepInvariant, <1>1, PTL

(* A step that has ended owns no lease, and what it detached belongs to a  *)
(* read in the host or to an action that was never started.                *)
THEOREM FinishedIsClean == StepsSpec => []FinishedOwnsNothing
  <1>1. StepInv => FinishedOwnsNothing
    BY DEF StepInv, FinishedOwnsNothing, LeasesOf, OwnedBusy, DetachedDone
  <1>2. QED BY StepInvariant, <1>1, PTL

(* Up to as many actions as lanes, everything a step reserved is given     *)
(* back once its reads have settled.                                       *)
THEOREM SmallStepsRelease == StepsSpec => []SmallStepReleased
  <1>1. StepInv => SmallStepReleased
    <2> SUFFICES ASSUME StepInv, NEW s \in Steps, phase[s] = "done", Count[s] <= Lanes,
                        LeasesOf(s, pending) = {},
                        NEW l \in owned \cup detached, l[1] = s
                 PROVE  FALSE
      BY DEF SmallStepReleased, LeasesOf
    <2>1. l \in detached BY DEF StepInv, OwnedBusy
    <2>2. l \notin pending BY DEF LeasesOf
    <2>3. l[2] >= next[s] /\ l[2] < next[s] BY <2>1, <2>2 DEF StepInv, DetachedDone
    <2>4. l[2] \in Nat /\ next[s] \in Nat
      BY <2>1, LeaseParts, StepAssumption DEF StepInv, StepsTypeOK
    <2>5. QED BY <2>3, <2>4
  <1>2. QED BY StepInvariant, <1>1, PTL
=============================================================================
