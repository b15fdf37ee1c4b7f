-------------------------- MODULE SourceBrokerProofs --------------------------
(***************************************************************************)
(* The source broker for any readers, reads, lengths and budgets.          *)
(*                                                                         *)
(* Everything the main thread keeps about a read follows from its phase:   *)
(* which queue it stands in, which permits it holds, whether a             *)
(* continuation of it is scheduled (Holdings).  The two channels are tied  *)
(* to the phases by Posted, and the permits to the counters of the         *)
(* limiters by Counted.                                                    *)
(***************************************************************************)
EXTENDS SourceBroker, FoldTheorems, SequenceTheorems

MainMessages == [type : {"read", "cancel"}, of : Reads] \cup [type : {"close"}, of : Sources]
WorkerMessages == [type : {"bytes", "failure"}, of : Reads]

\* A queue of exactly the reads in S, each once.
Lists(q, S) ==
    /\ q \in Seq(S)
    /\ \A r \in S : \E i \in 1..Len(q) : q[i] = r
    /\ \A i, j \in 1..Len(q) : q[i] = q[j] => i = j

Waiting(s) == {r \in Reads : phase[r] = "concurrency" /\ SourceOf[r] = s}
Staging == {r \in Reads : phase[r] = "staging"}
CallsOf(s) == {r \in calls : SourceOf[r] = s}

Typed ==
    /\ maxConcurrency \in [Sources -> 1..4]
    /\ phase \in [Reads -> Phase] /\ outcome \in [Reads -> Answer]
    /\ accessorOpen \in [Sources -> BOOLEAN] /\ readerOpen \in [Sources -> BOOLEAN]
    /\ engineOpen \in BOOLEAN /\ closeCalls \in [Sources -> Nat]
    /\ aborted \subseteq Reads /\ calls \subseteq Reads /\ staged \subseteq Reads
    /\ IsFiniteSet(calls) /\ IsFiniteSet(staged) /\ IsFiniteSet(Outstanding)

Channels ==
    /\ toMain \in Seq(MainMessages) /\ toWorker \in Seq(WorkerMessages)

\* Once a cancellation is posted the read is settled in the Worker; a read
\* is posted once, and nothing has been done for it while it is on the way.
Posted ==
    /\ \A i \in 1..Len(toMain) :
          /\ toMain[i].type = "read" =>
                phase[toMain[i].of] = "none" /\ outcome[toMain[i].of] # "none"
          /\ toMain[i].type = "cancel" => outcome[toMain[i].of] \notin {"none", "pending"}
    /\ \A i, j \in 1..Len(toMain) : toMain[i].type = "read" /\ toMain[i] = toMain[j] => i = j
    /\ \A r \in Reads : outcome[r] = "none" => phase[r] = "none"

Holdings ==
    /\ ready = {r \in Reads : phase[r] \in {"admitted", "staged", "calling", "rejected", "ending"}}
    /\ pending = {r \in Reads : phase[r] \notin {"none", "done"} /\ readerOpen[SourceOf[r]]}
    /\ \A r \in Reads :
          /\ phase[r] \in {"admitted", "staging", "staged", "calling", "providing"} => r \in calls
          /\ phase[r] \in {"none", "concurrency", "done"} => r \notin calls
          /\ phase[r] \in {"staged", "calling", "providing"} => r \in staged
          /\ r \in staged => phase[r] \in {"staged", "calling", "providing", "ending"}
          /\ phase[r] \in {"concurrency", "staging"} => readerOpen[SourceOf[r]]
          /\ phase[r] \notin {"none", "done"} => readerOpen[SourceOf[r]] \/ r \in aborted

Queues ==
    /\ \A s \in Sources : Lists(concurrencyQueue[s], Waiting(s))
    /\ DOMAIN concurrencyQueue = Sources
    /\ Lists(stagingQueue, Staging)

Bytes ==
    /\ used = Total(Length, staged) /\ used \in 0..Capacity
    /\ engineOpen => \A r \in Staging : used + Length[r] > Capacity

Counted ==
    /\ running \in [Sources -> Nat]
    /\ \A s \in Sources :
          /\ running[s] = Cardinality(CallsOf(s)) /\ running[s] <= maxConcurrency[s]
          /\ Waiting(s) # {} => running[s] = maxConcurrency[s]

Ends ==
    /\ ~engineOpen => \A s \in Sources : ~readerOpen[s]
    /\ \A r \in aborted : readerOpen[SourceOf[r]] => outcome[r] \notin {"none", "pending"}
    /\ \A r \in Reads : phase[r] = "rejected" => r \in aborted \/ ~engineOpen
    /\ ClosedOnce

Answering ==
    \A r \in Outstanding : readerOpen[SourceOf[r]] =>
        \/ phase[r] = "none" /\ \E i \in 1..Len(toMain) : toMain[i] = Msg("read", r)
        \/ phase[r] \in {"concurrency", "admitted", "staging", "staged", "calling", "providing"}
        \/ \E i \in 1..Len(toWorker) : toWorker[i] \in {Msg("bytes", r), Msg("failure", r)}

IInv == Typed /\ Channels /\ Posted /\ Holdings /\ Queues /\ Bytes /\ Counted /\ Ends /\ Answering

-----------------------------------------------------------------------------
(* The queues of the two limiters.                                         *)
LEMMA ListsEmpty ==
  /\ Lists(<<>>, {})
  /\ \A q, S : Lists(q, S) => (q = <<>> <=> S = {})
  BY DEF Lists

LEMMA ListsAppend ==
  ASSUME NEW q, NEW S, Lists(q, S), NEW r, r \notin S
  PROVE  Lists(Append(q, r), S \cup {r})
  <1> DEFINE a == Append(q, r)
  <1>1. q \in Seq(S \cup {r}) BY SeqMonotonic DEF Lists
  <1>2. /\ a \in Seq(S \cup {r}) /\ Len(a) = Len(q) + 1 /\ Len(q) \in Nat
        /\ a[Len(q) + 1] = r /\ \A i \in 1..Len(q) : a[i] = q[i]
    BY <1>1
  <1> HIDE DEF a
  <1>3. \A i \in 1..Len(q) : q[i] \in S BY DEF Lists
  <1>4. ASSUME NEW x \in S \cup {r} PROVE \E i \in 1..Len(a) : a[i] = x
    <2>1. CASE x = r BY <1>2, <2>1
    <2>2. CASE x \in S
      <3>1. PICK i \in 1..Len(q) : q[i] = x BY <2>2 DEF Lists
      <3>2. i \in 1..Len(a) /\ a[i] = x BY <1>2, <3>1
      <3>3. QED BY <3>2
    <2>3. QED BY <2>1, <2>2
  <1>5. ASSUME NEW i \in 1..Len(a), NEW j \in 1..Len(a), a[i] = a[j] PROVE i = j
    <2>1. CASE i = Len(q) + 1 \/ j = Len(q) + 1 BY <1>2, <1>3, <1>5, <2>1
    <2>2. CASE i \in 1..Len(q) /\ j \in 1..Len(q) BY <1>2, <1>5, <2>2 DEF Lists
    <2>3. QED BY <1>2, <2>1, <2>2
  <1>6. QED BY <1>2, <1>4, <1>5 DEF Lists, a

LEMMA ListsTail ==
  ASSUME NEW q, NEW S, Lists(q, S), q # <<>>
  PROVE  Head(q) \in S /\ Lists(Tail(q), S \ {Head(q)})
  <1> DEFINE t == Tail(q)
             z == Head(q)
  <1>1. /\ q \in Seq(S) /\ t \in Seq(S) /\ Len(t) = Len(q) - 1 /\ Len(q) \in Nat /\ Len(q) > 0
        /\ z = q[1] /\ \A i \in 1..Len(t) : t[i] = q[i + 1]
    BY DEF Lists
  <1> HIDE DEF t, z
  <1>2. \A i \in 1..Len(q) : q[i] \in S BY <1>1
  <1>3. z \in S BY <1>1, <1>2
  <1>4. ASSUME NEW i \in 1..Len(t) PROVE t[i] \in S \ {z}
    <2>1. i + 1 \in 1..Len(q) /\ 1 \in 1..Len(q) /\ i + 1 # 1 BY <1>1
    <2>2. q[i + 1] # q[1] BY <2>1 DEF Lists
    <2>3. QED BY <1>1, <1>2, <2>1, <2>2
  <1>5. t \in Seq(S \ {z}) BY <1>1, <1>4
  <1>6. ASSUME NEW x \in S \ {z} PROVE \E i \in 1..Len(t) : t[i] = x
    <2>1. PICK i \in 1..Len(q) : q[i] = x BY DEF Lists
    <2>2. i # 1 BY <1>1, <2>1
    <2>3. i - 1 \in 1..Len(t) /\ t[i - 1] = x BY <1>1, <2>1, <2>2
    <2>4. QED BY <2>3
  <1>7. ASSUME NEW i \in 1..Len(t), NEW j \in 1..Len(t), t[i] = t[j] PROVE i = j
    <2>1. i + 1 \in 1..Len(q) /\ j + 1 \in 1..Len(q) /\ q[i + 1] = q[j + 1] BY <1>1, <1>7
    <2>2. i + 1 = j + 1 BY <2>1 DEF Lists
    <2>3. QED BY <1>1, <2>2
  <1>8. QED BY <1>3, <1>5, <1>6, <1>7 DEF Lists, t, z

\* The reads a queue holds up to a place.
FirstOf(q, i) == {q[j] : j \in 1..i}

LEMMA FrontGrows ==
  ASSUME NEW q, NEW S, Lists(q, S)
  PROVE  /\ FirstOf(q, 0) = {} /\ FirstOf(q, Len(q)) = S
         /\ \A i \in 1..Len(q) : /\ FirstOf(q, i) = FirstOf(q, i - 1) \cup {q[i]}
                                 /\ q[i] \in S /\ q[i] \notin FirstOf(q, i - 1)
  <1>1. FirstOf(q, 0) = {} BY DEF FirstOf
  <1>2. FirstOf(q, Len(q)) = S BY DEF FirstOf, Lists
  <1>3. ASSUME NEW i \in 1..Len(q)
        PROVE  /\ FirstOf(q, i) = FirstOf(q, i - 1) \cup {q[i]}
               /\ q[i] \in S /\ q[i] \notin FirstOf(q, i - 1)
    <2>1. 1..i = (1..(i - 1)) \cup {i} /\ Len(q) \in Nat BY DEF Lists
    <2>2. q[i] \in S BY DEF Lists
    <2>3. FirstOf(q, i) = FirstOf(q, i - 1) \cup {q[i]} BY <2>1 DEF FirstOf
    <2>4. \A j \in 1..(i - 1) : j \in 1..Len(q) /\ j # i BY <2>1
    <2>5. q[i] \notin FirstOf(q, i - 1) BY <2>4 DEF FirstOf, Lists
    <2>6. QED BY <2>2, <2>3, <2>5
  <1>4. QED BY <1>1, <1>2, <1>3

\* Splicing keeps the rest of the queue.
LEMMA WithoutLists ==
  ASSUME NEW q, NEW S, Lists(q, S), NEW R
  PROVE  Lists(Without(q, R), S \ R)
  <1> DEFINE n == Len(q)
             W == CHOOSE w : w = [s \in SUBSET (1..n) |->
                    IF s = {} THEN <<>>
                    ELSE IF q[Max(s)] \in R THEN w[s \ {Max(s)}]
                    ELSE Append(w[s \ {Max(s)}], q[Max(s)])]
             V == Seq(S)
             h == [p \in (1..n) \X V |-> IF q[p[1]] \in R THEN p[2] ELSE Append(p[2], q[p[1]])]
  <1>1. n \in Nat /\ DOMAIN q = 1..n /\ \A i \in 1..n : q[i] \in S BY DEF Lists
  <1>2. Without(q, R) = W[1..n]
    BY <1>1 DEF Without, FoldLeft, MapThenFoldSet
  <1>3. <<>> \in V /\ h \in [(1..n) \X V -> V] BY <1>1
  <1>4. \A i \in 1..n, v \in V : h[<<i, v>>] = IF q[i] \in R THEN v ELSE Append(v, q[i])
    OBVIOUS
  <1> HIDE DEF h, V, n
  <1>5. PICK g : Iterates(g, 1..n, V, <<>>, Largest(n), h) BY <1>1, <1>3, PrefixRecursion
  <1>6. /\ g \in [SUBSET (1..n) -> V] /\ g[{}] = <<>>
        /\ \A s \in SUBSET (1..n) : s # {} =>
              Max(s) \in s /\ g[s] = h[<<Max(s), g[s \ {Max(s)}]>>]
    BY <1>1, <1>5, MaxExists DEF Iterates, Largest
  <1>7. \A s \in SUBSET (1..n) : s # {} =>
           h[<<Max(s), g[s \ {Max(s)}]>>] = IF q[Max(s)] \in R THEN g[s \ {Max(s)}]
                                            ELSE Append(g[s \ {Max(s)}], q[Max(s)])
    BY <1>4, <1>6
  <1>8. g = [s \in SUBSET (1..n) |->
               IF s = {} THEN <<>>
               ELSE IF q[Max(s)] \in R THEN g[s \ {Max(s)}]
               ELSE Append(g[s \ {Max(s)}], q[Max(s)])]
    BY <1>6, <1>7
  <1>9. W = [s \in SUBSET (1..n) |->
               IF s = {} THEN <<>>
               ELSE IF q[Max(s)] \in R THEN W[s \ {Max(s)}]
               ELSE Append(W[s \ {Max(s)}], q[Max(s)])]
    BY <1>8, Zenon
  <1> HIDE DEF W
  <1>10. W[{}] = <<>> BY <1>9
  <1>11. ASSUME NEW i \in 1..n
         PROVE  W[1..i] = IF q[i] \in R THEN W[1..(i - 1)] ELSE Append(W[1..(i - 1)], q[i])
    <2>1. 1..i \in SUBSET (1..n) /\ 1..i # {} /\ Max(1..i) = i /\ (1..i) \ {Max(1..i)} = 1..(i - 1)
      BY <1>1, MaxPrefix
    <2>2. \A s \in SUBSET (1..n) : s # {} =>
             W[s] = IF q[Max(s)] \in R THEN W[s \ {Max(s)}] ELSE Append(W[s \ {Max(s)}], q[Max(s)])
      BY <1>9
    <2>3. QED BY <2>1, <2>2
  <1> DEFINE T == {i \in 0..n : Lists(W[1..i], FirstOf(q, i) \ R)}
  <1>12. 0 \in T
    <2>1. 1..0 = {} /\ FirstOf(q, 0) = {} BY FrontGrows
    <2>2. W[1..0] = <<>> /\ FirstOf(q, 0) \ R = {} BY <1>10, <2>1
    <2>3. Lists(W[1..0], FirstOf(q, 0) \ R) BY <2>2, ListsEmpty
    <2>4. QED BY <1>1, <2>3
  <1>13. ASSUME NEW i \in 1..n, i - 1 \in T PROVE i \in T
    <2>1. FirstOf(q, i) = FirstOf(q, i - 1) \cup {q[i]} /\ q[i] \notin FirstOf(q, i - 1)
      BY FrontGrows DEF n
    <2>2. Lists(W[1..(i - 1)], FirstOf(q, i - 1) \ R) BY <1>13
    <2>3. CASE q[i] \in R
      <3>1. FirstOf(q, i) \ R = FirstOf(q, i - 1) \ R BY <2>1, <2>3
      <3>2. W[1..i] = W[1..(i - 1)] BY <1>11, <2>3
      <3>3. Lists(W[1..i], FirstOf(q, i) \ R) BY <2>2, <3>1, <3>2
      <3>4. QED BY <1>1, <3>3
    <2>4. CASE q[i] \notin R
      <3>1. FirstOf(q, i) \ R = (FirstOf(q, i - 1) \ R) \cup {q[i]} BY <2>1, <2>4
      <3>2. Lists(Append(W[1..(i - 1)], q[i]), FirstOf(q, i) \ R)
        BY <2>1, <2>2, <3>1, ListsAppend
      <3>3. QED BY <1>11, <2>4, <3>2
    <2>5. QED BY <2>3, <2>4
  <1>14. T \in SUBSET (0..n) OBVIOUS
  <1> HIDE DEF T
  <1>15. T = 0..n BY <1>1, <1>12, <1>13, <1>14, InductUpto
  <1>16. Lists(W[1..n], FirstOf(q, n) \ R)
    <2>1. n \in T BY <1>1, <1>15
    <2>2. QED BY <2>1 DEF T
  <1>17. QED BY <1>2, <1>16, FrontGrows DEF n

\* What SourceStagingLimiter.#drain has done of the waiters in P.
Drained(d, bytes, P) ==
    /\ d \in [used : Nat, granted : SUBSET P, queue : Seq(P)]
    /\ IsFiniteSet(d.granted) /\ Lists(d.queue, P \ d.granted)
    /\ d.used = bytes + Total(Length, d.granted) /\ d.used <= Capacity
    /\ \A r \in P \ d.granted : d.used + Length[r] > Capacity

LEMMA DrainedGrants ==
  ASSUME NEW d, NEW bytes \in Nat, NEW P \in SUBSET Reads, Drained(d, bytes, P),
         NEW r \in Reads, r \notin P, d.used + Length[r] <= Capacity
  PROVE  Drained([d EXCEPT !.used = @ + Length[r], !.granted = @ \cup {r}], bytes, P \cup {r})
  <1> DEFINE u == d.used
             g == d.granted
             w == d.queue
             e == [d EXCEPT !.used = @ + Length[r], !.granted = @ \cup {r}]
  <1>1. /\ d \in [used : Nat, granted : SUBSET P, queue : Seq(P)]
        /\ u \in Nat /\ g \subseteq P /\ w \in Seq(P)
        /\ IsFiniteSet(g) /\ Lists(w, P \ g)
        /\ u = bytes + Total(Length, g) /\ \A x \in P \ g : u + Length[x] > Capacity
    BY DEF Drained
  <1>2. e.used = u + Length[r] /\ e.granted = g \cup {r} /\ e.queue = w
        /\ DOMAIN e = {"used", "granted", "queue"}
        /\ e = [x \in DOMAIN e |-> e[x]]
    BY <1>1
  <1> HIDE DEF e, u, g, w
  <1>3. Length[r] \in Nat /\ \A x \in P : Length[x] \in Nat BY BrokerAssumption
  <1>4. NatOn(Length, g) BY <1>1, <1>3 DEF NatOn
  <1>5. Total(Length, g \cup {r}) = Length[r] + Total(Length, g) /\ Total(Length, g) \in Nat
    BY <1>1, <1>3, <1>4, TotalAdd, TotalType
  <1>6. (P \cup {r}) \ (g \cup {r}) = P \ g BY <1>1
  <1>7. w \in Seq(P \cup {r}) BY <1>1, SeqMonotonic
  <1>8. e \in [used : Nat, granted : SUBSET (P \cup {r}), queue : Seq(P \cup {r})]
    BY <1>1, <1>2, <1>3, <1>7
  <1>9. IsFiniteSet(g \cup {r}) BY <1>1, FS_AddElement
  <1>10. u + Length[r] = bytes + Total(Length, g \cup {r}) BY <1>1, <1>3, <1>5
  <1>11. u + Length[r] <= Capacity BY DEF u
  <1>12. \A x \in P \ g : u + Length[r] + Length[x] > Capacity
    BY <1>1, <1>3, BrokerAssumption
  <1>13. Lists(w, (P \cup {r}) \ (g \cup {r})) BY <1>1, <1>6
  <1>14. \A x \in (P \cup {r}) \ (g \cup {r}) : u + Length[r] + Length[x] > Capacity
    BY <1>6, <1>12
  <1>15. QED BY <1>2, <1>8, <1>9, <1>10, <1>11, <1>13, <1>14 DEF Drained, e

LEMMA DrainedKeeps ==
  ASSUME NEW d, NEW bytes \in Nat, NEW P \in SUBSET Reads, Drained(d, bytes, P),
         NEW r \in Reads, r \notin P, ~(d.used + Length[r] <= Capacity)
  PROVE  Drained([d EXCEPT !.queue = Append(@, r)], bytes, P \cup {r})
  <1> DEFINE u == d.used
             g == d.granted
             w == d.queue
             e == [d EXCEPT !.queue = Append(@, r)]
  <1>1. /\ d \in [used : Nat, granted : SUBSET P, queue : Seq(P)]
        /\ u \in Nat /\ g \subseteq P /\ w \in Seq(P)
        /\ IsFiniteSet(g) /\ Lists(w, P \ g) /\ u <= Capacity
        /\ u = bytes + Total(Length, g) /\ \A x \in P \ g : u + Length[x] > Capacity
    BY DEF Drained
  <1>2. e.used = u /\ e.granted = g /\ e.queue = Append(w, r)
        /\ DOMAIN e = {"used", "granted", "queue"}
        /\ e = [x \in DOMAIN e |-> e[x]]
    BY <1>1
  <1>3. ~(u + Length[r] <= Capacity) BY DEF u
  <1> HIDE DEF e, u, g, w
  <1>4. (P \cup {r}) \ g = (P \ g) \cup {r} /\ r \notin P \ g BY <1>1
  <1>5. w \in Seq(P \cup {r}) BY <1>1, SeqMonotonic
  <1>s. Append(w, r) \in Seq(P \cup {r}) BY <1>5
  <1>6. e \in [used : Nat, granted : SUBSET (P \cup {r}), queue : Seq(P \cup {r})]
    <2>1. u \in Nat /\ g \in SUBSET (P \cup {r}) BY <1>1
    <2>2. QED BY <1>2, <1>s, <2>1
  <1>7. Lists(Append(w, r), (P \ g) \cup {r}) BY <1>1, <1>4, ListsAppend
  <1>8. Lists(Append(w, r), (P \cup {r}) \ g) BY <1>4, <1>7
  <1>9. \A x \in (P \cup {r}) \ g : u + Length[x] > Capacity
    BY <1>1, <1>3, BrokerAssumption
  <1>10. QED BY <1>1, <1>2, <1>6, <1>8, <1>9 DEF Drained, e

LEMMA DrainLists ==
  ASSUME NEW q, NEW S \in SUBSET Reads, Lists(q, S), NEW bytes \in Nat, bytes <= Capacity
  PROVE  Drained(Drain(bytes, q), bytes, S)
  <1> DEFINE n == Len(q)
             base == [used |-> bytes, granted |-> {}, queue |-> <<>>]
             Fits(acc, r) == acc.used + Length[r] <= Capacity
             Grant(acc, r) == [acc EXCEPT !.used = @ + Length[r], !.granted = @ \cup {r}]
             Keep(acc, r) == [acc EXCEPT !.queue = Append(@, r)]
             W == CHOOSE w : w = [s \in SUBSET (1..n) |->
                    IF s = {} THEN base
                    ELSE IF Fits(w[s \ {Max(s)}], q[Max(s)]) THEN Grant(w[s \ {Max(s)}], q[Max(s)])
                    ELSE Keep(w[s \ {Max(s)}], q[Max(s)])]
             V == [used : Nat, granted : SUBSET S, queue : Seq(S)]
             h == [p \in (1..n) \X V |->
                     IF Fits(p[2], q[p[1]]) THEN Grant(p[2], q[p[1]]) ELSE Keep(p[2], q[p[1]])]
  <1>1. n \in Nat /\ DOMAIN q = 1..n /\ \A i \in 1..n : q[i] \in S /\ q[i] \in Reads
    BY DEF Lists
  <1>2. Drain(bytes, q) = W[1..n]
    BY <1>1 DEF Drain, FoldLeft, MapThenFoldSet
  <1>3. base \in V /\ base.used = bytes /\ base.granted = {} /\ base.queue = <<>> OBVIOUS
  <1>4. ASSUME NEW v \in V, NEW r \in S PROVE Grant(v, r) \in V /\ Keep(v, r) \in V
    <2>1. v.used \in Nat /\ v.granted \in SUBSET S /\ v.queue \in Seq(S) /\ Length[r] \in Nat
      BY BrokerAssumption
    <2>2. v.used + Length[r] \in Nat /\ v.granted \cup {r} \in SUBSET S /\ Append(v.queue, r) \in Seq(S)
      BY <2>1
    <2>3. QED BY <2>2
  <1>5. h \in [(1..n) \X V -> V] BY <1>1, <1>4
  <1>6. \A i \in 1..n, v \in V :
          h[<<i, v>>] = IF Fits(v, q[i]) THEN Grant(v, q[i]) ELSE Keep(v, q[i])
    OBVIOUS
  <1> HIDE DEF h, V, n, base
  <1>7. PICK g : Iterates(g, 1..n, V, base, Largest(n), h) BY <1>1, <1>3, <1>5, PrefixRecursion
  <1>8. /\ g \in [SUBSET (1..n) -> V] /\ g[{}] = base
        /\ \A s \in SUBSET (1..n) : s # {} =>
              Max(s) \in s /\ g[s] = h[<<Max(s), g[s \ {Max(s)}]>>]
    BY <1>1, <1>7, MaxExists DEF Iterates, Largest
  <1> HIDE DEF Fits, Grant, Keep
  <1>9. \A s \in SUBSET (1..n) : s # {} =>
           h[<<Max(s), g[s \ {Max(s)}]>>] =
              IF Fits(g[s \ {Max(s)}], q[Max(s)]) THEN Grant(g[s \ {Max(s)}], q[Max(s)])
              ELSE Keep(g[s \ {Max(s)}], q[Max(s)])
    BY <1>6, <1>8
  <1>10. g = [s \in SUBSET (1..n) |->
                IF s = {} THEN base
                ELSE IF Fits(g[s \ {Max(s)}], q[Max(s)]) THEN Grant(g[s \ {Max(s)}], q[Max(s)])
                ELSE Keep(g[s \ {Max(s)}], q[Max(s)])]
    BY <1>8, <1>9
  <1>11. W = [s \in SUBSET (1..n) |->
                IF s = {} THEN base
                ELSE IF Fits(W[s \ {Max(s)}], q[Max(s)]) THEN Grant(W[s \ {Max(s)}], q[Max(s)])
                ELSE Keep(W[s \ {Max(s)}], q[Max(s)])]
    BY <1>10, Zenon
  <1> HIDE DEF W
  <1>12. W[{}] = base BY <1>11
  <1>13. ASSUME NEW i \in 1..n
         PROVE  W[1..i] = IF Fits(W[1..(i - 1)], q[i]) THEN Grant(W[1..(i - 1)], q[i])
                          ELSE Keep(W[1..(i - 1)], q[i])
    <2>1. 1..i \in SUBSET (1..n) /\ 1..i # {} /\ Max(1..i) = i /\ (1..i) \ {Max(1..i)} = 1..(i - 1)
      BY <1>1, MaxPrefix
    <2>2. \A s \in SUBSET (1..n) : s # {} =>
             W[s] = IF Fits(W[s \ {Max(s)}], q[Max(s)]) THEN Grant(W[s \ {Max(s)}], q[Max(s)])
                    ELSE Keep(W[s \ {Max(s)}], q[Max(s)])
      BY <1>11
    <2>3. QED BY <2>1, <2>2
  <1> DEFINE T == {i \in 0..n : Drained(W[1..i], bytes, FirstOf(q, i))}
  <1>14. 0 \in T
    <2>1. 1..0 = {} /\ FirstOf(q, 0) = {} BY FrontGrows
    <2>2. W[1..0] = base BY <1>12, <2>1
    <2>3. base \in [used : Nat, granted : SUBSET {}, queue : Seq({})] BY DEF base
    <2>4. Drained(base, bytes, {})
      BY <1>3, <2>3, ListsEmpty, FS_EmptySet, TotalEmpty, BrokerAssumption DEF Drained
    <2>5. QED BY <1>1, <2>1, <2>2, <2>4
  <1>15. ASSUME NEW i \in 1..n, i - 1 \in T PROVE i \in T
    <2>1. /\ FirstOf(q, i) = FirstOf(q, i - 1) \cup {q[i]} /\ q[i] \notin FirstOf(q, i - 1)
          /\ q[i] \in Reads
      BY <1>1, FrontGrows DEF n
    <2>2. Drained(W[1..(i - 1)], bytes, FirstOf(q, i - 1)) BY <1>15
    <2>3. FirstOf(q, i - 1) \in SUBSET Reads BY <1>1 DEF FirstOf
    <2>4. CASE Fits(W[1..(i - 1)], q[i])
      <3>1. Drained(Grant(W[1..(i - 1)], q[i]), bytes, FirstOf(q, i - 1) \cup {q[i]})
        BY <2>1, <2>2, <2>3, <2>4, DrainedGrants DEF Fits, Grant
      <3>2. W[1..i] = Grant(W[1..(i - 1)], q[i]) BY <1>13, <2>4
      <3>3. Drained(W[1..i], bytes, FirstOf(q, i)) BY <2>1, <3>1, <3>2
      <3>4. QED BY <1>1, <3>3
    <2>5. CASE ~Fits(W[1..(i - 1)], q[i])
      <3>1. Drained(Keep(W[1..(i - 1)], q[i]), bytes, FirstOf(q, i - 1) \cup {q[i]})
        BY <2>1, <2>2, <2>3, <2>5, DrainedKeeps DEF Fits, Keep
      <3>2. W[1..i] = Keep(W[1..(i - 1)], q[i]) BY <1>13, <2>5
      <3>3. Drained(W[1..i], bytes, FirstOf(q, i)) BY <2>1, <3>1, <3>2
      <3>4. QED BY <1>1, <3>3
    <2>6. QED BY <2>4, <2>5
  <1>16. T \in SUBSET (0..n) OBVIOUS
  <1> HIDE DEF T
  <1>17. T = 0..n BY <1>1, <1>14, <1>15, <1>16, InductUpto
  <1>18. Drained(W[1..n], bytes, FirstOf(q, n))
    <2>1. n \in T BY <1>1, <1>17
    <2>2. QED BY <2>1 DEF T
  <1>19. QED BY <1>2, <1>18, FrontGrows DEF n

-----------------------------------------------------------------------------
LEMMA Tied == IInv => BrokerInv /\ ReadsAdvance
  <1> SUFFICES ASSUME IInv PROVE BrokerInv /\ ReadsAdvance OBVIOUS
  <1> USE DEF IInv
  <1>1. TypeOK BY DEF Typed, Holdings, Bytes, Counted, TypeOK
  <1>2. BytesOf(staged) = Total(Length, staged) BY TotalFold, Zenon DEF BytesOf
  <1>3. LimitersExact BY <1>2 DEF LimitersExact, Bytes, Counted, CallsOf
  <1>4. \A i \in 1..Len(stagingQueue) : stagingQueue[i] \in Staging
    BY DEF Queues, Lists
  <1>5. NothingHeld BY <1>4 DEF NothingHeld, Holdings, Staging
  <1>6. \A s \in Sources : concurrencyQueue[s] # <<>> => Waiting(s) # {}
    BY ListsEmpty DEF Queues
  <1>7. WaitsForCapacity BY <1>4, <1>6 DEF WaitsForCapacity, Bytes, Counted
  <1>8. ASSUME NEW r \in Outstanding, readerOpen[SourceOf[r]]
        PROVE  \/ Contains(toMain, Msg("read", r))
               \/ Contains(toWorker, Msg("bytes", r)) \/ Contains(toWorker, Msg("failure", r))
               \/ phase[r] \in {"admitted", "staged", "calling", "providing"}
               \/ phase[r] = "concurrency" /\ Contains(concurrencyQueue[SourceOf[r]], r)
               \/ phase[r] = "staging" /\ Contains(stagingQueue, r)
    <2>1. r \in Reads /\ SourceOf[r] \in Sources BY BrokerAssumption DEF Outstanding
    <2>2. CASE phase[r] = "concurrency"
      BY <2>1, <2>2 DEF Queues, Lists, Waiting, Contains
    <2>3. CASE phase[r] = "staging"
      BY <2>1, <2>3 DEF Queues, Lists, Staging, Contains
    <2>4. QED BY <1>8, <2>2, <2>3 DEF Answering, Contains
  <1>9. AnswerUnderWay BY <1>8 DEF AnswerUnderWay
  <1>10. QED BY <1>1, <1>3, <1>5, <1>7, <1>9 DEF BrokerInv, Ends, ReadsAdvance

LEMMA InitInv == Init => IInv
  <1> SUFFICES ASSUME Init PROVE IInv OBVIOUS
  <1>1. Outstanding = {} /\ Staging = {} /\ \A s \in Sources : Waiting(s) = {} /\ CallsOf(s) = {}
    BY DEF Init, Outstanding, Staging, Waiting, CallsOf
  <1>2. Typed /\ Channels
    BY <1>1, BrokerAssumption, FS_EmptySet DEF Init, Typed, Channels, Phase, Answer
  <1>3. Posted /\ Holdings /\ Ends /\ Answering
    BY <1>1, BrokerAssumption DEF Init, Posted, Holdings, Ends, ClosedOnce, Answering
  <1>4. Queues BY <1>1, ListsEmpty DEF Init, Queues
  <1>5. Bytes BY <1>1, TotalEmpty, BrokerAssumption DEF Init, Bytes
  <1>6. Counted
    <2>1. \A s \in Sources : Cardinality(CallsOf(s)) = 0 BY <1>1, FS_EmptySet
    <2>2. \A s \in Sources : maxConcurrency[s] \in 1..4 BY <1>2 DEF Typed
    <2>3. QED BY <1>1, <2>1, <2>2 DEF Init, Counted
  <1>7. QED BY <1>2, <1>3, <1>4, <1>5, <1>6 DEF IInv

(* The Worker: the main thread's state does not change. *)
LEMMA MainUntouched ==
  ASSUME IInv, UNCHANGED <<maxConcurrency, main>>
  PROVE  Holdings' /\ Queues' /\ Bytes' /\ Counted'
  <1>1. Staging' = Staging /\ \A s \in Sources : Waiting(s)' = Waiting(s) /\ CallsOf(s)' = CallsOf(s)
    BY DEF main, Staging, Waiting, CallsOf
  <1>2. Holdings' BY DEF IInv, Holdings, main
  <1>3. Queues' BY <1>1 DEF IInv, Queues, main
  <1>4. Bytes' BY <1>1 DEF IInv, Bytes, main
  <1>5. Counted' BY <1>1 DEF IInv, Counted, main
  <1>6. QED BY <1>2, <1>3, <1>4, <1>5

\* A settled read is never outstanding again.
Settles(settled) ==
    /\ settled \in [Reads -> Answer]
    /\ \A r \in Reads : /\ outcome[r] = "none" <=> settled[r] = "none"
                        /\ outcome[r] # "pending" => settled[r] = outcome[r]

\* Messages posted behind the others which are not new reads.
Posts(extra) ==
    /\ extra \in Seq(MainMessages) /\ toMain' = toMain \o extra
    /\ \A i \in 1..Len(extra) :
          /\ extra[i].type # "read"
          /\ extra[i].type = "cancel" => outcome'[extra[i].of] \notin {"none", "pending"}

LEMMA PostsBehind ==
  ASSUME IInv, UNCHANGED phase, Settles(outcome'), NEW extra, Posts(extra)
  PROVE  toMain' \in Seq(MainMessages) /\ Posted'
  <1> USE DEF IInv, Settles, Posts
  <1>1. /\ toMain' \in Seq(MainMessages) /\ Len(toMain') = Len(toMain) + Len(extra)
        /\ Len(toMain) \in Nat /\ Len(extra) \in Nat
        /\ \A i \in 1..Len(toMain) : toMain'[i] = toMain[i] /\ toMain[i] \in MainMessages
        /\ \A i \in 1..Len(toMain') : i > Len(toMain) =>
              i - Len(toMain) \in 1..Len(extra) /\ toMain'[i] = extra[i - Len(toMain)]
    BY DEF Channels
  <1>2. ASSUME NEW i \in 1..Len(toMain')
        PROVE  /\ toMain'[i].type = "read" =>
                     /\ i \in 1..Len(toMain)
                     /\ phase[toMain[i].of] = "none" /\ outcome'[toMain[i].of] # "none"
               /\ toMain'[i].type = "cancel" => outcome'[toMain'[i].of] \notin {"none", "pending"}
    <2>1. CASE i \in 1..Len(toMain)
      <3>1. toMain[i].type \in {"read", "cancel"} => toMain[i].of \in Reads
        BY <1>1, <2>1 DEF MainMessages
      <3>2. QED BY <1>1, <2>1, <3>1 DEF Posted, Settles
    <2>2. CASE i > Len(toMain) BY <1>1, <2>2
    <2>3. QED BY <1>1, <2>1, <2>2
  <1>3. ASSUME NEW i \in 1..Len(toMain'), NEW j \in 1..Len(toMain'),
               toMain'[i].type = "read", toMain'[i] = toMain'[j]
        PROVE  i = j
    <2>1. i \in 1..Len(toMain) /\ j \in 1..Len(toMain) BY <1>2, <1>3
    <2>2. QED BY <1>1, <1>3, <2>1 DEF Posted
  <1>4. \A r \in Reads : outcome'[r] = "none" => phase'[r] = "none" BY DEF Posted, Settles
  <1>5. QED BY <1>1, <1>2, <1>3, <1>4 DEF Posted

LEMMA WorkerReadStep ==
  ASSUME IInv, NEW r \in Reads, WorkerRead(r), UNCHANGED maxConcurrency
  PROVE  IInv'
  <1> USE DEF IInv
  <1>1. /\ outcome[r] = "none" /\ outcome' = [outcome EXCEPT ![r] = "pending"]
        /\ toMain' = Append(toMain, Msg("read", r)) /\ UNCHANGED <<accessorOpen, toWorker, main>>
    BY DEF WorkerRead
  <1>2. Holdings' /\ Queues' /\ Bytes' /\ Counted' BY <1>1, MainUntouched
  <1>3. outcome' \in [Reads -> Answer] /\ Outstanding' = Outstanding \cup {r}
    BY <1>1 DEF Typed, Answer, Outstanding
  <1>4. Typed' BY <1>1, <1>3, FS_AddElement DEF Typed, main
  <1>5. /\ toMain' \in Seq(MainMessages) /\ Len(toMain') = Len(toMain) + 1 /\ Len(toMain) \in Nat
        /\ toMain'[Len(toMain) + 1] = Msg("read", r)
        /\ \A i \in 1..Len(toMain) : toMain'[i] = toMain[i] /\ toMain[i] \in MainMessages
    <2>1. Msg("read", r) \in MainMessages BY DEF Msg, MainMessages
    <2>2. QED BY <1>1, <2>1 DEF Channels
  <1>6. Channels' BY <1>1, <1>5 DEF Channels
  <1>7. phase' = phase /\ phase[r] = "none" BY <1>1 DEF Posted, main
  <1>8. \A i \in 1..Len(toMain) : toMain[i].type = "read" => toMain[i].of # r
    BY <1>1 DEF Posted
  <1>9. Msg("read", r).type = "read" /\ Msg("read", r).of = r BY DEF Msg
  <1>10. \A i \in 1..Len(toMain) : toMain[i].type \in {"read", "cancel"} => toMain[i].of \in Reads
    BY <1>5 DEF MainMessages
  <1>11. ASSUME NEW i \in 1..Len(toMain')
         PROVE  /\ toMain'[i].type = "read" => phase[toMain'[i].of] = "none" /\ outcome'[toMain'[i].of] # "none"
                /\ toMain'[i].type = "cancel" => outcome'[toMain'[i].of] \notin {"none", "pending"}
    <2>1. CASE i = Len(toMain) + 1 BY <1>1, <1>3, <1>5, <1>7, <1>9, <2>1 DEF Typed
    <2>2. CASE i \in 1..Len(toMain)
      BY <1>1, <1>5, <1>8, <1>10, <2>2 DEF Posted, Typed
    <2>3. QED BY <1>5, <2>1, <2>2
  <1>12. ASSUME NEW i \in 1..Len(toMain'), NEW j \in 1..Len(toMain'),
                toMain'[i].type = "read", toMain'[i] = toMain'[j]
         PROVE  i = j
    <2>1. CASE i = Len(toMain) + 1 \/ j = Len(toMain) + 1
      BY <1>5, <1>8, <1>9, <1>12, <2>1
    <2>2. CASE i \in 1..Len(toMain) /\ j \in 1..Len(toMain)
      BY <1>5, <1>12, <2>2 DEF Posted
    <2>3. QED BY <1>5, <2>1, <2>2
  <1>13. Posted' BY <1>1, <1>7, <1>11, <1>12 DEF Posted, Typed
  <1>14. aborted' = aborted /\ readerOpen' = readerOpen /\ engineOpen' = engineOpen /\ closeCalls' = closeCalls
    BY <1>1 DEF main
  <1>15. Ends' BY <1>1, <1>7, <1>14 DEF Ends, ClosedOnce, Typed
  <1>16. Answering'
    <2> SUFFICES ASSUME NEW x \in Outstanding', readerOpen[SourceOf[x]]
                 PROVE \/ phase[x] = "none" /\ \E i \in 1..Len(toMain') : toMain'[i] = Msg("read", x)
                       \/ phase[x] \in {"concurrency", "admitted", "staging", "staged", "calling", "providing"}
                       \/ \E i \in 1..Len(toWorker) : toWorker[i] \in {Msg("bytes", x), Msg("failure", x)}
      BY <1>1, <1>7, <1>14 DEF Answering
    <2>1. CASE x = r BY <1>5, <1>7, <2>1
    <2>2. CASE x # r
      <3>1. x \in Outstanding BY <1>3, <2>2
      <3>2. \A i \in 1..Len(toMain) : i \in 1..Len(toMain') BY <1>5
      <3>3. QED BY <1>5, <3>1, <3>2 DEF Answering
    <2>3. QED BY <2>1, <2>2
  <1>17. QED BY <1>2, <1>4, <1>6, <1>13, <1>15, <1>16

\* The Worker settles reads and tells the main thread what it gave up.
LEMMA WorkerSettles ==
  ASSUME IInv, UNCHANGED <<maxConcurrency, main>>,
         accessorOpen' \in [Sources -> BOOLEAN], Settles(outcome'), NEW extra, Posts(extra),
         toWorker' \in Seq(WorkerMessages),
         \A r \in Outstanding' : \A i \in 1..Len(toWorker) :
            toWorker[i] \in {Msg("bytes", r), Msg("failure", r)} =>
               \E j \in 1..Len(toWorker') : toWorker'[j] = toWorker[i]
  PROVE  IInv'
  <1> USE DEF IInv
  <1>1. Holdings' /\ Queues' /\ Bytes' /\ Counted' BY MainUntouched
  <1>2. phase' = phase BY DEF main
  <1>3. Channels' /\ Posted' BY <1>2, PostsBehind DEF Channels
  <1>4. Outstanding' \subseteq Outstanding BY DEF Outstanding, Settles
  <1>5. Typed' BY <1>4, FS_Subset DEF Typed, main, Settles
  <1>6. Ends' BY DEF Ends, ClosedOnce, main, Settles, Typed
  <1>7. \A i \in 1..Len(toMain) : i \in 1..Len(toMain') /\ toMain'[i] = toMain[i]
    BY DEF Channels, Posts
  <1>8. readerOpen' = readerOpen BY DEF main
  <1>9. ASSUME NEW r \in Outstanding', readerOpen[SourceOf[r]]
        PROVE  \/ phase[r] = "none" /\ \E i \in 1..Len(toMain') : toMain'[i] = Msg("read", r)
               \/ phase[r] \in {"concurrency", "admitted", "staging", "staged", "calling", "providing"}
               \/ \E i \in 1..Len(toWorker') : toWorker'[i] \in {Msg("bytes", r), Msg("failure", r)}
    <2>1. \/ phase[r] = "none" /\ \E i \in 1..Len(toMain) : toMain[i] = Msg("read", r)
          \/ phase[r] \in {"concurrency", "admitted", "staging", "staged", "calling", "providing"}
          \/ \E i \in 1..Len(toWorker) : toWorker[i] \in {Msg("bytes", r), Msg("failure", r)}
      BY <1>4, <1>9 DEF Answering
    <2>2. CASE \E i \in 1..Len(toMain) : toMain[i] = Msg("read", r) /\ phase[r] = "none"
      BY <1>7, <2>2
    <2>3. CASE \E i \in 1..Len(toWorker) : toWorker[i] \in {Msg("bytes", r), Msg("failure", r)}
      BY <2>3
    <2>4. QED BY <2>1, <2>2, <2>3
  <1>10. Answering' BY <1>2, <1>8, <1>9 DEF Answering
  <1>11. QED BY <1>1, <1>3, <1>5, <1>6, <1>10

LEMMA WorkerCancelStep ==
  ASSUME IInv, NEW r \in Reads, WorkerCancel(r), UNCHANGED maxConcurrency
  PROVE  IInv'
  <1> USE DEF IInv
  <1>1. /\ outcome[r] = "pending" /\ outcome' = [outcome EXCEPT ![r] = "cancelled"]
        /\ toMain' = Append(toMain, Msg("cancel", r)) /\ UNCHANGED <<accessorOpen, toWorker, main>>
    BY DEF WorkerCancel, Outstanding
  <1>2. Msg("cancel", r) \in MainMessages /\ Msg("cancel", r).type = "cancel" /\ Msg("cancel", r).of = r
    BY DEF Msg, MainMessages
  <1>3. Settles(outcome') /\ outcome'[r] = "cancelled"
    BY <1>1 DEF Typed, Answer, Settles
  <1> DEFINE extra == <<Msg("cancel", r)>>
  <1>4. extra \in Seq(MainMessages) /\ Len(extra) = 1 /\ extra[1] = Msg("cancel", r) BY <1>2
  <1>5. toMain' = toMain \o extra BY <1>1, <1>2 DEF Channels
  <1> HIDE DEF extra
  <1>6. Posts(extra) BY <1>2, <1>3, <1>4, <1>5 DEF Posts
  <1>7. QED BY <1>1, <1>3, <1>6, WorkerSettles DEF Typed, Channels

\* broker.close: what CloseAccessor posts, and how it settles the reads.
LEMMA CloseAccessorFacts ==
  ASSUME IInv, NEW s \in Sources, CloseAccessor(s)
  PROVE  /\ accessorOpen' \in [Sources -> BOOLEAN] /\ Settles(outcome')
         /\ \E extra : Posts(extra)
  <1> USE DEF IInv
  <1> DEFINE orphans == {r \in Outstanding : SourceOf[r] = s}
             cancels == SetToSeq(orphans)
             posts == [i \in 1..Len(cancels) |-> Msg("cancel", cancels[i])]
             last == <<Msg("close", s)>>
  <1>1. /\ accessorOpen' = [accessorOpen EXCEPT ![s] = FALSE]
        /\ outcome' = [r \in Reads |-> IF r \in orphans THEN "closed" ELSE outcome[r]]
        /\ toMain' = (toMain \o posts) \o last
    BY DEF CloseAccessor
  <1>2. accessorOpen' \in [Sources -> BOOLEAN] /\ Settles(outcome')
    BY <1>1 DEF Typed, Answer, Settles, Outstanding
  <1>3. orphans \subseteq Outstanding /\ orphans \subseteq Reads /\ IsFiniteSet(orphans)
    <2>1. orphans \subseteq Outstanding /\ orphans \subseteq Reads BY DEF Outstanding
    <2>2. QED BY <2>1, FS_Subset DEF Typed
  <1>4. \A r \in orphans : outcome'[r] = "closed" BY <1>1, <1>3
  <1> HIDE DEF orphans
  <1>5. cancels \in Seq(Reads) /\ \A i \in 1..Len(cancels) : cancels[i] \in orphans
    BY <1>3, EnumerationIn
  <1> HIDE DEF cancels
  <1>6. \A r \in Reads : Msg("cancel", r) \in MainMessages /\ Msg("cancel", r).type = "cancel"
                          /\ Msg("cancel", r).of = r
    BY DEF Msg, MainMessages
  <1>7. Msg("close", s) \in MainMessages /\ Msg("close", s).type = "close" BY DEF Msg, MainMessages
  <1>8. posts \in Seq(MainMessages) /\ Len(posts) = Len(cancels)
        /\ \A i \in 1..Len(posts) : posts[i] = Msg("cancel", cancels[i])
    <2>1. Len(cancels) \in Nat /\ \A i \in 1..Len(cancels) : Msg("cancel", cancels[i]) \in MainMessages
      BY <1>5, <1>6
    <2>2. QED BY <2>1
  <1>9. last \in Seq(MainMessages) /\ Len(last) = 1 /\ last[1] = Msg("close", s) BY <1>7
  <1> HIDE DEF posts, last
  <1> DEFINE extra == posts \o last
  <1>10. extra \in Seq(MainMessages) /\ toMain' = toMain \o extra
    BY <1>1, <1>8, <1>9 DEF Channels
  <1>11. ASSUME NEW i \in 1..Len(extra)
         PROVE  extra[i].type # "read" /\ (extra[i].type = "cancel" => outcome'[extra[i].of] \notin {"none", "pending"})
    <2>1. CASE i \in 1..Len(posts)
      <3>1. extra[i] = Msg("cancel", cancels[i]) /\ cancels[i] \in orphans /\ cancels[i] \in Reads
        BY <1>5, <1>8, <1>9, <2>1
      <3>2. QED BY <1>4, <1>6, <3>1
    <2>2. CASE i = Len(posts) + 1
      BY <1>7, <1>8, <1>9, <2>2
    <2>3. Len(posts) \in Nat /\ Len(posts \o last) = Len(posts) + Len(last)
      <3>1. posts \in Seq(MainMessages) /\ last \in Seq(MainMessages) BY <1>8, <1>9
      <3>2. QED BY <3>1, ConcatProperties
    <2>4. i = Len(posts) + 1 \/ i \in 1..Len(posts) BY <1>9, <2>3
    <2>5. QED BY <2>1, <2>2, <2>4
  <1> HIDE DEF extra
  <1>12. Posts(extra) BY <1>10, <1>11 DEF Posts
  <1>13. QED BY <1>2, <1>12

LEMMA WorkerCloseStep ==
  ASSUME IInv, NEW s \in Sources, WorkerClose(s), UNCHANGED maxConcurrency
  PROVE  IInv'
  <1>1. CloseAccessor(s) /\ UNCHANGED <<toWorker, main>> BY DEF WorkerClose
  <1>2. toWorker \in Seq(WorkerMessages) BY DEF IInv, Channels
  <1>3. /\ accessorOpen' \in [Sources -> BOOLEAN] /\ Settles(outcome')
        /\ \E extra : Posts(extra)
    BY <1>1, CloseAccessorFacts
  <1>4. toWorker' = toWorker /\ UNCHANGED <<maxConcurrency, main>> BY <1>1
  <1>5. QED BY <1>2, <1>3, <1>4, WorkerSettles

LEMMA WorkerReceiveStep ==
  ASSUME IInv, WorkerReceive, UNCHANGED maxConcurrency
  PROVE  IInv'
  <1> USE DEF IInv
  <1> DEFINE m == Head(toWorker)
  <1>1. toWorker # <<>> /\ toWorker' = Tail(toWorker) /\ UNCHANGED main BY DEF WorkerReceive
  <1>2. /\ m \in WorkerMessages /\ m = toWorker[1] /\ toWorker' \in Seq(WorkerMessages)
        /\ Len(toWorker') = Len(toWorker) - 1 /\ Len(toWorker) \in Nat /\ Len(toWorker) > 0
        /\ \A i \in 1..Len(toWorker') : toWorker'[i] = toWorker[i + 1]
    BY <1>1 DEF Channels
  <1>3. m.of \in Reads /\ m.type \in {"bytes", "failure"} BY <1>2 DEF WorkerMessages
  <1>a. /\ outcome' = IF m.of \notin Outstanding THEN outcome
                      ELSE [outcome EXCEPT ![m.of] = IF m.type = "bytes" THEN "bytes" ELSE "failed"]
        /\ UNCHANGED <<accessorOpen, toMain>>
    BY DEF WorkerReceive
  <1> HIDE DEF m
  <1>5. \A x, t : Msg(t, x).of = x BY DEF Msg
  <1>6. ASSUME m.of \notin Outstanding', NEW r \in Outstanding', NEW i \in 1..Len(toWorker),
               toWorker[i] \in {Msg("bytes", r), Msg("failure", r)}
        PROVE  \E j \in 1..Len(toWorker') : toWorker'[j] = toWorker[i]
    <2>1. toWorker[i].of = r BY <1>5, <1>6
    <2>2. i # 1 BY <1>2, <1>6, <2>1
    <2>3. i - 1 \in 1..Len(toWorker') /\ toWorker'[i - 1] = toWorker[i] BY <1>2, <2>2
    <2>4. QED BY <2>3
  <1>b. \E extra : toMain' = toMain => Posts(extra)
    <2> DEFINE extra == <<>>
    <2>1. toMain \in Seq(MainMessages) BY DEF Channels
    <2>2. extra \in Seq(MainMessages) /\ toMain = toMain \o extra /\ Len(extra) = 0 BY <2>1
    <2> HIDE DEF extra
    <2>3. toMain' = toMain => Posts(extra) BY <2>2 DEF Posts
    <2>4. QED BY <2>3
  <1>7. Settles(outcome') /\ m.of \notin Outstanding'
    <2>1. CASE m.of \notin Outstanding BY <1>3, <1>a, <2>1 DEF Typed, Settles, Outstanding
    <2>2. CASE m.of \in Outstanding
      <3>1. PICK a \in {"bytes", "failed"} : outcome' = [outcome EXCEPT ![m.of] = a] BY <1>a, <2>2
      <3>2. QED BY <1>3, <2>2, <3>1 DEF Typed, Answer, Settles, Outstanding
    <2>3. QED BY <2>1, <2>2
  <1>8. accessorOpen' \in [Sources -> BOOLEAN] BY <1>a DEF Typed
  <1>9. QED BY <1>1, <1>2, <1>6, <1>7, <1>8, <1>a, <1>b, WorkerSettles

-----------------------------------------------------------------------------
(* The main thread: the Worker's state does not change.                    *)
Live == {"concurrency", "admitted", "staging", "staged", "calling", "providing"}

\* The main thread takes the oldest message.
Pops == toMain # <<>> /\ toMain' = Tail(toMain)

LEMMA PopsFacts ==
  ASSUME IInv, Pops
  PROVE  /\ toMain' \in Seq(MainMessages) /\ Head(toMain) \in MainMessages /\ Head(toMain) = toMain[1]
         /\ \A i \in 1..Len(toMain') : i + 1 \in 1..Len(toMain) /\ toMain'[i] = toMain[i + 1]
         /\ \A i \in 1..Len(toMain) : i = 1 \/ (i - 1 \in 1..Len(toMain') /\ toMain'[i - 1] = toMain[i])
         /\ 1 \in 1..Len(toMain)
  BY DEF IInv, Channels, Pops

LEMMA PostedStays ==
  ASSUME IInv, UNCHANGED outcome, toMain' = toMain \/ Pops,
         \A r \in Reads : phase[r] = "none" /\ phase'[r] # "none" => Pops /\ Head(toMain) = Msg("read", r)
  PROVE  toMain' \in Seq(MainMessages) /\ Posted'
  <1>1. \A i \in 1..Len(toMain) : toMain[i].type \in {"read", "cancel"} => toMain[i].of \in Reads
    <2>1. \A i \in 1..Len(toMain) : toMain[i] \in MainMessages BY DEF IInv, Channels
    <2>2. QED BY <2>1 DEF MainMessages
  <1>2. \A r : Msg("read", r).type = "read" /\ Msg("read", r).of = r BY DEF Msg
  <1>3. CASE toMain' = toMain /\ ~Pops
    <2>1. \A r \in Reads : phase[r] = "none" => phase'[r] = "none" BY <1>3
    <2>2. QED BY <1>1, <1>3, <2>1 DEF IInv, Posted, Channels
  <1>4. CASE Pops
    <2>1. ASSUME NEW i \in 1..Len(toMain') 
          PROVE  /\ toMain'[i].type = "read" => phase'[toMain'[i].of] = "none" /\ outcome[toMain'[i].of] # "none"
                 /\ toMain'[i].type = "cancel" => outcome[toMain'[i].of] \notin {"none", "pending"}
      <3>1. i + 1 \in 1..Len(toMain) /\ toMain'[i] = toMain[i + 1] /\ Head(toMain) = toMain[1]
            /\ 1 \in 1..Len(toMain) /\ i + 1 # 1
        BY <1>4, PopsFacts
      <3>2. /\ toMain[i + 1].type = "read" =>
                   phase[toMain[i + 1].of] = "none" /\ outcome[toMain[i + 1].of] # "none"
            /\ toMain[i + 1].type = "cancel" => outcome[toMain[i + 1].of] \notin {"none", "pending"}
        BY <3>1 DEF IInv, Posted
      <3>3. toMain[i + 1].type = "read" => toMain[1] # toMain[i + 1]
        BY <3>1 DEF IInv, Posted
      <3>4. \A r \in Reads : toMain[i + 1] = Msg("read", r) /\ phase[r] = "none" => phase'[r] = "none"
        BY <1>2, <3>1, <3>3
      <3>5. toMain[i + 1].type = "read" => toMain[i + 1] = Msg("read", toMain[i + 1].of)
        <4>1. toMain[i + 1] \in MainMessages BY <3>1 DEF IInv, Channels
        <4>2. QED BY <4>1 DEF MainMessages, Msg
      <3>6. QED BY <1>1, <3>1, <3>2, <3>4, <3>5
    <2>2. ASSUME NEW i \in 1..Len(toMain'), NEW j \in 1..Len(toMain'),
                 toMain'[i].type = "read", toMain'[i] = toMain'[j]
          PROVE  i = j
      <3>1. i + 1 \in 1..Len(toMain) /\ toMain'[i] = toMain[i + 1]
            /\ j + 1 \in 1..Len(toMain) /\ toMain'[j] = toMain[j + 1]
        BY <1>4, PopsFacts
      <3>2. i + 1 = j + 1 BY <2>2, <3>1 DEF IInv, Posted
      <3>3. QED BY <3>2
    <2>3. \A r \in Reads : outcome[r] = "none" => phase'[r] = "none"
      <3>1. \A r \in Reads : Head(toMain) = Msg("read", r) => outcome[r] # "none"
        BY <1>2, <1>4, PopsFacts DEF IInv, Posted
      <3>2. QED BY <3>1 DEF IInv, Posted
    <2>4. QED BY <1>4, <2>1, <2>2, <2>3, PopsFacts DEF Posted
  <1>5. QED BY <1>3, <1>4

LEMMA AnsweringStays ==
  ASSUME IInv, UNCHANGED outcome, toMain' = toMain \/ Pops,
         \A i \in 1..Len(toWorker) : i \in 1..Len(toWorker') /\ toWorker'[i] = toWorker[i],
         \A s \in Sources : readerOpen'[s] => readerOpen[s],
         \A r \in Outstanding : readerOpen'[SourceOf[r]] =>
            \/ phase'[r] = phase[r] /\ (toMain' = toMain \/ Head(toMain) # Msg("read", r))
            \/ phase'[r] \in Live
            \/ \E i \in 1..Len(toWorker') : toWorker'[i] \in {Msg("bytes", r), Msg("failure", r)}
  PROVE  Answering'
  <1> SUFFICES ASSUME NEW r \in Outstanding, readerOpen'[SourceOf[r]]
               PROVE  \/ phase'[r] = "none" /\ \E i \in 1..Len(toMain') : toMain'[i] = Msg("read", r)
                      \/ phase'[r] \in Live
                      \/ \E i \in 1..Len(toWorker') : toWorker'[i] \in {Msg("bytes", r), Msg("failure", r)}
    BY DEF Answering, Live, Outstanding
  <1>1. r \in Reads /\ SourceOf[r] \in Sources BY BrokerAssumption DEF Outstanding
  <1>2. \/ phase[r] = "none" /\ \E i \in 1..Len(toMain) : toMain[i] = Msg("read", r)
        \/ phase[r] \in Live
        \/ \E i \in 1..Len(toWorker) : toWorker[i] \in {Msg("bytes", r), Msg("failure", r)}
    BY <1>1 DEF IInv, Answering, Live
  <1>3. CASE phase[r] = "none" /\ phase'[r] = phase[r] /\ Head(toMain) # Msg("read", r) /\ Pops
             /\ \E i \in 1..Len(toMain) : toMain[i] = Msg("read", r)
    <2>1. PICK i \in 1..Len(toMain) : toMain[i] = Msg("read", r) BY <1>3
    <2>2. i - 1 \in 1..Len(toMain') /\ toMain'[i - 1] = Msg("read", r) BY <1>3, <2>1, PopsFacts
    <2>3. QED BY <1>3, <2>2
  <1>4. QED BY <1>2, <1>3

LEMMA StagedNat == ASSUME IInv PROVE NatOn(Length, staged) /\ \A r \in Reads : Length[r] \in 1..Capacity
  BY BrokerAssumption DEF IInv, Typed, NatOn

LEMMA AcquireBytesStep ==
  ASSUME IInv, NEW r \in Reads, AcquireBytes(r), UNCHANGED maxConcurrency
  PROVE  IInv'
  <1> USE DEF IInv
  <1>1. /\ phase[r] = "admitted" /\ r \in ready
        /\ UNCHANGED <<outcome, accessorOpen, toMain, toWorker, readerOpen, closeCalls, pending, aborted,
                       concurrencyQueue, running, calls, engineOpen>>
    BY DEF AcquireBytes, Runs, worker
  <1>2. \/ /\ ~engineOpen \/ r \in aborted
           /\ phase' = [phase EXCEPT ![r] = "rejected"]
           /\ UNCHANGED <<used, staged, stagingQueue, ready>>
        \/ /\ engineOpen /\ r \notin aborted /\ used + Length[r] <= Capacity
           /\ phase' = [phase EXCEPT ![r] = "staged"]
           /\ used' = used + Length[r] /\ staged' = staged \cup {r}
           /\ UNCHANGED <<stagingQueue, ready>>
        \/ /\ engineOpen /\ r \notin aborted /\ ~(used + Length[r] <= Capacity)
           /\ phase' = [phase EXCEPT ![r] = "staging"]
           /\ stagingQueue' = Append(stagingQueue, r) /\ ready' = ready \ {r}
           /\ UNCHANGED <<used, staged>>
    BY DEF AcquireBytes
  <1>3. /\ phase' \in [Reads -> Phase] /\ phase'[r] \in {"rejected", "staged", "staging"}
        /\ \A q \in Reads : q # r => phase'[q] = phase[q]
    BY <1>1, <1>2 DEF Typed, Phase
  <1>4. r \in calls /\ r \notin staged /\ r \notin Staging /\ (r \in pending <=> readerOpen[SourceOf[r]])
    BY <1>1 DEF Holdings, Staging
  <1>5. Outstanding' = Outstanding /\ \A s \in Sources : Waiting(s)' = Waiting(s) /\ CallsOf(s)' = CallsOf(s)
    BY <1>1, <1>3 DEF Outstanding, Waiting, CallsOf
  <1>6. Typed'
    <2>1. staged' \subseteq Reads /\ IsFiniteSet(staged') BY <1>2, FS_AddElement DEF Typed
    <2>2. QED BY <1>1, <1>3, <1>5, <2>1 DEF Typed
  <1>7. Channels' BY <1>1 DEF Channels
  <1>8. Posted' BY <1>1, <1>3, PostedStays
  <1>10. Counted' BY <1>1, <1>5 DEF Counted
  <1>11. CASE phase'[r] = "rejected"
    <2>1. (~engineOpen \/ r \in aborted) /\ UNCHANGED <<used, staged, stagingQueue, ready>>
      BY <1>1, <1>2, <1>11 DEF Typed
    <2>2. Staging' = Staging BY <1>1, <1>3, <1>11 DEF Staging
    <2>3. Holdings' BY <1>1, <1>3, <1>4, <1>11, <2>1 DEF Holdings
    <2>4. Queues' BY <1>1, <1>5, <2>1, <2>2 DEF Queues
    <2>5. Bytes' BY <1>1, <2>1, <2>2 DEF Bytes
    <2>6. Ends' BY <1>1, <1>3, <2>1 DEF Ends, ClosedOnce
    <2>7. \A x \in Outstanding : readerOpen[SourceOf[x]] => phase'[x] = phase[x]
      BY <1>1, <1>3, <2>1, BrokerAssumption DEF Ends, Outstanding
    <2>8. Answering' BY <1>1, <2>7, AnsweringStays
    <2>9. QED BY <1>6, <1>7, <1>8, <1>10, <2>3, <2>4, <2>5, <2>6, <2>8
  <1>12. CASE phase'[r] = "staged"
    <2>1. /\ used + Length[r] <= Capacity /\ used' = used + Length[r] /\ staged' = staged \cup {r}
          /\ UNCHANGED <<stagingQueue, ready>>
      BY <1>1, <1>2, <1>12 DEF Typed
    <2>2. Staging' = Staging BY <1>1, <1>3, <1>12 DEF Staging
    <2>3. Holdings' BY <1>1, <1>3, <1>4, <1>12, <2>1 DEF Holdings
    <2>4. Queues' BY <1>1, <1>5, <2>1, <2>2 DEF Queues
    <2>5. Total(Length, staged') = Length[r] + Total(Length, staged) /\ Total(Length, staged) \in Nat
      BY <1>4, <2>1, StagedNat, TotalAdd, TotalType
    <2>6. Bytes' BY <1>1, <2>1, <2>2, <2>5, StagedNat, BrokerAssumption DEF Bytes, Staging
    <2>7. Ends' BY <1>1, <1>3, <1>12 DEF Ends, ClosedOnce
    <2>8. Answering' BY <1>1, <1>3, <1>12, AnsweringStays DEF Live, Outstanding
    <2>9. QED BY <1>6, <1>7, <1>8, <1>10, <2>3, <2>4, <2>6, <2>7, <2>8
  <1>13. CASE phase'[r] = "staging"
    <2>1. /\ engineOpen /\ ~(used + Length[r] <= Capacity) /\ r \notin aborted
          /\ stagingQueue' = Append(stagingQueue, r) /\ ready' = ready \ {r}
          /\ UNCHANGED <<used, staged>>
      BY <1>1, <1>2, <1>13 DEF Typed
    <2>2. Staging' = Staging \cup {r} BY <1>1, <1>3, <1>13 DEF Staging
    <2>3. Holdings' BY <1>1, <1>3, <1>4, <1>13, <2>1 DEF Holdings
    <2>4. Queues'
      <3>1. Lists(stagingQueue', Staging') BY <1>4, <2>1, <2>2, ListsAppend DEF Queues
      <3>2. QED BY <1>1, <1>5, <3>1 DEF Queues
    <2>5. Bytes' BY <1>1, <2>1, <2>2, StagedNat, BrokerAssumption DEF Bytes
    <2>6. Ends'
      <3>1. \A q \in Reads : phase'[q] = "rejected" => phase[q] = "rejected" BY <1>3, <1>13
      <3>2. QED BY <1>1, <3>1 DEF Ends, ClosedOnce
    <2>7. Answering' BY <1>1, <1>3, <1>13, AnsweringStays DEF Live, Outstanding
    <2>8. QED BY <1>6, <1>7, <1>8, <1>10, <2>3, <2>4, <2>5, <2>6, <2>7
  <1>14. QED BY <1>3, <1>11, <1>12, <1>13

\* A read goes on to its provider call or to its finally block.
LEMMA ReadMoves ==
  ASSUME IInv, NEW r \in Reads, NEW p \in {"calling", "providing", "ending"},
         phase' = [phase EXCEPT ![r] = p], phase[r] \in {"staged", "calling", "rejected", "providing"},
         p \in {"calling", "providing"} => phase[r] \in {"staged", "calling"},
         ready' = IF p = "providing" THEN ready \ {r} ELSE ready \cup {r},
         UNCHANGED <<maxConcurrency, worker, toMain, readerOpen, closeCalls, pending, aborted,
                     concurrencyQueue, running, calls, stagingQueue, used, staged, engineOpen>>,
         toWorker' \in Seq(WorkerMessages),
         \A i \in 1..Len(toWorker) : i \in 1..Len(toWorker') /\ toWorker'[i] = toWorker[i],
         p = "ending" /\ r \in Outstanding /\ readerOpen[SourceOf[r]] =>
            \E i \in 1..Len(toWorker') : toWorker'[i] \in {Msg("bytes", r), Msg("failure", r)}
  PROVE  IInv'
  <1> USE DEF IInv
  <1>1. /\ phase' \in [Reads -> Phase] /\ phase'[r] = p
        /\ \A q \in Reads : q # r => phase'[q] = phase[q]
    BY DEF Typed, Phase
  <1>2. outcome' = outcome /\ accessorOpen' = accessorOpen BY DEF worker
  <1>3. Outstanding' = Outstanding /\ Staging' = Staging
        /\ \A s \in Sources : Waiting(s)' = Waiting(s) /\ CallsOf(s)' = CallsOf(s)
    BY <1>1, <1>2 DEF Outstanding, Staging, Waiting, CallsOf
  <1>4. Typed' BY <1>1, <1>2, <1>3 DEF Typed
  <1>5. Channels' BY DEF Channels
  <1>6. Posted' BY <1>1, <1>2, PostedStays
  <1>7. Holdings' BY <1>1 DEF Holdings
  <1>8. Queues' BY <1>3 DEF Queues
  <1>9. Bytes' BY <1>3 DEF Bytes
  <1>10. Counted' BY <1>3 DEF Counted
  <1>11. Ends' BY <1>1, <1>2 DEF Ends, ClosedOnce
  <1>12. Answering' BY <1>1, <1>2, AnsweringStays DEF Live, Outstanding
  <1>13. QED BY <1>4, <1>5, <1>6, <1>7, <1>8, <1>9, <1>10, <1>11, <1>12

\* An answer is the last message to the Worker.
LEMMA Answered ==
  ASSUME toWorker \in Seq(WorkerMessages), NEW r \in Reads, NEW t \in {"bytes", "failure"},
         toWorker' = Append(toWorker, Msg(t, r))
  PROVE  /\ toWorker' \in Seq(WorkerMessages) /\ Len(toWorker') = Len(toWorker) + 1
         /\ \A i \in 1..Len(toWorker) : i \in 1..Len(toWorker') /\ toWorker'[i] = toWorker[i]
         /\ \E i \in 1..Len(toWorker') : toWorker'[i] = Msg(t, r)
         /\ Last(toWorker') = Msg(t, r) /\ Msg(t, r).type = t /\ Msg(t, r).of = r
  <1>1. Msg(t, r) \in WorkerMessages /\ Msg(t, r).type = t /\ Msg(t, r).of = r
    BY DEF Msg, WorkerMessages
  <1>2. Len(toWorker) \in Nat /\ Len(toWorker') = Len(toWorker) + 1
        /\ toWorker'[Len(toWorker) + 1] = Msg(t, r)
    BY <1>1
  <1>3. Last(toWorker') = Msg(t, r) BY <1>2 DEF Last
  <1>4. QED BY <1>1, <1>2, <1>3

LEMMA RecheckStep ==
  ASSUME IInv, NEW r \in Reads, Recheck(r), UNCHANGED maxConcurrency
  PROVE  IInv'
  <1> DEFINE p == IF Wanted(r) THEN "calling" ELSE "ending"
  <1>1. /\ phase[r] = "staged" /\ r \in ready /\ phase' = [phase EXCEPT ![r] = p] /\ ready' = ready
        /\ p \in {"calling", "ending"}
        /\ UNCHANGED <<worker, toMain, toWorker, readerOpen, closeCalls, pending, aborted,
                       concurrencyQueue, running, calls, stagingQueue, used, staged, engineOpen>>
    BY DEF Recheck, Runs
  <1>2. ready' = IF p = "providing" THEN ready \ {r} ELSE ready \cup {r} BY <1>1
  <1>3. p = "ending" => ~(r \in Outstanding /\ readerOpen[SourceOf[r]])
    BY <1>1 DEF IInv, Ends, Holdings, Wanted, Current, Outstanding
  <1>4. toWorker \in Seq(WorkerMessages) BY DEF IInv, Channels
  <1> HIDE DEF p
  <1>5. QED BY <1>1, <1>2, <1>3, <1>4, ReadMoves

LEMMA CallProviderStep ==
  ASSUME IInv, NEW r \in Reads, CallProvider(r), UNCHANGED maxConcurrency
  PROVE  IInv'
  <1>1. /\ phase[r] = "calling" /\ phase' = [phase EXCEPT ![r] = "providing"] /\ ready' = ready \ {r}
        /\ UNCHANGED <<worker, toMain, toWorker, readerOpen, closeCalls, pending, aborted,
                       concurrencyQueue, running, calls, stagingQueue, used, staged, engineOpen>>
    BY DEF CallProvider
  <1>2. toWorker \in Seq(WorkerMessages) BY DEF IInv, Channels
  <1>3. QED BY <1>1, <1>2, ReadMoves

LEMMA RejectedStep ==
  ASSUME IInv, NEW r \in Reads, Rejected(r), UNCHANGED maxConcurrency
  PROVE  IInv'
  <1>1. /\ phase[r] = "rejected" /\ r \in ready /\ phase' = [phase EXCEPT ![r] = "ending"]
        /\ ready' = ready \cup {r}
        /\ toWorker' = IF Current(r) THEN Append(toWorker, Msg("failure", r)) ELSE toWorker
    BY DEF Rejected, Runs
  <1>2. /\ UNCHANGED <<worker, toMain, readerOpen, closeCalls, pending, aborted,
                   concurrencyQueue, running, calls, stagingQueue, used, staged, engineOpen>>
        /\ toWorker \in Seq(WorkerMessages)
    BY DEF Rejected, IInv, Channels
  <1>3. CASE Current(r)
    BY <1>1, <1>2, <1>3, Answered, ReadMoves
  <1>4. CASE ~Current(r)
    <2>1. ~readerOpen[SourceOf[r]] BY <1>1, <1>4 DEF Current, IInv, Holdings
    <2>2. QED BY <1>1, <1>2, <1>4, <2>1, ReadMoves
  <1>5. QED BY <1>3, <1>4

LEMMA ProviderResolvesStep ==
  ASSUME IInv, NEW r \in Reads, ProviderResolves(r), UNCHANGED maxConcurrency
  PROVE  IInv'
  <1>1. /\ phase[r] = "providing" /\ phase' = [phase EXCEPT ![r] = "ending"]
        /\ ready' = ready \cup {r}
        /\ toWorker' = IF Wanted(r) THEN Append(toWorker, Msg("bytes", r)) ELSE toWorker
    BY DEF ProviderResolves
  <1>2. /\ UNCHANGED <<worker, toMain, readerOpen, closeCalls, pending, aborted,
                   concurrencyQueue, running, calls, stagingQueue, used, staged, engineOpen>>
        /\ toWorker \in Seq(WorkerMessages)
    BY DEF ProviderResolves, IInv, Channels
  <1>3. CASE Wanted(r)
    BY <1>1, <1>2, <1>3, Answered, ReadMoves
  <1>4. CASE ~Wanted(r)
    <2>1. r \in Outstanding => ~readerOpen[SourceOf[r]]
      BY <1>1, <1>4 DEF Wanted, Current, IInv, Holdings, Ends, Outstanding
    <2>2. QED BY <1>1, <1>2, <1>4, <2>1, ReadMoves
  <1>5. QED BY <1>3, <1>4

\* closeSourceReader rejects exactly the reads that wait in a queue.
LEMMA ReadersClose ==
  ASSUME IInv, NEW S \in SUBSET Sources, NEW phase0 \in [Reads -> Phase],
         \A r \in Reads : phase0[r] = phase[r] \/ (phase[r] = "providing" /\ phase0[r] = "ending"),
         CloseReaders(S, phase0),
         UNCHANGED <<maxConcurrency, worker, running, calls, used, staged>>,
         toMain' = toMain \/ (Pops /\ Head(toMain).type # "read"),
         engineOpen' \in BOOLEAN, engineOpen' => engineOpen,
         engineOpen /\ ~engineOpen' => S = Sources,
         toWorker' \in Seq(WorkerMessages),
         \A i \in 1..Len(toWorker) : i \in 1..Len(toWorker') /\ toWorker'[i] = toWorker[i],
         \A r \in Outstanding : phase0[r] # phase[r] /\ readerOpen[SourceOf[r]] =>
            \E i \in 1..Len(toWorker') : toWorker'[i] \in {Msg("bytes", r), Msg("failure", r)}
  PROVE  IInv'
  <1> USE DEF IInv
  <1> DEFINE closing == Closable(S)
             hit == {r \in pending : SourceOf[r] \in closing}
             waiting == {r \in hit : phase[r] \in {"concurrency", "staging"}}
  <1>1. /\ readerOpen' = [s \in Sources |-> readerOpen[s] /\ s \notin closing]
        /\ closeCalls' = [s \in Sources |-> IF s \in closing THEN closeCalls[s] + 1 ELSE closeCalls[s]]
        /\ aborted' = aborted \cup hit
        /\ pending' = pending \ hit
        /\ concurrencyQueue' = [s \in Sources |-> IF s \in closing THEN <<>> ELSE concurrencyQueue[s]]
        /\ stagingQueue' = Without(stagingQueue, waiting)
        /\ phase' = [r \in Reads |-> IF r \in waiting THEN "rejected" ELSE phase0[r]]
        /\ ready' = ready \cup waiting \cup {r \in Reads : phase0[r] = "ending"}
    BY DEF CloseReaders, Queued
  <1>2. /\ closing = {s \in S : readerOpen[s]}
        /\ pending = {r \in Reads : phase[r] \notin {"none", "done"} /\ readerOpen[SourceOf[r]]}
    BY DEF Closable, Holdings
  <1>3. \A r \in Reads : /\ r \in hit <=> phase[r] \notin {"none", "done"} /\ SourceOf[r] \in closing
                         /\ r \in waiting <=> phase[r] \in {"concurrency", "staging"} /\ SourceOf[r] \in closing
    BY <1>2
  <1>4. waiting \subseteq Reads /\ hit \subseteq Reads /\ closing \subseteq Sources BY <1>2
  <1> HIDE DEF closing, hit, waiting
  <1>5. outcome' = outcome /\ accessorOpen' = accessorOpen BY DEF worker
  <1>6. /\ phase' \in [Reads -> Phase]
        /\ \A r \in Reads : /\ r \in waiting => phase'[r] = "rejected"
                            /\ r \notin waiting => phase'[r] = phase0[r]
    BY <1>1, <1>4 DEF Phase
  <1>7. \A s \in Sources : /\ s \in closing => Waiting(s)' = {}
                           /\ s \notin closing => Waiting(s)' = Waiting(s)
    BY <1>3, <1>6 DEF Waiting
  <1>8. Staging' = Staging \ waiting BY <1>3, <1>6 DEF Staging
  <1>9. Outstanding' = Outstanding /\ \A s \in Sources : CallsOf(s)' = CallsOf(s)
    BY <1>5 DEF Outstanding, CallsOf
  <1>10. readerOpen' \in [Sources -> BOOLEAN] /\ \A s \in Sources : readerOpen'[s] = (readerOpen[s] /\ s \notin closing)
    BY <1>1 DEF Typed
  <1>11. closeCalls' \in [Sources -> Nat] /\ ClosedOnce'
    <2>1. closeCalls' \in [Sources -> Nat] BY <1>1 DEF Typed
    <2>2. ASSUME NEW s \in Sources PROVE closeCalls'[s] = IF readerOpen'[s] THEN 0 ELSE 1
      <3>1. closeCalls[s] = IF readerOpen[s] THEN 0 ELSE 1 BY DEF Ends, ClosedOnce
      <3>2. s \in closing => readerOpen[s] BY <1>2
      <3>3. closeCalls'[s] = IF s \in closing THEN closeCalls[s] + 1 ELSE closeCalls[s] BY <1>1
      <3>4. readerOpen[s] \in BOOLEAN BY DEF Typed
      <3>5. CASE s \in closing
        <4>1. closeCalls[s] = 0 /\ ~readerOpen'[s] BY <1>10, <3>1, <3>2, <3>5
        <4>2. QED BY <3>3, <3>5, <4>1
      <3>6. CASE s \notin closing
        <4>1. readerOpen'[s] <=> readerOpen[s] BY <1>10, <3>6
        <4>2. QED BY <3>1, <3>3, <3>6, <4>1
      <3>7. QED BY <3>5, <3>6
    <2>3. QED BY <2>1, <2>2 DEF ClosedOnce
  <1>12. Typed' BY <1>1, <1>4, <1>5, <1>6, <1>9, <1>10, <1>11 DEF Typed
  <1>13. Channels'
    <2>1. toMain' \in Seq(MainMessages) BY PopsFacts DEF Channels
    <2>2. QED BY <2>1 DEF Channels
  <1>14. Posted' BY <1>3, <1>5, <1>6, PostedStays
  <1>15. Holdings'
    <2>1. ready' = {r \in Reads : phase'[r] \in {"admitted", "staged", "calling", "rejected", "ending"}}
      BY <1>1, <1>4, <1>6, <1>3 DEF Holdings
    <2>2. pending' = {r \in Reads : phase'[r] \notin {"none", "done"} /\ readerOpen'[SourceOf[r]]}
      BY <1>1, <1>2, <1>3, <1>6, <1>10, BrokerAssumption
    <2>3. ASSUME NEW r \in Reads
          PROVE  /\ phase'[r] \in {"admitted", "staging", "staged", "calling", "providing"} => r \in calls
                 /\ phase'[r] \in {"none", "concurrency", "done"} => r \notin calls
                 /\ phase'[r] \in {"staged", "calling", "providing"} => r \in staged
                 /\ r \in staged => phase'[r] \in {"staged", "calling", "providing", "ending"}
      BY <1>3, <1>6 DEF Holdings
    <2>4. ASSUME NEW r \in Reads
          PROVE  /\ phase'[r] \in {"concurrency", "staging"} => readerOpen'[SourceOf[r]]
                 /\ phase'[r] \notin {"none", "done"} => readerOpen'[SourceOf[r]] \/ r \in aborted'
      BY <1>1, <1>3, <1>6, <1>10, BrokerAssumption DEF Holdings
    <2>5. calls' = calls /\ staged' = staged OBVIOUS
    <2>6. QED BY <2>1, <2>2, <2>3, <2>4, <2>5 DEF Holdings
  <1>16. Queues'
    <2>1. \A s \in Sources : Lists(concurrencyQueue'[s], Waiting(s)')
      BY <1>1, <1>7, ListsEmpty DEF Queues
    <2>2. Lists(stagingQueue', Staging') BY <1>1, <1>8, WithoutLists DEF Queues
    <2>3. QED BY <1>1, <2>1, <2>2 DEF Queues
  <1>17. Bytes' BY <1>8 DEF Bytes
  <1>18. Counted'
    <2>1. \A s \in Sources : Waiting(s)' # {} => Waiting(s) # {} BY <1>7
    <2>2. QED BY <1>9, <2>1 DEF Counted
  <1>19. Ends'
    <2>1. ~engineOpen' => \A s \in Sources : ~readerOpen'[s] BY <1>2, <1>10 DEF Ends, Typed
    <2>2. \A r \in aborted' : readerOpen'[SourceOf[r]] => outcome'[r] \notin {"none", "pending"}
      BY <1>1, <1>3, <1>4, <1>5, <1>10, BrokerAssumption DEF Ends, Typed
    <2>3. \A r \in Reads : phase'[r] = "rejected" => r \in aborted' \/ ~engineOpen'
      BY <1>1, <1>3, <1>6 DEF Ends
    <2>4. QED BY <1>11, <2>1, <2>2, <2>3 DEF Ends
  <1>20. Answering'
    <2>1. \A s \in Sources : readerOpen'[s] => readerOpen[s] BY <1>10
    <2>2. ASSUME NEW r \in Outstanding, readerOpen'[SourceOf[r]]
          PROVE  \/ phase'[r] = phase[r]
                 \/ \E i \in 1..Len(toWorker') : toWorker'[i] \in {Msg("bytes", r), Msg("failure", r)}
      <3>1. r \in Reads /\ SourceOf[r] \in Sources BY BrokerAssumption DEF Outstanding
      <3>2. r \notin waiting /\ readerOpen[SourceOf[r]] BY <1>3, <1>10, <2>2, <3>1
      <3>3. QED BY <1>6, <3>1, <3>2
    <2>3. \A r : Msg("read", r).type = "read" BY DEF Msg
    <2>4. QED BY <1>5, <2>1, <2>2, <2>3, AnsweringStays
  <1>21. QED BY <1>12, <1>13, <1>14, <1>15, <1>16, <1>17, <1>18, <1>19, <1>20

LEMMA ProviderRejectsStep ==
  ASSUME IInv, NEW r \in Reads, NEW changed \in BOOLEAN, ProviderRejects(r, changed),
         UNCHANGED maxConcurrency
  PROVE  IInv'
  <1> DEFINE S == IF changed /\ Current(r) THEN {SourceOf[r]} ELSE {}
             phase0 == [phase EXCEPT ![r] = "ending"]
  <1>1. /\ phase[r] = "providing"
        /\ toWorker' = IF Current(r) THEN Append(toWorker, Msg("failure", r)) ELSE toWorker
        /\ CloseReaders(S, phase0)
        /\ UNCHANGED <<worker, toMain, running, calls, used, staged, engineOpen>>
    BY DEF ProviderRejects
  <1>2. S \in SUBSET Sources /\ phase0 \in [Reads -> Phase] BY BrokerAssumption DEF IInv, Typed, Phase
  <1>3. \A q \in Reads : phase0[q] = phase[q] \/ (q = r /\ phase[q] = "providing" /\ phase0[q] = "ending")
    BY <1>1 DEF IInv, Typed
  <1>4. toWorker \in Seq(WorkerMessages) /\ engineOpen' \in BOOLEAN
    BY <1>1 DEF IInv, Channels, Typed
  <1>5. Current(r) <=> readerOpen[SourceOf[r]]
    BY <1>1 DEF Current, IInv, Holdings
  <1> HIDE DEF S, phase0
  <1>6. /\ toWorker' \in Seq(WorkerMessages)
        /\ \A i \in 1..Len(toWorker) : i \in 1..Len(toWorker') /\ toWorker'[i] = toWorker[i]
        /\ \A q \in Outstanding : phase0[q] # phase[q] /\ readerOpen[SourceOf[q]] =>
              \E i \in 1..Len(toWorker') : toWorker'[i] \in {Msg("bytes", q), Msg("failure", q)}
    <2>1. CASE Current(r) BY <1>1, <1>3, <1>4, <2>1, Answered DEF Outstanding
    <2>2. CASE ~Current(r) BY <1>1, <1>3, <1>4, <1>5, <2>2 DEF Outstanding
    <2>3. QED BY <2>1, <2>2
  <1>7. QED BY <1>1, <1>2, <1>3, <1>4, <1>6, ReadersClose

LEMMA EngineStopsStep ==
  ASSUME IInv, EngineStops, UNCHANGED maxConcurrency
  PROVE  IInv'
  <1>1. /\ engineOpen /\ engineOpen' = FALSE /\ CloseReaders(Sources, phase)
        /\ UNCHANGED <<worker, toMain, toWorker, running, calls, used, staged>>
    BY DEF EngineStops
  <1>2. phase \in [Reads -> Phase] /\ toWorker \in Seq(WorkerMessages) BY DEF IInv, Typed, Channels
  <1>3. QED BY <1>1, <1>2, ReadersClose

LEMMA CallsFinite ==
  ASSUME IInv, NEW s \in Sources
  PROVE  IsFiniteSet(CallsOf(s)) /\ Cardinality(CallsOf(s)) \in Nat
  <1>1. CallsOf(s) \subseteq calls BY DEF CallsOf
  <1>2. QED BY <1>1, FS_Subset, FS_CardinalityType DEF IInv, Typed

LEMMA ReceiveReadClosed ==
  ASSUME IInv, NEW r \in Reads, Pops, Head(toMain) = Msg("read", r), ~readerOpen[SourceOf[r]],
         ReceiveRead(r), UNCHANGED <<maxConcurrency, worker, used, staged, engineOpen>>
  PROVE  IInv'
  <1> USE DEF IInv
  <1>1. /\ UNCHANGED <<pending, running, calls, concurrencyQueue, phase, ready, readerOpen,
                       closeCalls, aborted, stagingQueue, outcome, accessorOpen>>
        /\ toWorker' = Append(toWorker, Msg("failure", r))
    BY DEF ReceiveRead, worker
  <1>2. Outstanding' = Outstanding /\ Staging' = Staging
        /\ \A s \in Sources : Waiting(s)' = Waiting(s) /\ CallsOf(s)' = CallsOf(s)
    BY <1>1 DEF Outstanding, Staging, Waiting, CallsOf
  <1>3. toMain' \in Seq(MainMessages) /\ Posted' BY <1>1, PostedStays
  <1>4. Channels' BY <1>1, <1>3, Answered DEF Channels
  <1>5. Typed' BY <1>1, <1>2 DEF Typed
  <1>6. Holdings' BY <1>1 DEF Holdings
  <1>7. Queues' BY <1>1, <1>2 DEF Queues
  <1>8. Bytes' BY <1>1, <1>2 DEF Bytes
  <1>9. Counted' BY <1>1, <1>2 DEF Counted
  <1>10. Ends' BY <1>1 DEF Ends, ClosedOnce
  <1>11. \A q : Msg("read", q).of = q BY DEF Msg
  <1>12. \A i \in 1..Len(toWorker) : i \in 1..Len(toWorker') /\ toWorker'[i] = toWorker[i]
    BY <1>1, Answered DEF Channels
  <1>13. \A q \in Outstanding : readerOpen'[SourceOf[q]] => Head(toMain) # Msg("read", q)
    BY <1>1, <1>11
  <1>14. Answering' BY <1>1, <1>12, <1>13, AnsweringStays
  <1>15. QED BY <1>3, <1>4, <1>5, <1>6, <1>7, <1>8, <1>9, <1>10, <1>14

LEMMA ReceiveReadOpen ==
  ASSUME IInv, NEW r \in Reads, Pops, Head(toMain) = Msg("read", r), readerOpen[SourceOf[r]],
         ReceiveRead(r), UNCHANGED <<maxConcurrency, worker, used, staged, engineOpen>>
  PROVE  IInv'
  <1> USE DEF IInv
  <1> DEFINE s == SourceOf[r]
             p == IF running[s] < maxConcurrency[s] THEN "admitted" ELSE "concurrency"
  <1>1. /\ UNCHANGED <<toWorker, readerOpen, closeCalls, aborted, stagingQueue, outcome, accessorOpen>>
        /\ pending' = pending \cup {r}
        /\ phase' = [phase EXCEPT ![r] = p]
        /\ running[s] < maxConcurrency[s] =>
              /\ running' = [running EXCEPT ![s] = @ + 1]
              /\ calls' = calls \cup {r} /\ ready' = ready \cup {r}
              /\ UNCHANGED concurrencyQueue
        /\ ~(running[s] < maxConcurrency[s]) =>
              /\ UNCHANGED <<running, calls, ready>>
              /\ concurrencyQueue' = [concurrencyQueue EXCEPT ![s] = Append(@, r)]
    BY DEF ReceiveRead, AcquireCall, worker
  <1>2. phase[r] = "none"
    <2>1. Msg("read", r).type = "read" /\ Msg("read", r).of = r BY DEF Msg
    <2>2. QED BY <2>1, PopsFacts DEF Posted
  <1>3. s \in Sources /\ maxConcurrency[s] \in 1..4 /\ running[s] \in Nat
    BY BrokerAssumption DEF Typed, Counted
  <1>4. /\ phase' \in [Reads -> Phase] /\ phase'[r] = p /\ p \in {"admitted", "concurrency"}
        /\ \A q \in Reads : q # r => phase'[q] = phase[q]
    BY <1>1 DEF Typed, Phase
  <1>5. r \notin calls /\ r \notin staged /\ r \notin ready /\ \A x \in Sources : r \notin Waiting(x)
    BY <1>2 DEF Holdings, Waiting
  <1>6. Outstanding' = Outstanding /\ Staging' = Staging
    BY <1>1, <1>2, <1>4 DEF Outstanding, Staging
  <1>7. \A x \in Sources : Waiting(x)' = IF x = s /\ p = "concurrency" THEN Waiting(x) \cup {r} ELSE Waiting(x)
    BY <1>2, <1>4 DEF Waiting
  <1>8. p = "admitted" <=> running[s] < maxConcurrency[s] OBVIOUS
  <1>9. \A x \in Sources : CallsOf(x)' = IF x = s /\ p = "admitted" THEN CallsOf(x) \cup {r} ELSE CallsOf(x)
    BY <1>1, <1>8 DEF CallsOf
  <1> HIDE DEF p, s
  <1>10. toMain' \in Seq(MainMessages) /\ Posted' BY <1>1, <1>4, PostedStays
  <1>11. Channels' BY <1>1, <1>10 DEF Channels
  <1>12. Typed'
    <2>1. calls' = calls \/ calls' = calls \cup {r} BY <1>1
    <2>2. calls \subseteq Reads /\ IsFiniteSet(calls) BY DEF Typed
    <2>3. calls' \subseteq Reads /\ IsFiniteSet(calls') BY <2>1, <2>2, FS_AddElement
    <2>4. QED BY <1>1, <1>4, <1>6, <2>3 DEF Typed
  <1>13. Holdings'
    <2>1. ready' = {q \in Reads : phase'[q] \in {"admitted", "staged", "calling", "rejected", "ending"}}
      BY <1>1, <1>2, <1>4, <1>8 DEF Holdings
    <2>2. pending' = {q \in Reads : phase'[q] \notin {"none", "done"} /\ readerOpen[SourceOf[q]]}
      BY <1>1, <1>2, <1>4 DEF Holdings
    <2>3. ASSUME NEW q \in Reads
          PROVE  /\ phase'[q] \in {"admitted", "staging", "staged", "calling", "providing"} => q \in calls'
                 /\ phase'[q] \in {"none", "concurrency", "done"} => q \notin calls'
                 /\ phase'[q] \in {"staged", "calling", "providing"} => q \in staged
                 /\ q \in staged => phase'[q] \in {"staged", "calling", "providing", "ending"}
                 /\ phase'[q] \in {"concurrency", "staging"} => readerOpen[SourceOf[q]]
                 /\ phase'[q] \notin {"none", "done"} => readerOpen[SourceOf[q]] \/ q \in aborted
      BY <1>1, <1>2, <1>4, <1>5, <1>8 DEF Holdings
    <2>4. QED BY <1>1, <2>1, <2>2, <2>3 DEF Holdings
  <1>14. Queues'
    <2>1. ASSUME NEW x \in Sources PROVE Lists(concurrencyQueue'[x], Waiting(x)')
      <3>1. Lists(concurrencyQueue[x], Waiting(x)) BY DEF Queues
      <3>2. CASE x = s /\ p = "concurrency"
        <4>1. concurrencyQueue'[x] = Append(concurrencyQueue[x], r)
          BY <1>1, <1>3, <1>4, <1>8, <3>2 DEF Queues
        <4>2. QED BY <1>5, <1>7, <3>1, <3>2, <4>1, ListsAppend
      <3>3. CASE ~(x = s /\ p = "concurrency")
        <4>1. concurrencyQueue'[x] = concurrencyQueue[x]
          BY <1>1, <1>3, <1>4, <1>8, <3>3 DEF Queues
        <4>2. Waiting(x)' = Waiting(x) BY <1>7, <3>3
        <4>3. QED BY <3>1, <4>1, <4>2
      <3>4. QED BY <3>2, <3>3
    <2>2. DOMAIN concurrencyQueue' = Sources BY <1>1 DEF Queues
    <2>3. QED BY <1>1, <1>6, <2>1, <2>2 DEF Queues
  <1>15. Bytes' BY <1>1, <1>6 DEF Bytes
  <1>16. Counted'
    <2>1. running' \in [Sources -> Nat] BY <1>1, <1>3 DEF Counted
    <2>2. ASSUME NEW x \in Sources
          PROVE  /\ running'[x] = Cardinality(CallsOf(x)') /\ running'[x] <= maxConcurrency[x]
                 /\ Waiting(x)' # {} => running'[x] = maxConcurrency[x]
      <3>1. /\ running[x] = Cardinality(CallsOf(x)) /\ running[x] <= maxConcurrency[x]
            /\ Waiting(x) # {} => running[x] = maxConcurrency[x]
            /\ maxConcurrency[x] \in 1..4 /\ running[x] \in Nat
        BY DEF Counted, Typed
      <3>2. CASE x = s /\ p = "admitted"
        <4>1. running'[x] = running[x] + 1 BY <1>1, <1>8, <3>2 DEF Counted
        <4>2. CallsOf(x)' = CallsOf(x) \cup {r} /\ r \notin CallsOf(x) BY <1>5, <1>9, <3>2 DEF CallsOf
        <4>3. Cardinality(CallsOf(x)') = Cardinality(CallsOf(x)) + 1
          BY <4>2, CallsFinite, FS_AddElement
        <4>4. Waiting(x)' = Waiting(x) BY <1>7, <3>2
        <4>5. running[x] < maxConcurrency[x] BY <1>8, <3>2
        <4>6. QED BY <3>1, <4>1, <4>3, <4>4, <4>5
      <3>3. CASE ~(x = s /\ p = "admitted")
        <4>1. running'[x] = running[x] BY <1>1, <1>3, <1>8, <3>3 DEF Counted
        <4>2. CallsOf(x)' = CallsOf(x) BY <1>9, <3>3
        <4>3. x = s => running[x] = maxConcurrency[x] BY <1>3, <1>4, <1>8, <3>1, <3>3
        <4>4. x # s => Waiting(x)' = Waiting(x) BY <1>7
        <4>5. QED BY <3>1, <4>1, <4>2, <4>3, <4>4
      <3>4. QED BY <3>2, <3>3
    <2>3. QED BY <2>1, <2>2 DEF Counted
  <1>17. Ends' BY <1>1, <1>4 DEF Ends, ClosedOnce
  <1>18. Answering'
    <2>1. \A q : Msg("read", q).of = q BY DEF Msg
    <2>2. \A q \in Outstanding : phase'[q] \in Live \/ (phase'[q] = phase[q] /\ Head(toMain) # Msg("read", q))
      BY <1>4, <2>1 DEF Live, Outstanding
    <2>3. QED BY <1>1, <2>2, AnsweringStays
  <1>19. QED BY <1>10, <1>11, <1>12, <1>13, <1>14, <1>15, <1>16, <1>17, <1>18

LEMMA ReceiveCancelStep ==
  ASSUME IInv, NEW r \in Reads, Quiet, Pops, Head(toMain) = Msg("cancel", r), ReceiveCancel(r),
         UNCHANGED <<maxConcurrency, worker, used, staged, engineOpen>>
  PROVE  IInv'
  <1> USE DEF IInv
  <1>1. /\ UNCHANGED <<pending, running, calls, readerOpen, closeCalls, toWorker, outcome, accessorOpen>>
        /\ ~Current(r) => UNCHANGED <<concurrencyQueue, phase, ready, aborted, stagingQueue>>
        /\ Current(r) =>
             /\ aborted' = aborted \cup {r}
             /\ concurrencyQueue' = [concurrencyQueue EXCEPT ![SourceOf[r]] = Without(@, {r})]
             /\ stagingQueue' = Without(stagingQueue, {r})
             /\ phase[r] \in {"concurrency", "staging"} =>
                   phase' = [phase EXCEPT ![r] = "rejected"] /\ ready' = {r}
             /\ phase[r] \notin {"concurrency", "staging"} => phase' = phase /\ ready' = {}
    BY DEF ReceiveCancel, worker
  <1>2. ready = {} /\ SourceOf[r] \in Sources BY BrokerAssumption DEF Quiet
  <1>3. outcome[r] \notin {"none", "pending"}
    <2>1. Msg("cancel", r).type = "cancel" /\ Msg("cancel", r).of = r BY DEF Msg
    <2>2. QED BY <2>1, PopsFacts DEF Posted
  <1>4. \A q : Head(toMain) # Msg("read", q) BY DEF Msg
  <1>5. \A s \in Sources : Lists(concurrencyQueue[s], Waiting(s)) /\ Lists(stagingQueue, Staging)
    BY DEF Queues
  <1>6. CASE ~Current(r)
    <2>1. Outstanding' = Outstanding /\ Staging' = Staging
          /\ \A s \in Sources : Waiting(s)' = Waiting(s) /\ CallsOf(s)' = CallsOf(s)
      BY <1>1, <1>6 DEF Outstanding, Staging, Waiting, CallsOf
    <2>2. toMain' \in Seq(MainMessages) /\ Posted' BY <1>1, <1>6, PostedStays
    <2>3. Channels' BY <1>1, <2>2 DEF Channels
    <2>4. Typed' BY <1>1, <1>6, <2>1 DEF Typed
    <2>5. Holdings' BY <1>1, <1>6 DEF Holdings
    <2>6. Queues' BY <1>1, <1>6, <2>1 DEF Queues
    <2>7. Bytes' BY <1>1, <1>6, <2>1 DEF Bytes
    <2>8. Counted' BY <1>1, <1>6, <2>1 DEF Counted
    <2>9. Ends' BY <1>1, <1>6 DEF Ends, ClosedOnce
    <2>10. Answering' BY <1>1, <1>4, <1>6, AnsweringStays
    <2>11. QED BY <2>2, <2>3, <2>4, <2>5, <2>6, <2>7, <2>8, <2>9, <2>10
  <1>7. CASE Current(r)
    <2> DEFINE w == phase[r] \in {"concurrency", "staging"}
    <2>1. /\ phase' \in [Reads -> Phase] /\ \A q \in Reads : q # r => phase'[q] = phase[q]
          /\ w => phase'[r] = "rejected" /\ ready' = {r}
          /\ ~w => phase'[r] = phase[r] /\ ready' = {}
      BY <1>1, <1>7 DEF Typed, Phase
    <2>2. phase[r] # "none" BY <1>7 DEF Current, Holdings
    <2>3. Outstanding' = Outstanding /\ \A s \in Sources : CallsOf(s)' = CallsOf(s)
      BY <1>1 DEF Outstanding, CallsOf
    <2>4. Staging' = Staging \ {r} BY <1>2, <2>1 DEF Staging
    <2>5. \A s \in Sources : Waiting(s)' = Waiting(s) \ {r} BY <2>1 DEF Waiting
    <2>6. toMain' \in Seq(MainMessages) /\ Posted' BY <1>1, <2>1, <2>2, PostedStays
    <2>7. Channels' BY <1>1, <2>6 DEF Channels
    <2>8. Typed' BY <1>1, <1>7, <2>1, <2>3 DEF Typed
    <2>9. Holdings' BY <1>1, <1>2, <1>7, <2>1, <2>2 DEF Holdings
    <2>10. Queues'
      <3>1. ASSUME NEW s \in Sources PROVE Lists(concurrencyQueue'[s], Waiting(s)')
        <4>1. CASE s = SourceOf[r]
          <5>1. concurrencyQueue'[s] = Without(concurrencyQueue[s], {r})
            BY <1>1, <1>7, <4>1 DEF Queues
          <5>2. QED BY <1>5, <2>5, <5>1, WithoutLists
        <4>2. CASE s # SourceOf[r]
          <5>1. concurrencyQueue'[s] = concurrencyQueue[s] BY <1>1, <1>7, <4>2 DEF Queues
          <5>2. r \notin Waiting(s) BY <4>2 DEF Waiting
          <5>3. Waiting(s)' = Waiting(s) BY <2>5, <5>2
          <5>4. QED BY <1>5, <5>1, <5>3
        <4>3. QED BY <4>1, <4>2
      <3>2. Lists(stagingQueue', Staging') BY <1>1, <1>2, <1>5, <1>7, <2>4, WithoutLists
      <3>3. DOMAIN concurrencyQueue' = Sources BY <1>1, <1>7 DEF Queues
      <3>4. QED BY <3>1, <3>2, <3>3 DEF Queues
    <2>11. Bytes' BY <1>1, <2>4 DEF Bytes
    <2>12. Counted'
      <3>1. \A s \in Sources : Waiting(s)' # {} => Waiting(s) # {} BY <2>5
      <3>2. QED BY <1>1, <2>3, <3>1 DEF Counted
    <2>13. Ends' BY <1>1, <1>3, <1>7, <2>1 DEF Ends, ClosedOnce
    <2>14. Answering'
      <3>1. \A q \in Outstanding : phase'[q] = phase[q] BY <1>3, <2>1 DEF Outstanding
      <3>2. QED BY <1>1, <1>4, <3>1, AnsweringStays
    <2>15. QED BY <2>6, <2>7, <2>8, <2>9, <2>10, <2>11, <2>12, <2>13, <2>14
  <1>8. QED BY <1>6, <1>7

LEMMA MainReceiveStep ==
  ASSUME IInv, MainReceive, UNCHANGED maxConcurrency
  PROVE  IInv'
  <1> DEFINE m == Head(toMain)
  <1>1. /\ Quiet /\ Pops /\ m \in MainMessages
        /\ UNCHANGED <<maxConcurrency, worker, used, staged, engineOpen>>
    BY PopsFacts DEF MainReceive, Pops
  <1>2. m \in [type : {"read", "cancel"}, of : Reads] \/ m \in [type : {"close"}, of : Sources]
    BY <1>1 DEF MainMessages
  <1>3. m = Msg(m.type, m.of) BY <1>2 DEF Msg
  <1>4. CASE m.type = "read"
    <2>1. m.of \in Reads /\ ReceiveRead(m.of) BY <1>2, <1>4 DEF MainReceive
    <2>2. QED BY <1>1, <1>3, <1>4, <2>1, ReceiveReadOpen, ReceiveReadClosed
  <1>5. CASE m.type = "cancel"
    <2>1. m.of \in Reads /\ ReceiveCancel(m.of) BY <1>2, <1>5 DEF MainReceive
    <2>2. QED BY <1>1, <1>3, <1>5, <2>1, ReceiveCancelStep
  <1>6. CASE m.type = "close"
    <2>1. m.of \in Sources /\ CloseReaders({m.of}, phase) /\ UNCHANGED <<running, calls, toWorker>>
      BY <1>2, <1>6 DEF MainReceive
    <2>2. /\ phase \in [Reads -> Phase] /\ toWorker \in Seq(WorkerMessages)
          /\ engineOpen \in BOOLEAN /\ {m.of} \in SUBSET Sources
      BY <2>1 DEF IInv, Typed, Channels
    <2>3. QED BY <1>1, <1>6, <2>1, <2>2, ReadersClose
  <1>7. QED BY <1>2, <1>4, <1>5, <1>6

(* The finally block.  g are the reads that get the bytes it gives back,   *)
(* w the read that gets its provider call.                                 *)
BytesReleased(r, g) ==
    /\ g \subseteq Staging /\ IsFiniteSet(g)
    /\ staged' = (staged \ {r}) \cup g
    /\ Lists(stagingQueue', Staging \ g)
    /\ used' = Total(Length, staged') /\ used' \in 0..Capacity
    /\ engineOpen => \A q \in Staging \ g : used' + Length[q] > Capacity

LEMMA ReleaseBytesStep ==
  ASSUME IInv, NEW r \in Reads, phase[r] = "ending", ReleaseBytes(r)
  PROVE  \E g : BytesReleased(r, g)
  <1> USE DEF IInv
  <1>1. /\ used = Total(Length, staged) /\ used \in 0..Capacity /\ Lists(stagingQueue, Staging)
        /\ engineOpen => \A q \in Staging : used + Length[q] > Capacity
    BY DEF Bytes, Queues
  <1>2. NatOn(Length, staged) /\ Length[r] \in Nat /\ Capacity \in Nat
    BY StagedNat, BrokerAssumption
  <1>3. CASE r \notin staged
    <2>1. used' = used /\ stagingQueue' = stagingQueue /\ staged' = staged
      BY <1>3 DEF ReleaseBytes
    <2>2. staged' = (staged \ {r}) \cup {} /\ Staging \ {} = Staging BY <1>3, <2>1
    <2>3. BytesReleased(r, {}) BY <1>1, <2>1, <2>2, FS_EmptySet DEF BytesReleased
    <2>4. QED BY <2>3
  <1>4. CASE r \in staged
    <2> DEFINE bytes == used - Length[r]
               rest == staged \ {r}
    <2>1. NatOn(Length, rest) /\ bytes = Total(Length, rest) /\ bytes \in Nat /\ bytes <= Capacity
      <3>1. NatOn(Length, rest) /\ Total(Length, staged) = Length[r] + Total(Length, rest)
        BY <1>2, <1>4, TotalRemove
      <3>2. Total(Length, rest) \in Nat BY <3>1, TotalType
      <3>3. QED BY <1>1, <1>2, <3>1, <3>2
    <2>2. CASE ~engineOpen
      <3>1. used' = bytes /\ stagingQueue' = stagingQueue /\ staged' = rest
        BY <1>4, <2>2 DEF ReleaseBytes
      <3>2. staged' = (staged \ {r}) \cup {} /\ Staging \ {} = Staging BY <3>1
      <3> HIDE DEF bytes, rest
      <3>3. used' = Total(Length, staged') /\ used' \in 0..Capacity BY <1>2, <2>1, <3>1
      <3>4. BytesReleased(r, {}) BY <1>1, <2>2, <3>1, <3>2, <3>3, FS_EmptySet DEF BytesReleased
      <3>5. QED BY <3>4
    <2>3. CASE engineOpen
      <3> DEFINE d == Drain(bytes, stagingQueue)
      <3>1. used' = d.used /\ stagingQueue' = d.queue /\ staged' = rest \cup d.granted
        BY <1>4, <2>3 DEF ReleaseBytes
      <3>2. Staging \in SUBSET Reads BY DEF Staging
      <3> HIDE DEF bytes
      <3>3. Drained(d, bytes, Staging) BY <1>1, <2>1, <3>2, DrainLists
      <3> HIDE DEF d
      <3>4. /\ d.granted \subseteq Staging /\ d.used \in Nat /\ IsFiniteSet(d.granted)
            /\ Lists(d.queue, Staging \ d.granted)
            /\ d.used = bytes + Total(Length, d.granted) /\ d.used <= Capacity
            /\ \A q \in Staging \ d.granted : d.used + Length[q] > Capacity
        BY <3>3 DEF Drained
      <3> DEFINE g == d.granted
      <3>5. rest \cap g = {}
        <4>1. \A q \in staged : q \notin Staging BY DEF Holdings, Staging, Typed
        <4>2. QED BY <3>4, <4>1
      <3>6. NatOn(Length, g) BY <3>2, <3>4, StagedNat DEF NatOn
      <3>7. Total(Length, rest \cup g) = Total(Length, rest) + Total(Length, g)
        BY <2>1, <3>5, <3>6, TotalUnion
      <3>8. used' = Total(Length, staged') BY <2>1, <3>1, <3>4, <3>7
      <3>9. used' \in 0..Capacity BY <1>2, <3>1, <3>4
      <3>10. BytesReleased(r, g) BY <3>1, <3>4, <3>8, <3>9 DEF BytesReleased
      <3>11. QED BY <3>10
    <2>4. QED BY <2>2, <2>3
  <1>5. QED BY <1>3, <1>4

CallReleased(r, w) ==
    LET s == SourceOf[r] IN
    /\ w \subseteq Waiting(s) /\ IsFiniteSet(w)
    /\ calls' = (calls \ {r}) \cup w
    /\ DOMAIN concurrencyQueue' = Sources
    /\ Lists(concurrencyQueue'[s], Waiting(s) \ w)
    /\ \A x \in Sources : x # s => concurrencyQueue'[x] = concurrencyQueue[x]
    /\ running' \in [Sources -> Nat]
    /\ \A x \in Sources : running'[x] = Cardinality(CallsOf(x)') /\ running'[x] <= maxConcurrency[x]
    /\ Waiting(s) \ w # {} => running'[s] = maxConcurrency[s]
    /\ \A x \in Sources : x # s => running'[x] = running[x]

LEMMA ReleaseCallStep ==
  ASSUME IInv, NEW r \in Reads, phase[r] = "ending", ReleaseCall(r)
  PROVE  \E w : CallReleased(r, w)
  <1> USE DEF IInv
  <1> DEFINE s == SourceOf[r]
             handover == readerOpen[s] /\ concurrencyQueue[s] # <<>>
  <1>1. /\ s \in Sources /\ DOMAIN concurrencyQueue = Sources /\ Lists(concurrencyQueue[s], Waiting(s))
        /\ running \in [Sources -> Nat] /\ maxConcurrency \in [Sources -> 1..4]
        /\ \A x \in Sources : /\ running[x] = Cardinality(CallsOf(x)) /\ running[x] <= maxConcurrency[x]
                              /\ Waiting(x) # {} => running[x] = maxConcurrency[x]
    BY BrokerAssumption DEF Queues, Counted, Typed
  <1>2. CASE r \notin calls
    <2>1. running' = running /\ concurrencyQueue' = concurrencyQueue /\ calls' = calls
      BY <1>2 DEF ReleaseCall
    <2>2. calls' = (calls \ {r}) \cup {} /\ Waiting(s) \ {} = Waiting(s) BY <1>2, <2>1
    <2>3. \A x \in Sources : CallsOf(x)' = CallsOf(x) BY <2>1 DEF CallsOf
    <2> HIDE DEF handover
    <2>4. CallReleased(r, {}) BY <1>1, <2>1, <2>2, <2>3, FS_EmptySet DEF CallReleased
    <2>5. QED BY <2>4
  <1>3. CASE r \in calls /\ handover
    <2> DEFINE z == Head(concurrencyQueue[s])
    <2>1. /\ running' = [running EXCEPT ![s] = running[s]]
          /\ concurrencyQueue' = [concurrencyQueue EXCEPT ![s] = Tail(@)]
          /\ calls' = (calls \ {r}) \cup {z}
      BY <1>3 DEF ReleaseCall, RunningAfter
    <2>2. z \in Waiting(s) /\ Lists(Tail(concurrencyQueue[s]), Waiting(s) \ {z})
      BY <1>1, <1>3, ListsTail
    <2> HIDE DEF z, handover
    <2>3. z \in Reads /\ SourceOf[z] = s /\ z \notin calls /\ z # r
      BY <2>2 DEF Waiting, Holdings
    <2>4. running' = running BY <1>1, <2>1
    <2>5. \A x \in Sources : x # s => CallsOf(x)' = CallsOf(x) BY <2>1, <2>3 DEF CallsOf
    <2>6. CallsOf(s)' = (CallsOf(s) \ {r}) \cup {z} /\ r \in CallsOf(s) /\ z \notin CallsOf(s)
      BY <1>3, <2>1, <2>3 DEF CallsOf
    <2>7. Cardinality(CallsOf(s)') = Cardinality(CallsOf(s))
      <3>1. IsFiniteSet(CallsOf(s)) /\ Cardinality(CallsOf(s)) \in Nat BY <1>1, CallsFinite
      <3>2. IsFiniteSet(CallsOf(s) \ {r}) /\ Cardinality(CallsOf(s) \ {r}) = Cardinality(CallsOf(s)) - 1
        BY <2>6, <3>1, FS_RemoveElement
      <3>3. z \notin CallsOf(s) \ {r} BY <2>6
      <3>4. Cardinality((CallsOf(s) \ {r}) \cup {z}) = Cardinality(CallsOf(s) \ {r}) + 1
        BY <3>2, <3>3, FS_AddElement
      <3>5. QED BY <2>6, <3>1, <3>2, <3>4
    <2>8. \A x \in Sources : running'[x] = Cardinality(CallsOf(x)')
      BY <1>1, <2>4, <2>5, <2>7
    <2>9. Waiting(s) # {} /\ IsFiniteSet({z}) BY <2>2, FS_Singleton
    <2>10. /\ DOMAIN concurrencyQueue' = Sources /\ concurrencyQueue'[s] = Tail(concurrencyQueue[s])
           /\ \A x \in Sources : x # s => concurrencyQueue'[x] = concurrencyQueue[x]
      BY <1>1, <2>1
    <2>11. CallReleased(r, {z})
      BY <1>1, <2>1, <2>2, <2>4, <2>8, <2>9, <2>10 DEF CallReleased
    <2>12. QED BY <2>11
  <1>4. CASE r \in calls /\ ~handover
    <2>1. /\ running' = [running EXCEPT ![s] = running[s] - 1]
          /\ concurrencyQueue' = [concurrencyQueue EXCEPT ![s] = @]
          /\ calls' = (calls \ {r}) \cup {}
      BY <1>4 DEF ReleaseCall, RunningAfter
    <2>2. Waiting(s) = {}
      <3>1. ~readerOpen[s] => Waiting(s) = {} BY DEF Holdings, Waiting
      <3>2. QED BY <1>1, <1>4, <3>1, ListsEmpty
    <2> HIDE DEF handover
    <2>3. \A x \in Sources : x # s => CallsOf(x)' = CallsOf(x) BY <2>1 DEF CallsOf
    <2>4. CallsOf(s)' = CallsOf(s) \ {r} /\ r \in CallsOf(s) BY <1>4, <2>1 DEF CallsOf
    <2>5. IsFiniteSet(CallsOf(s)) /\ Cardinality(CallsOf(s)) \in Nat BY <1>1, CallsFinite
    <2>6. Cardinality(CallsOf(s)') = Cardinality(CallsOf(s)) - 1 /\ Cardinality(CallsOf(s)') \in Nat
      <3>1. IsFiniteSet(CallsOf(s) \ {r}) /\ Cardinality(CallsOf(s) \ {r}) = Cardinality(CallsOf(s)) - 1
        BY <2>4, <2>5, FS_RemoveElement
      <3>2. QED BY <2>4, <3>1, FS_CardinalityType
    <2>7. /\ running' \in [Sources -> Nat] /\ running'[s] = running[s] - 1
          /\ \A x \in Sources : x # s => running'[x] = running[x]
      BY <1>1, <2>1, <2>6
    <2>8. /\ DOMAIN concurrencyQueue' = Sources /\ concurrencyQueue'[s] = concurrencyQueue[s]
          /\ \A x \in Sources : x # s => concurrencyQueue'[x] = concurrencyQueue[x]
          /\ Waiting(s) \ {} = Waiting(s)
      BY <1>1, <2>1
    <2>9. \A x \in Sources : running'[x] = Cardinality(CallsOf(x)') /\ running'[x] <= maxConcurrency[x]
      BY <1>1, <2>3, <2>6, <2>7
    <2>10. CallReleased(r, {})
      BY <1>1, <2>1, <2>2, <2>7, <2>8, <2>9, FS_EmptySet DEF CallReleased
    <2>11. QED BY <2>10
  <1>5. QED BY <1>2, <1>3, <1>4

LEMMA FinallyStep ==
  ASSUME IInv, NEW r \in Reads, Finally(r), UNCHANGED maxConcurrency
  PROVE  IInv'
  <1> USE DEF IInv
  <1> DEFINE s == SourceOf[r]
  <1>1. /\ phase[r] = "ending" /\ r \in ready /\ ReleaseBytes(r) /\ ReleaseCall(r)
        /\ pending' = pending \ {r} /\ s \in Sources
        /\ UNCHANGED <<outcome, accessorOpen, toMain, toWorker, readerOpen, closeCalls, aborted, engineOpen>>
    BY BrokerAssumption DEF Finally, Runs, worker
  <1>2. PICK g : BytesReleased(r, g) BY <1>1, ReleaseBytesStep
  <1>3. PICK w : CallReleased(r, w) BY <1>1, ReleaseCallStep
  <1>4. /\ g \subseteq Staging /\ IsFiniteSet(g) /\ staged' = (staged \ {r}) \cup g
        /\ w \subseteq Waiting(s) /\ IsFiniteSet(w) /\ calls' = (calls \ {r}) \cup w
    BY <1>2, <1>3 DEF BytesReleased, CallReleased
  <1>5. /\ \A q \in g : q \in Reads /\ phase[q] = "staging" /\ q \in calls /\ q \notin staged /\ q # r
        /\ \A q \in w : q \in Reads /\ phase[q] = "concurrency" /\ q \notin calls /\ q \notin staged /\ q # r
    BY <1>1, <1>4 DEF Holdings, Staging, Waiting
  <1>6. calls' \ calls = w /\ staged' \ staged = g
    BY <1>4, <1>5
  <1>7. /\ phase' = [q \in Reads |-> IF q = r THEN "done" ELSE IF q \in w THEN "admitted"
                                     ELSE IF q \in g THEN "staged" ELSE phase[q]]
        /\ ready' = (ready \ {r}) \cup w \cup g
    BY <1>6 DEF Finally
  <1>8. /\ phase' \in [Reads -> Phase] /\ phase'[r] = "done"
        /\ \A q \in w : phase'[q] = "admitted"
        /\ \A q \in g : phase'[q] = "staged"
        /\ \A q \in Reads : q # r /\ q \notin w /\ q \notin g => phase'[q] = phase[q]
    BY <1>5, <1>7 DEF Typed, Phase
  <1>9. Staging' = Staging \ g BY <1>1, <1>5, <1>8 DEF Staging
  <1>10. \A x \in Sources : Waiting(x)' = Waiting(x) \ w
    <2>1. ASSUME NEW x \in Sources, NEW q \in Reads
          PROVE  (phase'[q] = "concurrency" /\ SourceOf[q] = x) <=>
                    (phase[q] = "concurrency" /\ SourceOf[q] = x /\ q \notin w)
      BY <1>1, <1>5, <1>8
    <2>2. QED BY <2>1 DEF Waiting
  <1>11. \A x \in Sources : x # s => Waiting(x)' = Waiting(x)
    BY <1>4, <1>10 DEF Waiting
  <1>12. Outstanding' = Outstanding BY <1>1 DEF Outstanding
  <1>13. Typed'
    <2>1. calls' \subseteq Reads /\ staged' \subseteq Reads BY <1>4, <1>5 DEF Typed
    <2>2. IsFiniteSet(calls \ {r}) /\ IsFiniteSet(staged \ {r}) BY FS_Subset DEF Typed
    <2>3. IsFiniteSet(calls') /\ IsFiniteSet(staged') BY <1>4, <2>2, FS_Union
    <2>4. QED BY <1>1, <1>8, <1>12, <2>1, <2>3 DEF Typed
  <1>14. Channels' BY <1>1 DEF Channels
  <1>15. Posted' BY <1>1, <1>5, <1>8, PostedStays
  <1>16. Holdings'
    <2>1. ready' = {q \in Reads : phase'[q] \in {"admitted", "staged", "calling", "rejected", "ending"}}
      BY <1>5, <1>7, <1>8 DEF Holdings
    <2>2. pending' = {q \in Reads : phase'[q] \notin {"none", "done"} /\ readerOpen[SourceOf[q]]}
      BY <1>1, <1>5, <1>8 DEF Holdings
    <2>3. ASSUME NEW q \in Reads
          PROVE  /\ phase'[q] \in {"admitted", "staging", "staged", "calling", "providing"} => q \in calls'
                 /\ phase'[q] \in {"none", "concurrency", "done"} => q \notin calls'
                 /\ phase'[q] \in {"staged", "calling", "providing"} => q \in staged'
                 /\ q \in staged' => phase'[q] \in {"staged", "calling", "providing", "ending"}
                 /\ phase'[q] \in {"concurrency", "staging"} => readerOpen[SourceOf[q]]
                 /\ phase'[q] \notin {"none", "done"} => readerOpen[SourceOf[q]] \/ q \in aborted
      <3>1. CASE q = r BY <1>4, <1>5, <1>8, <3>1
      <3>2. CASE q \in w BY <1>4, <1>5, <1>8, <3>2 DEF Holdings
      <3>3. CASE q \in g BY <1>4, <1>5, <1>8, <3>3 DEF Holdings
      <3>4. CASE q # r /\ q \notin w /\ q \notin g
        BY <1>4, <1>8, <3>4 DEF Holdings
      <3>5. QED BY <3>1, <3>2, <3>3, <3>4
    <2>4. QED BY <1>1, <2>1, <2>2, <2>3 DEF Holdings
  <1>17. Queues'
    <2>1. ASSUME NEW x \in Sources PROVE Lists(concurrencyQueue'[x], Waiting(x)')
      <3>1. CASE x = s BY <1>3, <1>10, <3>1 DEF CallReleased
      <3>2. CASE x # s BY <1>3, <1>11, <3>2 DEF CallReleased, Queues
      <3>3. QED BY <3>1, <3>2
    <2>2. Lists(stagingQueue', Staging') BY <1>2, <1>9 DEF BytesReleased
    <2>3. QED BY <1>3, <2>1, <2>2 DEF Queues, CallReleased
  <1>18. Bytes' BY <1>1, <1>2, <1>9 DEF Bytes, BytesReleased
  <1>19. Counted'
    <2>1. running' \in [Sources -> Nat]
          /\ \A x \in Sources : running'[x] = Cardinality(CallsOf(x)') /\ running'[x] <= maxConcurrency[x]
      BY <1>3 DEF CallReleased
    <2>2. ASSUME NEW x \in Sources, Waiting(x)' # {} PROVE running'[x] = maxConcurrency[x]
      <3>1. CASE x = s BY <1>3, <1>10, <2>2, <3>1 DEF CallReleased
      <3>2. CASE x # s BY <1>3, <1>11, <2>2, <3>2 DEF CallReleased, Counted
      <3>3. QED BY <3>1, <3>2
    <2>3. QED BY <2>1, <2>2 DEF Counted
  <1>20. Ends'
    <2>1. \A q \in Reads : phase'[q] = "rejected" => phase[q] = "rejected" BY <1>5, <1>8
    <2>2. QED BY <1>1, <2>1 DEF Ends, ClosedOnce
  <1>21. Answering'
    <2>1. ASSUME NEW q \in Outstanding, readerOpen[SourceOf[q]]
          PROVE  \/ phase'[q] = phase[q] \/ phase'[q] \in Live
                 \/ \E i \in 1..Len(toWorker) : toWorker[i] \in {Msg("bytes", q), Msg("failure", q)}
      <3>1. CASE q = r BY <1>1, <2>1, <3>1 DEF Answering
      <3>2. CASE q # r BY <1>8, <3>2 DEF Live, Outstanding
      <3>3. QED BY <3>1, <3>2
    <2>2. QED BY <1>1, <2>1, AnsweringStays
  <1>22. QED BY <1>13, <1>14, <1>15, <1>16, <1>17, <1>18, <1>19, <1>20, <1>21

-----------------------------------------------------------------------------
LEMMA NextInv == IInv /\ [Next]_vars => IInv'
  <1> SUFFICES ASSUME IInv, [Next]_vars PROVE IInv' OBVIOUS
  <1>1. CASE UNCHANGED vars
    <2>1. UNCHANGED <<maxConcurrency, main>> /\ UNCHANGED <<outcome, accessorOpen, toMain, toWorker>>
      BY <1>1 DEF vars, main
    <2>2. Holdings' /\ Queues' /\ Bytes' /\ Counted' BY <2>1, MainUntouched
    <2>3. Typed' /\ Channels' /\ Posted' /\ Ends' /\ Answering'
      BY <2>1 DEF IInv, Typed, Channels, Posted, Ends, ClosedOnce, Answering, Outstanding, main
    <2>4. QED BY <2>2, <2>3 DEF IInv
  <1>2. CASE Next
    <2>1. Step /\ UNCHANGED maxConcurrency BY <1>2 DEF Next
    <2>2. ASSUME NEW r \in Reads, WorkerRead(r) \/ WorkerCancel(r) PROVE IInv'
      BY <2>1, <2>2, WorkerReadStep, WorkerCancelStep
    <2>3. ASSUME NEW r \in Reads, Microtask(r) PROVE IInv'
      BY <2>1, <2>3, AcquireBytesStep, RecheckStep, CallProviderStep, RejectedStep, FinallyStep DEF Microtask
    <2>4. ASSUME NEW r \in Reads, ProviderSettles(r) PROVE IInv'
      BY <2>1, <2>4, ProviderResolvesStep, ProviderRejectsStep DEF ProviderSettles
    <2>5. ASSUME NEW s \in Sources, WorkerClose(s) PROVE IInv' BY <2>1, <2>5, WorkerCloseStep
    <2>6. CASE WorkerReceive BY <2>1, <2>6, WorkerReceiveStep
    <2>7. CASE MainReceive BY <2>1, <2>7, MainReceiveStep
    <2>8. CASE EngineStops BY <2>1, <2>8, EngineStopsStep
    <2>9. QED BY <2>1, <2>2, <2>3, <2>4, <2>5, <2>6, <2>7, <2>8 DEF Step
  <1>3. QED BY <1>1, <1>2

LEMMA Invariance == Spec => []IInv
  BY InitInv, NextInv, PTL DEF Spec

(* Calls, staging bytes, queues and readers of the main thread are all     *)
(* accounted for: no end of a read leaks a permit, no limiter is overdrawn *)
(* and each provider is closed once (closeSourceReader, runSourceRead).    *)
THEOREM BrokerAccounts == Spec => []BrokerInv
  <1>1. IInv => BrokerInv BY Tied
  <1>2. QED BY <1>1, Invariance, PTL

(* A read of an open reader is always under way towards an answer, and it  *)
(* waits only for capacity that others really hold: neither limiter loses  *)
(* a wakeup (#drain and #release).                                         *)
THEOREM BrokerAdvances == Spec => []ReadsAdvance
  <1>1. IInv => ReadsAdvance BY Tied
  <1>2. QED BY <1>1, Invariance, PTL

-----------------------------------------------------------------------------
LEMMA Contained == IInv => HostWorkContained
  <1> SUFFICES ASSUME IInv PROVE HostWorkContained OBVIOUS
  <1> USE DEF IInv
  <1>1. ASSUME NEW s \in Sources PROVE Cardinality(UserCalls(s)) <= maxConcurrency[s]
    <2>1. UserCalls(s) \subseteq CallsOf(s) BY DEF UserCalls, CallsOf, Holdings
    <2>2. CallsOf(s) \subseteq calls /\ IsFiniteSet(calls) BY DEF CallsOf, Typed
    <2>3. IsFiniteSet(CallsOf(s)) BY <2>2, FS_Subset
    <2>4. /\ Cardinality(UserCalls(s)) <= Cardinality(CallsOf(s)) /\ Cardinality(CallsOf(s)) \in Nat
          /\ Cardinality(UserCalls(s)) \in Nat
      BY <2>1, <2>3, FS_Subset, FS_CardinalityType
    <2>5. running[s] = Cardinality(CallsOf(s)) /\ running[s] <= maxConcurrency[s] /\ maxConcurrency[s] \in 1..4
      BY DEF Counted, Typed
    <2>6. QED BY <2>4, <2>5
  <1>2. BytesOf(UNION {UserCalls(s) : s \in Sources}) <= Capacity
    <2> DEFINE U == UNION {UserCalls(s) : s \in Sources}
    <2>1. U \subseteq staged /\ U \subseteq Reads BY DEF UserCalls, Holdings
    <2> HIDE DEF U
    <2>2. NatOn(Length, staged) /\ IsFiniteSet(staged) BY StagedNat DEF Typed
    <2> DEFINE R == staged \ U
    <2>3. U \cup R = staged /\ U \cap R = {} /\ R \subseteq staged BY <2>1
    <2>f. IsFiniteSet(U) /\ IsFiniteSet(R) BY <2>1, <2>2, <2>3, FS_Subset
    <2>4. NatOn(Length, U) /\ NatOn(Length, R) BY <2>1, <2>2, <2>3, <2>f DEF NatOn
    <2> HIDE DEF R
    <2>5. Total(Length, U \cup R) = Total(Length, U) + Total(Length, R)
          /\ Total(Length, U) \in Nat /\ Total(Length, R) \in Nat
      BY <2>3, <2>4, TotalUnion, TotalType
    <2>6. BytesOf(U) = Total(Length, U) BY TotalFold DEF BytesOf
    <2>7. used = Total(Length, staged) /\ used <= Capacity /\ Capacity \in Nat
      BY BrokerAssumption DEF Bytes
    <2>8. BytesOf(U) <= Capacity BY <2>3, <2>5, <2>6, <2>7
    <2>9. QED BY <2>8 DEF U
  <1>3. ASSUME Quiet, NEW r \in Reads, ~readerOpen[SourceOf[r]]
        PROVE  phase[r] \in {"none", "providing", "done"}
    BY <1>3 DEF Quiet, Holdings, Typed, Phase
  <1>4. QED BY <1>1, <1>2, <1>3 DEF HostWorkContained

(* Work in user code is contained however reads end: the calls of a source *)
(* that are on their way or running, those of cancelled and closed reads   *)
(* included, never exceed its maxConcurrency nor the staging budget, since *)
(* the permits go back only in the finally block of runSourceRead; and a   *)
(* closed reader leaves no waiter that could call user code later.         *)
THEOREM UserCodeIsContained == Spec => []HostWorkContained
  <1>1. IInv => HostWorkContained BY Contained
  <1>2. QED BY <1>1, Invariance, PTL
=============================================================================
