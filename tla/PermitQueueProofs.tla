-------------------------- MODULE PermitQueueProofs --------------------------
(***************************************************************************)
(* The permit queue keeps PermitInv for any set of keys and any limits.    *)
(* PermitInv is inductive as it stands.  The one idea: NoLostWakeup means  *)
(* that #wakeWaiters never has more than one permit to hand out, so every  *)
(* step moves at most one key into and one key out of Holders.             *)
(***************************************************************************)
EXTENDS PermitQueue, FiniteSetTheorems, SequenceTheorems, TLAPS

(* The keys in a given permit state form a finite set. *)
LEMMA HoldersFinite == IsFiniteSet(Holders)
  <1>1. Holders \subseteq Keys BY DEF Holders
  <1>2. QED BY <1>1, PermitAssumption, FS_Subset

(* A key that enters the set of holders raises its size by one. *)
LEMMA HolderAdded ==
  ASSUME NEW k, k \notin Holders, PermitAccounting
  PROVE  Cardinality(Holders \cup {k}) = active + 1
  BY HoldersFinite, FS_AddElement DEF PermitAccounting

(* A key that leaves it lowers its size by one. *)
LEMMA HolderRemoved ==
  ASSUME NEW k \in Holders, PermitAccounting
  PROVE  Cardinality(Holders \ {k}) = active - 1
  BY HoldersFinite, FS_RemoveElement DEF PermitAccounting

(* The initial state has no permit out and an empty queue. *)
LEMMA PermitInit == Init => PermitInv
  <1> SUFFICES ASSUME Init PROVE PermitInv
    OBVIOUS
  <1>1. TypeOK BY DEF Init, TypeOK, PermitState
  <1>2. PermitAccounting
    <2>1. Holders = {} BY DEF Init, Holders
    <2>2. QED BY <2>1, FS_EmptySet DEF Init, PermitAccounting
  <1>3. Bounded BY PermitAssumption DEF Init, Bounded
  <1>4. NoLostWakeup BY DEF Init, NoLostWakeup
  <1>5. QueueIsPending BY DEF Init, QueueIsPending, Queued
  <1>6. QED BY <1>1, <1>2, <1>3, <1>4, <1>5 DEF PermitInv

(* acquire with a free permit. *)
LEMMA AcquireNowStep ==
  ASSUME PermitInv, NEW k \in Keys, AcquireNow(k)
  PROVE  PermitInv'
  <1> USE DEF PermitInv
  <1>0. waiters = <<>> BY PermitAssumption DEF AcquireNow, NoLostWakeup, TypeOK
  <1>1. TypeOK' BY DEF AcquireNow, TypeOK, PermitState
  <1>2. PermitAccounting'
    <2>1. k \notin Holders BY DEF AcquireNow, Holders
    <2>2. Holders' = Holders \cup {k} BY DEF AcquireNow, Holders, TypeOK
    <2>3. QED BY <2>1, <2>2, HolderAdded DEF AcquireNow, PermitAccounting
  <1>3. Bounded' BY PermitAssumption DEF AcquireNow, Bounded, TypeOK
  <1>4. NoLostWakeup' BY <1>0 DEF AcquireNow, NoLostWakeup
  <1>5. QueueIsPending'
    BY <1>0 DEF AcquireNow, QueueIsPending, Queued, TypeOK
  <1>6. QED BY <1>1, <1>2, <1>3, <1>4, <1>5

(* acquire on a full queue. *)
LEMMA AcquireFullStep ==
  ASSUME PermitInv, NEW k \in Keys, AcquireFull(k)
  PROVE  PermitInv'
  <1> USE DEF PermitInv
  <1>1. TypeOK' BY DEF AcquireFull, TypeOK, PermitState
  <1>2. Holders' = Holders BY DEF AcquireFull, Holders, TypeOK
  <1>3. Queued' = Queued BY DEF AcquireFull, Queued, TypeOK
  <1>4. PermitAccounting' BY <1>2 DEF AcquireFull, PermitAccounting
  <1>5. Bounded' BY DEF AcquireFull, Bounded
  <1>6. NoLostWakeup' BY DEF AcquireFull, NoLostWakeup
  <1>7. QueueIsPending' BY <1>3 DEF AcquireFull, QueueIsPending
  <1>8. QED BY <1>1, <1>4, <1>5, <1>6, <1>7

(* acquire that joins the queue. *)
LEMMA AcquireWaitStep ==
  ASSUME PermitInv, NEW k \in Keys, AcquireWait(k)
  PROVE  PermitInv'
  <1> USE DEF PermitInv
  <1>0. /\ Len(waiters') = Len(waiters) + 1
        /\ \A i \in 1..Len(waiters) : waiters'[i] = waiters[i]
        /\ waiters'[Len(waiters) + 1] = k
    BY DEF AcquireWait, TypeOK
  <1>1. TypeOK' BY DEF AcquireWait, TypeOK, PermitState
  <1>2. Holders' = Holders BY DEF AcquireWait, Holders, TypeOK
  <1>3. Queued' = Queued \cup {k} BY DEF AcquireWait, Queued, TypeOK
  <1>4. PermitAccounting' BY <1>2 DEF AcquireWait, PermitAccounting
  <1>5. Bounded' BY <1>0, PermitAssumption DEF AcquireWait, Bounded, TypeOK
  <1>6. NoLostWakeup'
    BY PermitAssumption DEF AcquireWait, NoLostWakeup, Bounded, TypeOK
  <1>7. QueueIsPending'
    <2>1. k \notin Queued BY DEF AcquireWait, Queued
    <2>2. \A i \in 1..Len(waiters) : waiters[i] # k
      BY <2>1 DEF QueueIsPending
    <2>3. \A i \in 1..Len(waiters') : i \in 1..Len(waiters) \/ i = Len(waiters) + 1
      BY <1>0 DEF TypeOK
    <2>4. Len(waiters) \in Nat BY DEF TypeOK
    <2>5. \A i, j \in 1..Len(waiters') : waiters'[i] = waiters'[j] => i = j
      BY <1>0, <2>2, <2>3, <2>4 DEF QueueIsPending
    <2>6. {waiters'[i] : i \in 1..Len(waiters')}
            = {waiters[i] : i \in 1..Len(waiters)} \cup {k}
      BY <1>0, <2>3, <2>4
    <2>7. QED BY <1>3, <2>5, <2>6 DEF QueueIsPending
  <1>8. QED BY <1>1, <1>4, <1>5, <1>6, <1>7

(* What #wakeWaiters does once it is known how many it wakes. *)
LEMMA Woken ==
  ASSUME NEW a, NEW w, NEW p, NEW n, WakeWaiters(a, w, p), WakeCount(a, w) = n
  PROVE  /\ active' = a + n
         /\ waiters' = SubSeq(w, n + 1, Len(w))
         /\ permit' = [x \in Keys |-> IF x \in {w[j] : j \in 1..n} THEN "held" ELSE p[x]]
  BY Zenon DEF WakeWaiters

(* A queue without one of its entries: what is left, in order. *)
LEMMA WithoutFacts ==
  ASSUME NEW q \in Seq(Keys), NEW i \in 1..Len(q)
  PROVE  /\ Without(q, i) \in Seq(Keys)
         /\ Len(Without(q, i)) = Len(q) - 1
         /\ \A j \in 1..(i - 1) : Without(q, i)[j] = q[j]
         /\ \A j \in i..(Len(q) - 1) : Without(q, i)[j] = q[j + 1]
  <1> DEFINE L == Len(q)
             a == SubSeq(q, 1, i - 1)
             b == SubSeq(q, i + 1, L)
  <1>0. L \in Nat /\ i \in 1..L /\ \A j \in 1..L : q[j] \in Keys
    OBVIOUS
  <1>1. /\ a \in Seq(Keys) /\ Len(a) = i - 1
        /\ \A j \in 1..(i - 1) : a[j] = q[j]
    <2> HIDE DEF L
    <2>1. \A j \in 1..(i - 1) : q[j] \in Keys BY <1>0
    <2>2. /\ a \in Seq(Keys)
          /\ Len(a) = IF 1 <= i - 1 THEN (i - 1) - 1 + 1 ELSE 0
          /\ \A j \in 1..((i - 1) - 1 + 1) : a[j] = q[1 + j - 1]
      BY <1>0, <2>1, SubSeqProperties
    <2>3. \A j \in 1..(i - 1) : j \in 1..((i - 1) - 1 + 1) /\ 1 + j - 1 = j BY <1>0
    <2>4. QED BY <1>0, <2>2, <2>3
  <1>2. /\ b \in Seq(Keys) /\ Len(b) = L - i
        /\ \A j \in 1..(L - i) : b[j] = q[j + i]
    <2> HIDE DEF L
    <2>1. \A j \in (i + 1)..L : q[j] \in Keys BY <1>0
    <2>2. /\ b \in Seq(Keys)
          /\ Len(b) = IF i + 1 <= L THEN L - (i + 1) + 1 ELSE 0
          /\ \A j \in 1..(L - (i + 1) + 1) : b[j] = q[(i + 1) + j - 1]
      BY <1>0, <2>1, SubSeqProperties
    <2>3. \A j \in 1..(L - i) : j \in 1..(L - (i + 1) + 1) /\ (i + 1) + j - 1 = j + i
      BY <1>0
    <2>4. QED BY <1>0, <2>2, <2>3
  <1>3. Without(q, i) = a \o b BY DEF Without
  <1> HIDE DEF a, b, L
  <1>4. /\ a \o b \in Seq(Keys)
        /\ Len(a \o b) = Len(a) + Len(b)
        /\ \A j \in 1..(Len(a) + Len(b)) :
              (a \o b)[j] = IF j <= Len(a) THEN a[j] ELSE b[j - Len(a)]
    BY <1>1, <1>2, ConcatProperties
  <1>5. \A j \in 1..(i - 1) : (a \o b)[j] = q[j]
    <2> TAKE j \in 1..(i - 1)
    <2>1. j \in 1..(Len(a) + Len(b)) /\ j <= Len(a) BY <1>0, <1>1, <1>2
    <2>2. QED BY <1>1, <1>4, <2>1
  <1>6. \A j \in i..(L - 1) : (a \o b)[j] = q[j + 1]
    <2> TAKE j \in i..(L - 1)
    <2>1. /\ j \in 1..(Len(a) + Len(b)) /\ ~(j <= Len(a))
          /\ j - Len(a) \in 1..(L - i) /\ (j - Len(a)) + i = j + 1
      BY <1>0, <1>1, <1>2
    <2>2. QED BY <1>2, <1>4, <2>1
  <1>7. QED BY <1>0, <1>1, <1>2, <1>3, <1>4, <1>5, <1>6 DEF L

(* cancel of a queued key: all permits are out, so nobody is woken. *)
LEMMA CancelStep ==
  ASSUME PermitInv, NEW k \in Keys, Cancel(k)
  PROVE  PermitInv'
  <1> USE DEF PermitInv
  <1>1. PICK i \in 1..Len(waiters) :
          /\ waiters[i] = k
          /\ WakeWaiters(active, Without(waiters, i), [permit EXCEPT ![k] = "refused"])
    BY DEF Cancel
  <1> DEFINE q == Without(waiters, i)
             L == Len(waiters)
  <1>2. /\ q \in Seq(Keys) /\ Len(q) = L - 1 /\ L \in Nat
        /\ \A j \in 1..(i - 1) : q[j] = waiters[j]
        /\ \A j \in i..(L - 1) : q[j] = waiters[j + 1]
    BY WithoutFacts DEF TypeOK
  <1>3. active = MaxActive /\ active \in Nat
    <2>1. waiters # <<>> BY <1>1 DEF TypeOK
    <2>2. QED BY <2>1 DEF NoLostWakeup, TypeOK
  <1>4. WakeCount(active, q) = 0
    BY <1>2, <1>3 DEF WakeCount, Min2
  <1>5. /\ active' = active /\ waiters' = q
        /\ permit' = [permit EXCEPT ![k] = "refused"]
    <2> HIDE DEF q
    <2>1. /\ active' = active + 0
          /\ waiters' = SubSeq(q, 0 + 1, Len(q))
          /\ permit' = [x \in Keys |-> IF x \in {q[j] : j \in 1..0} THEN "held"
                                       ELSE [permit EXCEPT ![k] = "refused"][x]]
      <3> HIDE DEF PermitInv
      <3> DEFINE p == [permit EXCEPT ![k] = "refused"]
      <3>1. WakeWaiters(active, q, p) BY <1>1 DEF q
      <3> HIDE DEF p
      <3>2. /\ active' = active + 0
            /\ waiters' = SubSeq(q, 0 + 1, Len(q))
            /\ permit' = [x \in Keys |-> IF x \in {q[j] : j \in 1..0} THEN "held" ELSE p[x]]
        BY <3>1, <1>4, Zenon DEF WakeWaiters
      <3>3. QED BY <3>2, Zenon DEF p
    <2>2. {q[j] : j \in 1..0} = {} OBVIOUS
    <2>3. SubSeq(q, 0 + 1, Len(q)) = q BY <1>2, SubSeqFull
    <2>4. permit' = [permit EXCEPT ![k] = "refused"] BY <2>1, <2>2 DEF TypeOK
    <2>5. active' = active BY <2>1, <1>3
    <2>6. QED BY <2>1, <2>3, <2>4, <2>5
  <1>6. permit[k] = "queued" BY <1>1 DEF QueueIsPending, Queued
  <1>7. TypeOK' BY <1>2, <1>5 DEF TypeOK, PermitState
  <1>8. Holders' = Holders BY <1>5, <1>6 DEF Holders, TypeOK
  <1>9. Queued' = Queued \ {k} BY <1>5, <1>6 DEF Queued, TypeOK
  <1>10. PermitAccounting' BY <1>5, <1>8 DEF PermitAccounting
  <1>11. Bounded' BY <1>2, <1>5, PermitAssumption DEF Bounded, TypeOK
  <1>12. NoLostWakeup' BY <1>3, <1>5 DEF NoLostWakeup
  <1>13. QueueIsPending'
    <2> HIDE DEF q, L
    <2>1. \A j \in 1..Len(q) : j \in 1..(i - 1) \/ j \in i..(L - 1)
      BY <1>2
    <2>2. \A a, b \in 1..L : waiters[a] = waiters[b] => a = b
      BY DEF QueueIsPending, L
    <2>3. \A a, b \in 1..Len(q) : q[a] = q[b] => a = b
      BY <1>2, <2>1, <2>2
    <2>4. {q[j] : j \in 1..Len(q)} = {waiters[j] : j \in 1..L} \ {k}
      <3>1. \A j \in 1..Len(q) : q[j] \in {waiters[a] : a \in 1..L} \ {k}
        <4> TAKE j \in 1..Len(q)
        <4>0. i \in 1..L BY DEF L
        <4>1. CASE j \in 1..(i - 1)
          <5>1. j \in 1..L /\ j # i BY <1>2, <4>0, <4>1
          <5>2. waiters[j] # k BY <1>1, <2>2, <4>0, <5>1
          <5>3. QED BY <1>2, <4>1, <5>1, <5>2
        <4>2. CASE j \in i..(L - 1)
          <5>1. j + 1 \in 1..L /\ j + 1 # i BY <1>2, <4>0, <4>2
          <5>2. waiters[j + 1] # k BY <1>1, <2>2, <4>0, <5>1
          <5>3. QED BY <1>2, <4>2, <5>1, <5>2
        <4>3. QED BY <2>1, <4>1, <4>2
      <3>2. \A a \in 1..L : waiters[a] # k => waiters[a] \in {q[j] : j \in 1..Len(q)}
        <4> SUFFICES ASSUME NEW a \in 1..L, waiters[a] # k
                     PROVE  \E j \in 1..Len(q) : q[j] = waiters[a]
          OBVIOUS
        <4>0. a # i /\ i \in 1..L BY <1>1 DEF L
        <4>1. CASE a < i
          <5>1. a \in 1..(i - 1) /\ a \in 1..Len(q) BY <1>2, <4>0, <4>1
          <5>2. QED BY <1>2, <5>1
        <4>2. CASE a > i
          <5>1. a - 1 \in i..(L - 1) /\ a - 1 \in 1..Len(q) /\ (a - 1) + 1 = a
            BY <1>2, <4>0, <4>2
          <5>2. QED BY <1>2, <5>1
        <4>3. QED BY <4>0, <4>1, <4>2, <1>2
      <3>3. QED BY <3>1, <3>2
    <2>5. waiters' = q BY <1>5
    <2>6. \A a, b \in 1..Len(waiters') : waiters'[a] = waiters'[b] => a = b
      BY <2>3, <2>5
    <2>7. Queued = {waiters[j] : j \in 1..L} BY DEF QueueIsPending, L
    <2>8. Queued' = {waiters'[j] : j \in 1..Len(waiters')}
      <3> HIDE DEF PermitInv
      <3>1. QED BY <1>9, <2>4, <2>5, <2>7, Zenon
    <2>9. QED BY <2>6, <2>8 DEF QueueIsPending
  <1>14. QED BY <1>7, <1>10, <1>11, <1>12, <1>13

(* release with nobody waiting: one holder fewer. *)
LEMMA ReleaseIdle ==
  ASSUME PermitInv, NEW k \in Keys, Release(k), waiters = <<>>
  PROVE  PermitInv'
  <1> USE DEF PermitInv
  <1> DEFINE p == [permit EXCEPT ![k] = "released"]
  <1>0. active \in Nat /\ active > 0 /\ k \in Holders
    <2>1. k \in Holders BY DEF Release, Holders
    <2>2. Cardinality(Holders \ {k}) = active - 1 BY <2>1, HolderRemoved
    <2>3. Cardinality(Holders \ {k}) \in Nat
      BY HoldersFinite, FS_RemoveElement, FS_CardinalityType
    <2>4. QED BY <2>1, <2>2, <2>3 DEF TypeOK
  <1>1. WakeCount(active - 1, waiters) = 0
    BY <1>0, PermitAssumption DEF WakeCount, Min2, Bounded
  <1>2. active' = active - 1 /\ waiters' = <<>> /\ permit' = p
    <2>1. /\ active' = active - 1 + 0
          /\ waiters' = SubSeq(waiters, 0 + 1, Len(waiters))
          /\ permit' = [x \in Keys |-> IF x \in {waiters[j] : j \in 1..0} THEN "held" ELSE p[x]]
      <3> HIDE DEF PermitInv
      <3>1. WakeWaiters(active - 1, waiters, p) BY DEF Release
      <3> HIDE DEF p
      <3>2. QED BY <3>1, <1>1, Woken
    <2>2. {waiters[j] : j \in 1..0} = {} OBVIOUS
    <2>3. permit' = p BY <2>1, <2>2 DEF TypeOK
    <2>4. SubSeq(waiters, 0 + 1, Len(waiters)) = <<>> BY SubSeqEmpty
    <2>5. active' = active - 1 BY <1>0, <2>1
    <2>6. QED BY <2>1, <2>3, <2>4, <2>5
  <1>3. TypeOK' BY <1>0, <1>2 DEF TypeOK, PermitState
  <1>4. PermitAccounting'
    <2>1. Holders' = Holders \ {k} BY <1>2 DEF Holders, TypeOK
    <2>2. QED BY <1>0, <1>2, <2>1, HolderRemoved DEF PermitAccounting
  <1>5. Bounded' BY <1>0, <1>2, PermitAssumption DEF Bounded
  <1>6. NoLostWakeup' BY <1>2 DEF NoLostWakeup
  <1>7. QueueIsPending'
    <2>1. Queued' = Queued BY <1>0, <1>2 DEF Queued, Holders, TypeOK
    <2>2. QED BY <1>2, <2>1 DEF QueueIsPending
  <1>8. QED BY <1>3, <1>4, <1>5, <1>6, <1>7

(* release with somebody waiting: the permit passes to the oldest waiter. *)
LEMMA ReleaseHandover ==
  ASSUME PermitInv, NEW k \in Keys, Release(k), waiters # <<>>
  PROVE  PermitInv'
  <1> USE DEF PermitInv
  <1> DEFINE p == [permit EXCEPT ![k] = "released"]
             h == waiters[1]
             L == Len(waiters)
             t == SubSeq(waiters, 2, L)
  <1>0. /\ L \in Nat /\ L >= 1 /\ h \in Keys
        /\ active = MaxActive /\ active \in Nat /\ active > 0
        /\ permit[h] = "queued" /\ permit[k] = "held" /\ h # k
    <2>1. L \in Nat /\ L >= 1 /\ h \in Keys BY DEF TypeOK
    <2>2. h \in Queued BY <2>1 DEF QueueIsPending
    <2>3. permit[h] = "queued" /\ permit[k] = "held" BY <2>2 DEF Queued, Release
    <2>4. h # k BY <2>3
    <2>5. QED BY <2>1, <2>3, <2>4, PermitAssumption DEF NoLostWakeup, TypeOK
  <1>1. WakeCount(active - 1, waiters) = 1
    BY <1>0 DEF WakeCount, Min2
  <1>2. /\ active' = active /\ waiters' = t
        /\ permit' = [p EXCEPT ![h] = "held"]
    <2>1. /\ active' = active - 1 + 1
          /\ waiters' = SubSeq(waiters, 1 + 1, L)
          /\ permit' = [x \in Keys |-> IF x \in {waiters[j] : j \in 1..1} THEN "held" ELSE p[x]]
      <3> HIDE DEF PermitInv
      <3>1. WakeWaiters(active - 1, waiters, p) BY DEF Release
      <3> HIDE DEF p
      <3>2. QED BY <3>1, <1>1, Woken
    <2>2. {waiters[j] : j \in 1..1} = {h}
      <3>1. 1..1 = {1} OBVIOUS
      <3>2. QED BY <3>1
    <2>3. permit' = [p EXCEPT ![h] = "held"] BY <2>1, <2>2, <1>0 DEF TypeOK
    <2>4. active' = active BY <1>0, <2>1
    <2>5. 1 + 1 = 2 OBVIOUS
    <2>6. waiters' = t BY <2>1, <2>5
    <2>7. QED BY <2>3, <2>4, <2>6
  <1>3. /\ t \in Seq(Keys) /\ Len(t) = L - 1
        /\ \A j \in 1..(L - 1) : t[j] = waiters[j + 1]
    <2>1. \A j \in 2..L : waiters[j] \in Keys BY <1>0 DEF TypeOK
    <2>2. /\ t \in Seq(Keys)
          /\ Len(t) = IF 2 <= L THEN L - 2 + 1 ELSE 0
          /\ \A j \in 1..(L - 2 + 1) : t[j] = waiters[2 + j - 1]
      BY <1>0, <2>1, SubSeqProperties
    <2>3. \A j \in 1..(L - 1) : j \in 1..(L - 2 + 1) /\ 2 + j - 1 = j + 1 BY <1>0
    <2> HIDE DEF t, L
    <2>4. QED BY <1>0, <2>2, <2>3
  <1> HIDE DEF t, L, h
  <1>4. TypeOK' BY <1>0, <1>2, <1>3 DEF TypeOK, PermitState
  <1>5. PermitAccounting'
    <2>1. Holders' = (Holders \ {k}) \cup {h} BY <1>0, <1>2 DEF Holders, TypeOK
    <2>2. k \in Holders /\ h \notin Holders BY <1>0 DEF Holders
    <2>3. Cardinality(Holders \ {k}) = active - 1 /\ IsFiniteSet(Holders \ {k})
      BY <2>2, HolderRemoved, HoldersFinite, FS_RemoveElement
    <2>4. Cardinality((Holders \ {k}) \cup {h}) = (active - 1) + 1
      BY <2>2, <2>3, FS_AddElement
    <2>5. QED BY <1>0, <1>2, <2>1, <2>4 DEF PermitAccounting
  <1>6. Bounded' BY <1>0, <1>2, <1>3, PermitAssumption DEF Bounded, L
  <1>7. NoLostWakeup' BY <1>0, <1>2 DEF NoLostWakeup
  <1>8. QueueIsPending'
    <2>1. Queued' = Queued \ {h} BY <1>0, <1>2 DEF Queued, TypeOK
    <2>2. \A a, b \in 1..L : waiters[a] = waiters[b] => a = b
      BY DEF QueueIsPending, L
    <2>3. \A a, b \in 1..Len(t) : t[a] = t[b] => a = b
      <3> TAKE a, b \in 1..Len(t)
      <3>1. a + 1 \in 1..L /\ b + 1 \in 1..L /\ a \in 1..(L - 1) /\ b \in 1..(L - 1)
        BY <1>0, <1>3
      <3>2. t[a] = waiters[a + 1] /\ t[b] = waiters[b + 1] BY <1>3, <3>1
      <3>3. t[a] = t[b] => a + 1 = b + 1 BY <2>2, <3>1, <3>2
      <3>4. QED BY <3>1, <3>3
    <2>4. \A j \in 1..Len(t) : t[j] \in {waiters[a] : a \in 1..L} \ {h}
      <3> TAKE j \in 1..Len(t)
      <3>1. /\ j + 1 \in 1..L /\ 1 \in 1..L /\ j + 1 # 1 /\ j \in 1..(L - 1)
        BY <1>0, <1>3
      <3>2. waiters[j + 1] # h BY <2>2, <3>1 DEF h
      <3>3. QED BY <1>3, <3>1, <3>2
    <2>5. \A a \in 1..L : waiters[a] # h => waiters[a] \in {t[j] : j \in 1..Len(t)}
      <3> SUFFICES ASSUME NEW a \in 1..L, waiters[a] # h
                   PROVE  \E j \in 1..Len(t) : t[j] = waiters[a]
        OBVIOUS
      <3>1. a # 1 BY DEF h
      <3>2. a - 1 \in 1..(L - 1) /\ a - 1 \in 1..Len(t) /\ (a - 1) + 1 = a
        BY <1>0, <1>3, <3>1
      <3>3. QED BY <1>3, <3>2
    <2>6. {t[j] : j \in 1..Len(t)} = {waiters[a] : a \in 1..L} \ {h}
      BY <2>4, <2>5
    <2>7. Queued' = {t[j] : j \in 1..Len(t)}
      BY <2>1, <2>6 DEF QueueIsPending, L
    <2>8. QED BY <1>2, <2>3, <2>7 DEF QueueIsPending
  <1>9. QED BY <1>4, <1>5, <1>6, <1>7, <1>8

(* Every reachable state of the permit queue satisfies PermitInv: the      *)
(* counter equals the number of permits out, never exceeds maxActive, and  *)
(* nobody waits while a permit is free (js/range-cache.ts 26-86).          *)
THEOREM PermitQueueCorrect == Spec => []PermitInv
  <1>1. PermitInv /\ [Next]_vars => PermitInv'
    <2> SUFFICES ASSUME PermitInv, [Next]_vars PROVE PermitInv'
      OBVIOUS
    <2>1. CASE UNCHANGED vars
      BY <2>1 DEF vars, PermitInv, TypeOK, PermitAccounting, Bounded, NoLostWakeup,
                  QueueIsPending, Holders, Queued
    <2>2. ASSUME NEW k \in Keys, Acquire(k) PROVE PermitInv'
      BY <2>2, AcquireNowStep, AcquireFullStep, AcquireWaitStep DEF Acquire
    <2>3. ASSUME NEW k \in Keys, Cancel(k) PROVE PermitInv'
      BY <2>3, CancelStep
    <2>4. ASSUME NEW k \in Keys, Release(k) PROVE PermitInv'
      BY <2>4, ReleaseIdle, ReleaseHandover
    <2>5. QED BY <2>1, <2>2, <2>3, <2>4 DEF Next
  <1>2. QED BY PermitInit, <1>1, PTL DEF Spec

(* The permit counter of AsyncPermitQueue is the number of release         *)
(* closures still out, whatever the order of acquire, cancel and release.  *)
THEOREM PermitsExact == Spec => []PermitAccounting
  <1>1. PermitInv => PermitAccounting BY DEF PermitInv
  <1>2. QED BY PermitQueueCorrect, <1>1, PTL

(* Neither limit of AsyncPermitQueue is ever exceeded. *)
THEOREM LimitsHold == Spec => []Bounded
  <1>1. PermitInv => Bounded BY DEF PermitInv
  <1>2. QED BY PermitQueueCorrect, <1>1, PTL

(* Nobody waits in AsyncPermitQueue while a permit is free. *)
THEOREM WakeupsKept == Spec => []NoLostWakeup
  <1>1. PermitInv => NoLostWakeup BY DEF PermitInv
  <1>2. QED BY PermitQueueCorrect, <1>1, PTL

(* The queue of AsyncPermitQueue is exactly the pending promises. *)
THEOREM QueueExact == Spec => []QueueIsPending
  <1>1. PermitInv => QueueIsPending BY DEF PermitInv
  <1>2. QED BY PermitQueueCorrect, <1>1, PTL

(* A key in the queue has a pending promise, so it holds nothing yet. *)
LEMMA WaitersPending ==
  ASSUME PermitInv, NEW j \in 1..Len(waiters)
  PROVE  /\ waiters[j] \in Keys
         /\ permit[waiters[j]] = "queued"
         /\ active = MaxActive
  <1>1. waiters[j] \in Queued BY DEF PermitInv, QueueIsPending
  <1>2. waiters # <<>> BY DEF PermitInv, TypeOK
  <1>3. QED BY <1>1, <1>2 DEF PermitInv, NoLostWakeup, Queued

(* #wakeWaiters of AsyncPermitQueue serves waiters in their order of       *)
(* arrival, whoever is cancelled or releases in between.                   *)
THEOREM GrantsInOrder == Spec => FifoGrant
  <1> DEFINE Fifo == \A i, j \in 1..Len(waiters) :
                (i < j /\ permit'[waiters[j]] = "held") => permit'[waiters[i]] # "queued"
  <1>1. PermitInv /\ [Next]_vars => [Fifo]_vars
    <2> SUFFICES ASSUME PermitInv, Next,
                        NEW i \in 1..Len(waiters), NEW j \in 1..Len(waiters),
                        i < j, permit'[waiters[j]] = "held"
                 PROVE  FALSE
      BY DEF Fifo
    <2>0. /\ waiters \in Seq(Keys) /\ permit \in [Keys -> PermitState]
          /\ active \in Nat /\ MaxActive \in Nat \ {0} /\ Len(waiters) \in Nat
      BY PermitAssumption DEF PermitInv, TypeOK
    <2>1. /\ waiters[j] \in Keys /\ permit[waiters[j]] = "queued" /\ active = MaxActive
      BY WaitersPending
    <2>2. ASSUME NEW k \in Keys, Acquire(k) PROVE FALSE
      BY <2>0, <2>1, <2>2 DEF Acquire, AcquireNow, AcquireFull, AcquireWait
    <2>3. ASSUME NEW k \in Keys, Cancel(k) PROVE FALSE
      <3>1. PICK h \in 1..Len(waiters) :
              WakeWaiters(active, Without(waiters, h), [permit EXCEPT ![k] = "refused"])
        BY <2>3 DEF Cancel
      <3>2. Without(waiters, h) \in Seq(Keys) BY <2>0 DEF Without
      <3>3. WakeCount(active, Without(waiters, h)) = 0
        BY <2>0, <2>1, <3>2 DEF WakeCount, Min2
      <3>4. permit'[waiters[j]] = [permit EXCEPT ![k] = "refused"][waiters[j]]
        BY <2>1, <3>1, <3>3 DEF WakeWaiters
      <3>5. QED BY <2>0, <2>1, <3>4
    <2>4. ASSUME NEW k \in Keys, Release(k) PROVE FALSE
      <3> DEFINE n == WakeCount(active - 1, waiters)
      <3>1. n \in 0..1 BY <2>0, <2>1 DEF WakeCount, Min2
      <3>2. waiters[j] \in {waiters[m] : m \in 1..n}
        BY <2>0, <2>1, <2>4 DEF Release, WakeWaiters
      <3>3. PICK m \in 1..n : waiters[j] = waiters[m] BY <3>2
      <3>4. m = 1 /\ m \in 1..Len(waiters) BY <2>0, <3>1
      <3>5. j = m BY <3>3, <3>4 DEF PermitInv, QueueIsPending
      <3>6. QED BY <2>0, <3>4, <3>5
    <2>5. QED BY <2>2, <2>3, <2>4 DEF Next
  <1>2. QED BY PermitQueueCorrect, <1>1, PTL DEF Spec, FifoGrant
=============================================================================
