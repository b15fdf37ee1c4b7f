------------------------- MODULE RangeSourceProofs -------------------------
(***************************************************************************)
(* The remote range accessor for any reads, byte ranges, cache size and    *)
(* number of permits.                                                      *)
(***************************************************************************)
EXTENDS RangeSource, FoldTheorems

-----------------------------------------------------------------------------
(* Lists, and what Where keeps of them.                                    *)
LEMMA RangeSeq ==
  ASSUME NEW E, NEW s \in Seq(E)
  PROVE  /\ Range(s) = {s[i] : i \in 1..Len(s)} /\ Range(s) \subseteq E
         /\ \A x : x \in Range(s) <=> \E i \in 1..Len(s) : s[i] = x
  <1>1. DOMAIN s = 1..Len(s) OBVIOUS
  <1>2. \A i \in 1..Len(s) : s[i] \in E OBVIOUS
  <1>3. QED BY <1>1, <1>2 DEF Range

LEMMA RangeEmpty == Range(<<>>) = {}
  BY DEF Range

LEMMA RangeAppend ==
  ASSUME NEW E, NEW s \in Seq(E), NEW e \in E
  PROVE  Range(Append(s, e)) = Range(s) \cup {e}
  <1> DEFINE t == <<e>>
  <1>1. Append(s, e) = s \o t BY AppendIsConcat
  <1>2. t \in Seq(E) /\ Range(t) = {e} BY DEF Range
  <1> HIDE DEF t
  <1>3. Range(s \o t) = Range(s) \cup Range(t) BY <1>2, RangeConcatenation
  <1>4. QED BY <1>1, <1>2, <1>3

LEMMA ConcatFacts ==
  ASSUME NEW E, NEW s \in Seq(E), NEW t \in Seq(E)
  PROVE  s \o t \in Seq(E) /\ Range(s \o t) = Range(s) \cup Range(t)
  BY ConcatProperties, RangeConcatenation

Pieces == [lo : Nat, hi : Nat]

\* Sequences without repetition, and sequences in order of lo.
Distinct(s) == \A i, j \in 1..Len(s) : i # j => s[i] # s[j]
Ascending(s) == \A i, j \in 1..Len(s) : i < j => s[i].lo <= s[j].lo

LEMMA DistinctAppend ==
  ASSUME NEW E, NEW s \in Seq(E), NEW e \in E
  PROVE  Distinct(Append(s, e)) <=> Distinct(s) /\ e \notin Range(s)
  <1> DEFINE a == Append(s, e)
             n == Len(s)
  <1>1. Len(a) = n + 1 /\ n \in Nat /\ a[n + 1] = e /\ \A i \in 1..n : a[i] = s[i]
    BY AppendProperties
  <1>2. \A x : x \in Range(s) <=> \E i \in 1..n : s[i] = x BY RangeSeq
  <1> HIDE DEF a, n
  <1>3. Distinct(a) <=> \A i, j \in 1..(n + 1) : i # j => a[i] # a[j]
    BY <1>1 DEF Distinct
  <1>4. Distinct(s) <=> \A i, j \in 1..n : i # j => s[i] # s[j]
    BY DEF Distinct, n
  <1>5. ASSUME Distinct(a) PROVE Distinct(s) /\ e \notin Range(s)
    <2>1. Distinct(s) BY <1>1, <1>3, <1>4, <1>5
    <2>2. \A i \in 1..n : s[i] # e BY <1>1, <1>3, <1>5
    <2>3. QED BY <1>2, <2>1, <2>2
  <1>6. ASSUME Distinct(s), e \notin Range(s) PROVE Distinct(a)
    <2>1. \A i \in 1..n : s[i] # e BY <1>2, <1>6
    <2>2. \A i, j \in 1..n : i # j => s[i] # s[j] BY <1>4, <1>6
    <2>3. QED BY <1>1, <1>3, <2>1, <2>2
  <1>7. QED BY <1>5, <1>6 DEF a

LEMMA AscendingAppend ==
  ASSUME NEW E, NEW s \in Seq(E), NEW e \in E
  PROVE  Ascending(Append(s, e)) <=> Ascending(s) /\ \A x \in Range(s) : x.lo <= e.lo
  <1> DEFINE a == Append(s, e)
             n == Len(s)
  <1>1. Len(a) = n + 1 /\ n \in Nat /\ a[n + 1] = e /\ \A i \in 1..n : a[i] = s[i]
    BY AppendProperties
  <1>2. \A x : x \in Range(s) <=> \E i \in 1..n : s[i] = x BY RangeSeq
  <1> HIDE DEF a, n
  <1>3. Ascending(a) <=> \A i, j \in 1..(n + 1) : i < j => a[i].lo <= a[j].lo
    BY <1>1 DEF Ascending
  <1>4. Ascending(s) <=> \A i, j \in 1..n : i < j => s[i].lo <= s[j].lo
    BY DEF Ascending, n
  <1>5. ASSUME Ascending(a) PROVE Ascending(s) /\ \A x \in Range(s) : x.lo <= e.lo
    <2>1. Ascending(s) BY <1>1, <1>3, <1>4, <1>5
    <2>2. \A i \in 1..n : s[i].lo <= e.lo BY <1>1, <1>3, <1>5
    <2>3. QED BY <1>2, <2>1, <2>2
  <1>6. ASSUME Ascending(s), \A x \in Range(s) : x.lo <= e.lo PROVE Ascending(a)
    <2>1. \A i \in 1..n : s[i].lo <= e.lo BY <1>2, <1>6
    <2>2. \A i, j \in 1..n : i < j => s[i].lo <= s[j].lo BY <1>4, <1>6
    <2>3. QED BY <1>1, <1>3, <2>1, <2>2
  <1>7. QED BY <1>5, <1>6 DEF a

LEMMA DistinctConcat ==
  ASSUME NEW E, NEW s \in Seq(E), NEW t \in Seq(E),
         Distinct(s), Distinct(t), Range(s) \cap Range(t) = {}
  PROVE  s \o t \in Seq(E) /\ Distinct(s \o t)
  <1> DEFINE c == s \o t
             m == Len(s)
             n == Len(t)
  <1>1. /\ c \in Seq(E) /\ Len(c) = m + n /\ m \in Nat /\ n \in Nat
        /\ \A i \in 1..(m + n) : c[i] = IF i <= m THEN s[i] ELSE t[i - m]
    BY ConcatProperties
  <1>2. \A i \in 1..m : s[i] \in Range(s) BY RangeSeq
  <1>3. \A i \in 1..n : t[i] \in Range(t) BY RangeSeq
  <1>4. \A i, j \in 1..m : i # j => s[i] # s[j] BY DEF Distinct
  <1>5. \A i, j \in 1..n : i # j => t[i] # t[j] BY DEF Distinct
  <1> HIDE DEF c, m, n
  <1>6. ASSUME NEW i \in 1..(m + n), NEW j \in 1..(m + n), i # j PROVE c[i] # c[j]
    <2>1. CASE i <= m /\ j <= m BY <1>1, <1>4, <1>6, <2>1
    <2>2. CASE ~(i <= m) /\ ~(j <= m)
      <3>1. i - m \in 1..n /\ j - m \in 1..n /\ i - m # j - m BY <1>1, <1>6, <2>2
      <3>2. QED BY <1>1, <1>5, <2>2, <3>1
    <2>3. CASE i <= m /\ ~(j <= m)
      <3>1. i \in 1..m /\ j - m \in 1..n BY <1>1, <2>3
      <3>2. c[i] \in Range(s) /\ c[j] \in Range(t) BY <1>1, <1>2, <1>3, <2>3, <3>1
      <3>3. QED BY <3>2
    <2>4. CASE ~(i <= m) /\ j <= m
      <3>1. j \in 1..m /\ i - m \in 1..n BY <1>1, <2>4
      <3>2. c[j] \in Range(s) /\ c[i] \in Range(t) BY <1>1, <1>2, <1>3, <2>4, <3>1
      <3>3. QED BY <3>2
    <2>5. QED BY <2>1, <2>2, <2>3, <2>4
  <1>7. QED BY <1>1, <1>6 DEF Distinct, c

LEMMA AscendingConcat ==
  ASSUME NEW E, NEW s \in Seq(E), NEW t \in Seq(E),
         Ascending(s), Ascending(t), \A x \in Range(s), y \in Range(t) : x.lo <= y.lo
  PROVE  s \o t \in Seq(E) /\ Ascending(s \o t)
  <1> DEFINE c == s \o t
             m == Len(s)
             n == Len(t)
  <1>1. /\ c \in Seq(E) /\ Len(c) = m + n /\ m \in Nat /\ n \in Nat
        /\ \A i \in 1..(m + n) : c[i] = IF i <= m THEN s[i] ELSE t[i - m]
    BY ConcatProperties
  <1>2. \A i \in 1..m : s[i] \in Range(s) BY RangeSeq
  <1>3. \A i \in 1..n : t[i] \in Range(t) BY RangeSeq
  <1>4. \A i, j \in 1..m : i < j => s[i].lo <= s[j].lo BY DEF Ascending
  <1>5. \A i, j \in 1..n : i < j => t[i].lo <= t[j].lo BY DEF Ascending
  <1> HIDE DEF c, m, n
  <1>6. ASSUME NEW i \in 1..(m + n), NEW j \in 1..(m + n), i < j PROVE c[i].lo <= c[j].lo
    <2>1. CASE j <= m
      <3>1. i \in 1..m /\ j \in 1..m /\ i <= m BY <1>1, <1>6, <2>1
      <3>2. QED BY <1>1, <1>4, <1>6, <2>1, <3>1
    <2>2. CASE ~(i <= m)
      <3>1. i - m \in 1..n /\ j - m \in 1..n /\ i - m < j - m /\ ~(j <= m) BY <1>1, <1>6, <2>2
      <3>2. QED BY <1>1, <1>5, <2>2, <3>1
    <2>3. CASE i <= m /\ ~(j <= m)
      <3>1. i \in 1..m /\ j - m \in 1..n BY <1>1, <2>3
      <3>2. c[i] \in Range(s) /\ c[j] \in Range(t) BY <1>1, <1>2, <1>3, <2>3, <3>1
      <3>3. QED BY <3>2
    <2>4. QED BY <1>1, <2>1, <2>2, <2>3
  <1>7. QED BY <1>1, <1>6 DEF Ascending, c

\* The step of Where.
Keep(E, S) == [p \in E \X Seq(E) |-> IF p[1] \in S THEN Append(p[2], p[1]) ELSE p[2]]

LEMMA KeepSteps == ASSUME NEW E, NEW S PROVE Stepwise(Keep(E, S), E, Seq(E), <<>>)
  BY DEF Keep, Stepwise

LEMMA KeepOne ==
  ASSUME NEW E, NEW S, NEW e \in E, NEW v \in Seq(E)
  PROVE  Keep(E, S)[<<e, v>>] = IF e \in S THEN Append(v, e) ELSE v
  BY DEF Keep

LEMMA WhereIsRun ==
  ASSUME NEW E, NEW s \in Seq(E), NEW S
  PROVE  Where(s, S) = Run(Keep(E, S), <<>>, s)
  <1> DEFINE n == Len(s)
             V == Seq(E)
             h == Keep(E, S)
             W == CHOOSE w : w = [u \in SUBSET (1..n) |->
                    IF u = {} THEN <<>>
                    ELSE IF s[Max(u)] \in S THEN Append(w[u \ {Max(u)}], s[Max(u)])
                    ELSE w[u \ {Max(u)}]]
  <1>1. DOMAIN s = 1..n /\ \A i \in 1..n : s[i] \in E OBVIOUS
  <1>2. Where(s, S) = W[1..n]
    BY <1>1 DEF Where, FoldLeft, MapThenFoldSet
  <1>3. Stepwise(h, E, V, <<>>) BY KeepSteps, Zenon
  <1>4. ASSUME NEW e \in E, NEW v \in V PROVE h[<<e, v>>] = IF e \in S THEN Append(v, e) ELSE v
    BY KeepOne
  <1> HIDE DEF V, h
  <1>g. PICK g : Solution(g, V, h, <<>>, s) BY <1>3, FoldSolved, Zenon
  <1>5. /\ g \in [SUBSET (1..n) -> V] /\ g[{}] = <<>>
        /\ \A u \in SUBSET (1..n) : u # {} =>
             /\ Max(u) \in 1..n /\ u \ {Max(u)} \in SUBSET (1..n)
             /\ g[u] = h[<<s[Max(u)], g[u \ {Max(u)}]>>]
    BY <1>g, Zenon DEF Solution
  <1> HIDE DEF n
  <1>6. \A u \in SUBSET (1..n) : u # {} =>
           g[u] = IF s[Max(u)] \in S THEN Append(g[u \ {Max(u)}], s[Max(u)]) ELSE g[u \ {Max(u)}]
    <2> SUFFICES ASSUME NEW u \in SUBSET (1..n), u # {}
                 PROVE  g[u] = IF s[Max(u)] \in S THEN Append(g[u \ {Max(u)}], s[Max(u)])
                               ELSE g[u \ {Max(u)}]
      OBVIOUS
    <2> DEFINE x == s[Max(u)]
               y == g[u \ {Max(u)}]
    <2>1. x \in E /\ y \in V /\ g[u] = h[<<x, y>>] BY <1>1, <1>5
    <2> HIDE DEF x, y
    <2>2. g[u] = IF x \in S THEN Append(y, x) ELSE y BY <1>4, <2>1
    <2>3. QED BY <2>2 DEF x, y
  <1>7. g = [u \in SUBSET (1..n) |->
               IF u = {} THEN <<>>
               ELSE IF s[Max(u)] \in S THEN Append(g[u \ {Max(u)}], s[Max(u)])
               ELSE g[u \ {Max(u)}]]
    BY <1>5, <1>6
  <1>8. W = [u \in SUBSET (1..n) |->
               IF u = {} THEN <<>>
               ELSE IF s[Max(u)] \in S THEN Append(W[u \ {Max(u)}], s[Max(u)])
               ELSE W[u \ {Max(u)}]]
    BY <1>7, Zenon
  <1> HIDE DEF W
  <1>9. W[{}] = <<>> BY <1>8
  <1>10. \A u \in SUBSET (1..n) : u # {} /\ W[u \ {Max(u)}] \in V =>
            W[u] = h[<<s[Max(u)], W[u \ {Max(u)}]>>]
    <2> SUFFICES ASSUME NEW u \in SUBSET (1..n), u # {}, W[u \ {Max(u)}] \in V
                 PROVE  W[u] = h[<<s[Max(u)], W[u \ {Max(u)}]>>]
      OBVIOUS
    <2> DEFINE x == s[Max(u)]
               y == W[u \ {Max(u)}]
    <2>1. W[u] = IF x \in S THEN Append(y, x) ELSE y BY <1>8
    <2>2. x \in E /\ y \in V BY <1>1, <1>5
    <2> HIDE DEF x, y
    <2>3. W[u] = h[<<x, y>>] BY <1>4, <2>1, <2>2
    <2>4. QED BY <2>3 DEF x, y
  <1>11. W[1..n] = Run(h, <<>>, s)
    <2>1. Recurs(W, V, h, <<>>, s) BY <1>9, <1>10 DEF Recurs, n
    <2>2. QED BY <1>3, <2>1, FoldIsRun DEF n
  <1>12. QED BY <1>2, <1>11 DEF h

LEMMA WhereEmpty == ASSUME NEW S PROVE Where(<<>>, S) = <<>>
  <1>1. <<>> \in Seq({}) OBVIOUS
  <1>2. Where(<<>>, S) = Run(Keep({}, S), <<>>, <<>>) BY <1>1, WhereIsRun, Zenon
  <1>3. QED BY <1>2, KeepSteps, RunEmpty, Zenon

LEMMA WhereAppend ==
  ASSUME NEW E, NEW s \in Seq(E), NEW e \in E, NEW S
  PROVE  /\ Where(s, S) \in Seq(E)
         /\ Where(Append(s, e), S) = IF e \in S THEN Append(Where(s, S), e) ELSE Where(s, S)
  <1> DEFINE V == Seq(E)
             h == Keep(E, S)
             t == Append(s, e)
             y == Where(s, S)
  <1>1. t \in V BY AppendProperties
  <1>2. Stepwise(h, E, V, <<>>) BY KeepSteps, Zenon
  <1>3. y = Run(h, <<>>, s) /\ Where(t, S) = Run(h, <<>>, t)
    BY <1>1, WhereIsRun, Zenon
  <1>4. y \in V BY <1>2, <1>3, RunFollows, Zenon
  <1>5. Where(t, S) = h[<<e, y>>] BY <1>2, <1>3, RunAppend
  <1> HIDE DEF y, t
  <1>6. h[<<e, y>>] = IF e \in S THEN Append(y, e) ELSE y BY <1>4, KeepOne
  <1>7. QED BY <1>4, <1>5, <1>6 DEF y, t

LEMMA WhereStep ==
  ASSUME NEW E, NEW s \in Seq(E), NEW e \in E, NEW S
  PROVE  /\ e \in S => Where(Append(s, e), S) = Append(Where(s, S), e)
         /\ e \notin S => Where(Append(s, e), S) = Where(s, S)
  <1> DEFINE a == Where(Append(s, e), S)
             w == Where(s, S)
  <1>1. a = IF e \in S THEN Append(w, e) ELSE w BY WhereAppend
  <1> HIDE DEF a, w
  <1>2. QED BY <1>1 DEF a, w

LEMMA WhereFacts ==
  ASSUME NEW E, NEW s \in Seq(E), NEW S
  PROVE  /\ Where(s, S) \in Seq(E) /\ Range(Where(s, S)) = Range(s) \cap S
         /\ Distinct(s) => Distinct(Where(s, S))
         /\ Ascending(s) => Ascending(Where(s, S))
  <1> DEFINE Good(q) == /\ Where(q, S) \in Seq(E) /\ Range(Where(q, S)) = Range(q) \cap S
                        /\ Distinct(q) => Distinct(Where(q, S))
                        /\ Ascending(q) => Ascending(Where(q, S))
             P == {q \in Seq(E) : Good(q)}
  <1>1. <<>> \in P
    <2>1. Where(<<>>, S) = <<>> /\ Range(<<>>) = {} BY WhereEmpty, RangeEmpty
    <2>2. <<>> \in Seq(E) OBVIOUS
    <2>3. Good(<<>>)
      <3> DEFINE o == <<>>
      <3> HIDE DEF o
      <3>1. Where(o, S) = o /\ Range(o) = {} /\ o \in Seq(E) BY <2>1, <2>2 DEF o
      <3>2. Good(o) BY <3>1
      <3>3. QED BY <3>2 DEF o
    <2>4. QED BY <2>2, <2>3
  <1>2. ASSUME NEW q \in P, NEW e \in E PROVE Append(q, e) \in P
    <2> DEFINE w == Where(q, S)
               a == Append(q, e)
               v == Where(a, S)
    <2>1. q \in Seq(E) /\ w \in Seq(E) /\ Range(w) = Range(q) \cap S
          /\ (Distinct(q) => Distinct(w)) /\ (Ascending(q) => Ascending(w))
      OBVIOUS
    <2>2. (e \in S => v = Append(w, e)) /\ (e \notin S => v = w)
      BY <2>1, WhereStep, Zenon
    <2>3. a \in Seq(E) /\ Range(a) = Range(q) \cup {e} BY <2>1, AppendProperties, RangeAppend
    <2>4. Distinct(a) => Distinct(q) /\ e \notin Range(q) BY <2>1, DistinctAppend
    <2>5. Ascending(a) => Ascending(q) /\ \A x \in Range(q) : x.lo <= e.lo
      BY <2>1, AscendingAppend
    <2> HIDE DEF a, v, w
    <2>6. CASE e \in S
      <3>1. v = Append(w, e) BY <2>2, <2>6
      <3>2. v \in Seq(E) /\ Range(v) = Range(w) \cup {e}
        BY <2>1, <3>1, AppendProperties, RangeAppend
      <3>3. Distinct(v) <=> Distinct(w) /\ e \notin Range(w)
        BY <2>1, <3>1, DistinctAppend
      <3>4. Ascending(v) <=> Ascending(w) /\ \A x \in Range(w) : x.lo <= e.lo
        BY <2>1, <3>1, AscendingAppend
      <3>5. Range(v) = Range(a) \cap S BY <2>1, <2>3, <2>6, <3>2
      <3>6. Good(a) BY <2>1, <2>4, <2>5, <3>2, <3>3, <3>4, <3>5 DEF v
      <3>7. QED BY <2>3, <3>6 DEF a
    <2>7. CASE e \notin S
      <3>1. v = w BY <2>2, <2>7
      <3>2. Range(v) = Range(a) \cap S BY <2>1, <2>3, <2>7, <3>1
      <3>3. Good(a) BY <2>1, <2>4, <2>5, <3>1, <3>2 DEF v
      <3>4. QED BY <2>3, <3>3 DEF a
    <2>8. QED BY <2>6, <2>7
  <1>3. P \in SUBSET Seq(E) OBVIOUS
  <1> HIDE DEF P
  <1>4. P = Seq(E) BY <1>1, <1>2, <1>3, InductSeq
  <1>5. QED BY <1>4 DEF P

-----------------------------------------------------------------------------
(* Segments, and what Sorted keeps of them.                                *)
IsSegment(e) == e.lo \in Nat /\ e.hi \in Nat /\ e.lo < e.hi
Segments(E) == \A e \in E : IsSegment(e)
Bounded(E) == \A e \in E : e.lo \in Nat /\ e.hi \in Nat

LEMMA PlacedFacts ==
  ASSUME NEW E, NEW s \in Seq(E), NEW e \in E, Bounded(E)
  PROVE  /\ Placed(s, e) \in Seq(E) /\ Range(Placed(s, e)) = Range(s) \cup {e}
         /\ Ascending(s) => Ascending(Placed(s, e))
  <1> DEFINE A == {x \in Range(s) : ~Before(e, x)}
             B == {x \in Range(s) : Before(e, x)}
             a == Where(s, A)
             m == <<e>>
             b == Where(s, B)
  <1>1. /\ a \in Seq(E) /\ Range(a) = Range(s) \cap A /\ b \in Seq(E) /\ Range(b) = Range(s) \cap B
        /\ Ascending(s) => Ascending(a) /\ Ascending(b)
    BY WhereFacts
  <1>2. m \in Seq(E) /\ Range(m) = {e} /\ Ascending(m) BY DEF Range, Ascending
  <1>3. Placed(s, e) = (a \o m) \o b BY DEF Placed
  <1>4. Range(s) \subseteq E BY RangeSeq
  <1>5. A \cup B = Range(s) /\ A \subseteq E /\ B \subseteq E BY <1>4
  <1>6. \A x \in A : x.lo <= e.lo
    <2> SUFFICES ASSUME NEW x \in A PROVE x.lo <= e.lo OBVIOUS
    <2>1. x.lo \in Nat /\ e.lo \in Nat BY <1>5 DEF Bounded
    <2>2. QED BY <2>1 DEF Before
  <1>7. \A x \in B : e.lo <= x.lo
    <2> SUFFICES ASSUME NEW x \in B PROVE e.lo <= x.lo OBVIOUS
    <2>1. x.lo \in Nat /\ e.lo \in Nat BY <1>5 DEF Bounded
    <2>2. QED BY <2>1 DEF Before
  <1>8. \A x \in A, y \in B : x.lo <= y.lo
    <2> SUFFICES ASSUME NEW x \in A, NEW y \in B PROVE x.lo <= y.lo OBVIOUS
    <2>1. x.lo \in Nat /\ e.lo \in Nat /\ y.lo \in Nat BY <1>5 DEF Bounded
    <2>2. x.lo <= e.lo /\ e.lo <= y.lo BY <1>6, <1>7
    <2>3. QED BY <2>1, <2>2
  <1> HIDE DEF A, B, a, m, b
  <1>9. Range(a) = A /\ Range(b) = B BY <1>1, <1>5
  <1>10. a \o m \in Seq(E) /\ Range(a \o m) = A \cup {e}
    BY <1>1, <1>2, <1>9, ConcatFacts
  <1>11. (a \o m) \o b \in Seq(E) /\ Range((a \o m) \o b) = (A \cup {e}) \cup B
    <2> DEFINE c == a \o m
    <2>1. c \in Seq(E) /\ Range(c) = A \cup {e} /\ b \in Seq(E) /\ Range(b) = B
      BY <1>1, <1>9, <1>10
    <2> HIDE DEF c
    <2>2. c \o b \in Seq(E) /\ Range(c \o b) = Range(c) \cup Range(b) BY <2>1, ConcatFacts
    <2>3. QED BY <2>1, <2>2 DEF c
  <1>12. ASSUME Ascending(s) PROVE Ascending((a \o m) \o b)
    <2>1. Ascending(a \o m) BY <1>1, <1>2, <1>6, <1>9, <1>12, AscendingConcat
    <2>2. \A x \in Range(a \o m), y \in Range(b) : x.lo <= y.lo
      BY <1>7, <1>8, <1>9, <1>10
    <2>3. QED BY <1>1, <1>10, <1>12, <2>1, <2>2, AscendingConcat
  <1>13. QED BY <1>3, <1>5, <1>11, <1>12

\* The step of Sorted.
Insertion(E) == [p \in E \X Seq(E) |-> Placed(p[2], p[1])]

LEMMA SortedIsRun ==
  ASSUME NEW E, NEW s \in Seq(E), Bounded(E)
  PROVE  Sorted(s) = Run(Insertion(E), <<>>, s) /\ Stepwise(Insertion(E), E, Seq(E), <<>>)
  <1> DEFINE n == Len(s)
             V == Seq(E)
             h == Insertion(E)
             W == CHOOSE w : w = [u \in SUBSET (1..n) |->
                    IF u = {} THEN <<>> ELSE Placed(w[u \ {Max(u)}], s[Max(u)])]
  <1>1. DOMAIN s = 1..n /\ \A i \in 1..n : s[i] \in E OBVIOUS
  <1>2. Sorted(s) = W[1..n]
    BY <1>1 DEF Sorted, FoldLeft, MapThenFoldSet
  <1>3. Stepwise(h, E, V, <<>>)
    <2>1. \A p \in E \X V : Placed(p[2], p[1]) \in V BY PlacedFacts
    <2>2. QED BY <2>1 DEF Stepwise, Insertion
  <1>4. \A e \in E, v \in V : h[<<e, v>>] = Placed(v, e) BY DEF Insertion
  <1> HIDE DEF V, h
  <1>g. PICK g : Solution(g, V, h, <<>>, s) BY <1>3, FoldSolved, Zenon
  <1>5. /\ g \in [SUBSET (1..n) -> V] /\ g[{}] = <<>>
        /\ \A u \in SUBSET (1..n) : u # {} =>
             /\ Max(u) \in 1..n /\ u \ {Max(u)} \in SUBSET (1..n)
             /\ g[u] = h[<<s[Max(u)], g[u \ {Max(u)}]>>]
    BY <1>g, Zenon DEF Solution
  <1> HIDE DEF n
  <1>6. \A u \in SUBSET (1..n) : u # {} => g[u] = Placed(g[u \ {Max(u)}], s[Max(u)])
    <2> SUFFICES ASSUME NEW u \in SUBSET (1..n), u # {}
                 PROVE  g[u] = Placed(g[u \ {Max(u)}], s[Max(u)])
      OBVIOUS
    <2>1. s[Max(u)] \in E /\ g[u \ {Max(u)}] \in V /\ g[u] = h[<<s[Max(u)], g[u \ {Max(u)}]>>]
      BY <1>1, <1>5
    <2>2. QED BY <1>4, <2>1
  <1>7. g = [u \in SUBSET (1..n) |->
               IF u = {} THEN <<>> ELSE Placed(g[u \ {Max(u)}], s[Max(u)])]
    BY <1>5, <1>6
  <1>8. W = [u \in SUBSET (1..n) |->
               IF u = {} THEN <<>> ELSE Placed(W[u \ {Max(u)}], s[Max(u)])]
    BY <1>7, Zenon
  <1> HIDE DEF W
  <1>9. W[{}] = <<>> BY <1>8
  <1>10. \A u \in SUBSET (1..n) : u # {} /\ W[u \ {Max(u)}] \in V =>
            W[u] = h[<<s[Max(u)], W[u \ {Max(u)}]>>]
    <2> SUFFICES ASSUME NEW u \in SUBSET (1..n), u # {}, W[u \ {Max(u)}] \in V
                 PROVE  W[u] = h[<<s[Max(u)], W[u \ {Max(u)}]>>]
      OBVIOUS
    <2>1. W[u] = Placed(W[u \ {Max(u)}], s[Max(u)]) BY <1>8
    <2>2. s[Max(u)] \in E BY <1>1, <1>5
    <2>3. QED BY <1>4, <2>1, <2>2
  <1>11. W[1..n] = Run(h, <<>>, s)
    <2>1. Recurs(W, V, h, <<>>, s) BY <1>9, <1>10 DEF Recurs, n
    <2>2. QED BY <1>3, <2>1, FoldIsRun DEF n
  <1>12. QED BY <1>2, <1>3, <1>11 DEF h, V

LEMMA SortedFacts ==
  ASSUME NEW E, NEW s \in Seq(E), Bounded(E)
  PROVE  Sorted(s) \in Seq(E) /\ Range(Sorted(s)) = Range(s) /\ Ascending(Sorted(s))
  <1> DEFINE h == Insertion(E)
             Good(q) == Sorted(q) \in Seq(E) /\ Range(Sorted(q)) = Range(q) /\ Ascending(Sorted(q))
             P == {q \in Seq(E) : Good(q)}
  <1>1. \A q \in Seq(E) : Sorted(q) = Run(h, <<>>, q) BY SortedIsRun
  <1>2. Stepwise(h, E, Seq(E), <<>>) BY SortedIsRun
  <1>3. <<>> \in P
    <2> DEFINE o == <<>>
    <2>1. o \in Seq(E) OBVIOUS
    <2>2. Range(o) = {} /\ Ascending(o) BY RangeEmpty DEF Ascending
    <2>3. Run(h, <<>>, o) = o BY <1>2, RunEmpty
    <2> HIDE DEF o
    <2>4. Sorted(o) = o BY <1>1, <2>1, <2>3
    <2>5. Good(o) BY <2>1, <2>2, <2>4
    <2>6. QED BY <2>1, <2>5 DEF o
  <1>4. ASSUME NEW q \in P, NEW e \in E PROVE Append(q, e) \in P
    <2> DEFINE a == Append(q, e)
               w == Sorted(q)
    <2>1. q \in Seq(E) /\ w \in Seq(E) /\ Range(w) = Range(q) /\ Ascending(w) OBVIOUS
    <2>2. a \in Seq(E) /\ Range(a) = Range(q) \cup {e} BY <2>1, AppendProperties, RangeAppend
    <2>3. Sorted(a) = Placed(w, e)
      <3>1. Run(h, <<>>, a) = h[<<e, Run(h, <<>>, q)>>] BY <1>2, <2>1, RunAppend
      <3>2. Sorted(a) = h[<<e, w>>] BY <1>1, <2>1, <2>2, <3>1
      <3> HIDE DEF a, w
      <3>3. h[<<e, w>>] = Placed(w, e) BY <2>1 DEF Insertion
      <3>4. QED BY <3>2, <3>3
    <2> HIDE DEF a, w, h
    <2>4. Placed(w, e) \in Seq(E) /\ Range(Placed(w, e)) = Range(w) \cup {e} /\ Ascending(Placed(w, e))
      BY <2>1, PlacedFacts, Zenon
    <2>5. Good(a) BY <2>1, <2>2, <2>3, <2>4
    <2>6. QED BY <2>2, <2>5 DEF a
  <1>5. P \in SUBSET Seq(E) OBVIOUS
  <1> HIDE DEF P
  <1>6. P = Seq(E) BY <1>3, <1>4, <1>5, InductSeq
  <1>7. QED BY <1>6 DEF P

-----------------------------------------------------------------------------
(* #assemble.  The cursor passes every segment that begins at or before    *)
(* it, so that it ends at the first byte no segment holds.                 *)
Passed(want, e, cursor) ==
    IF e.hi <= cursor \/ e.lo > cursor \/ cursor >= want.hi THEN cursor ELSE Smaller(want.hi, e.hi)

Reach(E, want) == [p \in E \X Nat |-> Passed(want, p[1], p[2])]

LEMMA ReachSteps ==
  ASSUME NEW E, Segments(E), NEW want \in Pieces
  PROVE  Stepwise(Reach(E, want), E, Nat, want.lo)
  <1>1. \A p \in E \X Nat : Passed(want, p[1], p[2]) \in Nat
    BY DEF Passed, Pieces, Segments, IsSegment, Smaller
  <1>2. want.lo \in Nat BY DEF Pieces
  <1>3. QED BY <1>1, <1>2 DEF Stepwise, Reach

LEMMA AssembledIsRun ==
  ASSUME NEW E, Segments(E), NEW segments \in Seq(E), NEW want \in Pieces,
         NEW s \in Seq(E), s = Sorted(Hits(segments, want))
  PROVE  Assembled(segments, want) <=> Run(Reach(E, want), want.lo, s) >= want.hi
  <1> DEFINE n == Len(s)
             h == Reach(E, want)
             W == CHOOSE w : w = [u \in SUBSET (1..n) |->
                    IF u = {} THEN want.lo ELSE Passed(want, s[Max(u)], w[u \ {Max(u)}])]
  <1>1. DOMAIN s = 1..n /\ \A i \in 1..n : s[i] \in E OBVIOUS
  <1>2. Assembled(segments, want) <=> W[1..n] >= want.hi
    BY <1>1 DEF Assembled, FoldLeft, MapThenFoldSet, Passed
  <1>3. Stepwise(h, E, Nat, want.lo) BY ReachSteps
  <1>4. \A e \in E, v \in Nat : h[<<e, v>>] = Passed(want, e, v) BY DEF Reach
  <1> HIDE DEF h
  <1>g. PICK g : Solution(g, Nat, h, want.lo, s) BY <1>3, FoldSolved
  <1>5. /\ g \in [SUBSET (1..n) -> Nat] /\ g[{}] = want.lo
        /\ \A u \in SUBSET (1..n) : u # {} =>
             /\ Max(u) \in 1..n /\ u \ {Max(u)} \in SUBSET (1..n)
             /\ g[u] = h[<<s[Max(u)], g[u \ {Max(u)}]>>]
    BY <1>g, Zenon DEF Solution
  <1> HIDE DEF n
  <1>6. \A u \in SUBSET (1..n) : u # {} => g[u] = Passed(want, s[Max(u)], g[u \ {Max(u)}])
    <2> SUFFICES ASSUME NEW u \in SUBSET (1..n), u # {}
                 PROVE  g[u] = Passed(want, s[Max(u)], g[u \ {Max(u)}])
      OBVIOUS
    <2>1. s[Max(u)] \in E /\ g[u \ {Max(u)}] \in Nat /\ g[u] = h[<<s[Max(u)], g[u \ {Max(u)}]>>]
      BY <1>1, <1>5
    <2>2. QED BY <1>4, <2>1
  <1>7. g = [u \in SUBSET (1..n) |->
               IF u = {} THEN want.lo ELSE Passed(want, s[Max(u)], g[u \ {Max(u)}])]
    BY <1>5, <1>6
  <1>8. W = [u \in SUBSET (1..n) |->
               IF u = {} THEN want.lo ELSE Passed(want, s[Max(u)], W[u \ {Max(u)}])]
    BY <1>7, Zenon
  <1> HIDE DEF W
  <1>9. W[{}] = want.lo BY <1>8
  <1>10. \A u \in SUBSET (1..n) : u # {} /\ W[u \ {Max(u)}] \in Nat =>
            W[u] = h[<<s[Max(u)], W[u \ {Max(u)}]>>]
    <2> SUFFICES ASSUME NEW u \in SUBSET (1..n), u # {}, W[u \ {Max(u)}] \in Nat
                 PROVE  W[u] = h[<<s[Max(u)], W[u \ {Max(u)}]>>]
      OBVIOUS
    <2>1. W[u] = Passed(want, s[Max(u)], W[u \ {Max(u)}]) BY <1>8
    <2>2. s[Max(u)] \in E BY <1>1, <1>5
    <2>3. QED BY <1>4, <2>1, <2>2
  <1>11. W[1..n] = Run(h, want.lo, s)
    <2>1. Recurs(W, Nat, h, want.lo, s) BY <1>9, <1>10 DEF Recurs, n
    <2>2. QED BY <1>3, <2>1, FoldIsRun DEF n
  <1>12. QED BY <1>2, <1>11 DEF h

\* No segment that begins at or before the cursor goes on past it.
ReachGood(s, want, cursor) ==
    /\ cursor \in Nat /\ want.lo <= cursor
    /\ Ascending(s) => \A x \in Range(s) : x.lo <= cursor => x.hi <= cursor \/ want.hi <= cursor

LEMMA ReachFacts ==
  ASSUME NEW E, Segments(E), NEW want \in Pieces, NEW s \in Seq(E)
  PROVE  ReachGood(s, want, Run(Reach(E, want), want.lo, s))
  <1> DEFINE h == Reach(E, want)
             P == {q \in Seq(E) : ReachGood(q, want, Run(h, want.lo, q))}
  <1>0. want.lo \in Nat /\ want.hi \in Nat BY DEF Pieces
  <1>1. Stepwise(h, E, Nat, want.lo) BY ReachSteps
  <1>2. <<>> \in P
    <2>1. Run(h, want.lo, <<>>) = want.lo BY <1>1, RunEmpty
    <2>2. ReachGood(<<>>, want, want.lo) BY <1>0, RangeEmpty DEF ReachGood
    <2>3. <<>> \in Seq(E) OBVIOUS
    <2>4. QED BY <2>1, <2>2, <2>3
  <1>3. ASSUME NEW q \in P, NEW e \in E PROVE Append(q, e) \in P
    <2> DEFINE a == Append(q, e)
               c == Run(h, want.lo, q)
               d == Run(h, want.lo, a)
    <2>1. q \in Seq(E) /\ ReachGood(q, want, c) OBVIOUS
    <2>2. a \in Seq(E) /\ Range(a) = Range(q) \cup {e} BY <2>1, AppendProperties, RangeAppend
    <2>3. Ascending(a) => Ascending(q) /\ \A x \in Range(q) : x.lo <= e.lo
      BY <2>1, AscendingAppend
    <2>4. d = h[<<e, c>>] BY <1>1, <2>1, RunAppend
    <2> HIDE DEF a, c, d
    <2>5. c \in Nat /\ want.lo <= c BY <2>1 DEF ReachGood
    <2>6. d = Passed(want, e, c) BY <2>4, <2>5 DEF Reach
    <2>7. IsSegment(e) /\ \A x \in Range(q) : IsSegment(x)
      <3>1. Range(q) \subseteq E BY <2>1, RangeSeq
      <3>2. QED BY <3>1 DEF Segments
    <2>8. d \in Nat /\ c <= d
      BY <1>0, <2>5, <2>6, <2>7 DEF Passed, IsSegment, Smaller
    <2>9. ASSUME Ascending(a), NEW x \in Range(a), x.lo <= d
          PROVE  x.hi <= d \/ want.hi <= d
      <3>1. CASE x = e
        BY <1>0, <2>5, <2>6, <2>7, <2>9, <3>1 DEF Passed, IsSegment, Smaller
      <3>2. CASE x \in Range(q)
        <4>1. x.lo <= e.lo /\ (x.lo <= c => x.hi <= c \/ want.hi <= c)
          BY <2>1, <2>3, <2>9, <3>2 DEF ReachGood
        <4>2. x.lo \in Nat /\ x.hi \in Nat /\ e.lo \in Nat BY <2>7, <3>2 DEF IsSegment
        <4>3. CASE d = c BY <2>9, <4>1, <4>3
        <4>4. CASE d # c
          <5>1. e.lo <= c BY <2>5, <2>6, <2>7, <4>4 DEF Passed, IsSegment
          <5>2. x.lo <= c BY <2>5, <4>1, <4>2, <5>1
          <5>3. QED BY <1>0, <2>5, <2>8, <4>1, <4>2, <5>2
        <4>5. QED BY <4>3, <4>4
      <3>3. QED BY <2>2, <2>9, <3>1, <3>2
    <2>10. ReachGood(a, want, d)
      <3>1. want.lo <= d BY <1>0, <2>5, <2>8
      <3>2. QED BY <2>8, <2>9, <3>1 DEF ReachGood
    <2>11. QED BY <2>2, <2>10 DEF a, d
  <1>4. P \in SUBSET Seq(E) OBVIOUS
  <1> HIDE DEF P
  <1>5. P = Seq(E) BY <1>2, <1>3, <1>4, InductSeq
  <1>6. QED BY <1>5 DEF P

\* A byte the segments hold.
HeldIn(segments, b) == \E x \in Range(segments) : x.lo <= b /\ b < x.hi

\* Segments that hold every byte of a range assemble.
LEMMA HeldIsAssembled ==
  ASSUME NEW E, Segments(E), NEW segments \in Seq(E), NEW want \in Pieces,
         \A b \in Nat : want.lo <= b /\ b < want.hi => HeldIn(segments, b)
  PROVE  Assembled(segments, want)
  <1> DEFINE hits == Hits(segments, want)
             s == Sorted(hits)
             c == Run(Reach(E, want), want.lo, s)
  <1>b. Bounded(E) BY DEF Bounded, Segments, IsSegment
  <1>1. hits \in Seq(E) /\ Range(hits) = {x \in Range(segments) : Overlaps(x, want)}
    <2>1. Range(segments) \cap {e \in Range(segments) : Overlaps(e, want)}
            = {x \in Range(segments) : Overlaps(x, want)}
      OBVIOUS
    <2>2. QED BY <2>1, WhereFacts DEF Hits
  <1>2. s \in Seq(E) /\ Range(s) = Range(hits) /\ Ascending(s) BY <1>1, <1>b, SortedFacts
  <1>3. Assembled(segments, want) <=> c >= want.hi BY <1>2, AssembledIsRun
  <1>4. ReachGood(s, want, c) BY <1>2, ReachFacts
  <1> HIDE DEF hits, s, c
  <1>5. want.lo \in Nat /\ want.hi \in Nat BY DEF Pieces
  <1>6. c \in Nat /\ want.lo <= c BY <1>4 DEF ReachGood
  <1>7. ASSUME ~(c >= want.hi) PROVE FALSE
    <2>1. c < want.hi BY <1>5, <1>6, <1>7
    <2>2. PICK x \in Range(segments) : x.lo <= c /\ c < x.hi
      BY <1>6, <2>1 DEF HeldIn
    <2>3. x \in E BY RangeSeq
    <2>4. IsSegment(x) BY <2>3 DEF Segments
    <2>5. Overlaps(x, want) BY <1>5, <1>6, <2>1, <2>2, <2>4 DEF Overlaps, IsSegment
    <2>6. x \in Range(s) BY <1>1, <1>2, <2>5
    <2>7. x.hi <= c \/ want.hi <= c BY <1>2, <1>4, <2>2, <2>6 DEF ReachGood
    <2>8. QED BY <1>5, <1>6, <2>1, <2>2, <2>4, <2>7 DEF IsSegment
  <1>8. QED BY <1>3, <1>7

-----------------------------------------------------------------------------
(* #missing.  Its holes and the segments together hold the wanted range;   *)
(* the holes are inside it and apart from one another.                     *)
Inside(h, w) == w.lo <= h.lo /\ h.lo < h.hi /\ h.hi <= w.hi
Apart(g, h) == g.hi <= h.lo \/ h.hi <= g.lo
Separate(s) == \A i, j \in 1..Len(s) : i # j => Apart(s[i], s[j])

LEMMA SeparateAppend ==
  ASSUME NEW E, NEW s \in Seq(E), NEW e \in E, Separate(s), \A x \in Range(s) : Apart(x, e)
  PROVE  Separate(Append(s, e))
  <1> DEFINE a == Append(s, e)
             n == Len(s)
  <1>1. Len(a) = n + 1 /\ n \in Nat /\ a[n + 1] = e /\ \A i \in 1..n : a[i] = s[i]
    BY AppendProperties
  <1>2. \A i \in 1..n : s[i] \in Range(s) BY RangeSeq
  <1>3. \A i, j \in 1..n : i # j => Apart(s[i], s[j]) BY DEF Separate
  <1> HIDE DEF a, n
  <1>4. \A i \in 1..n : Apart(s[i], e) /\ Apart(e, s[i]) BY <1>2 DEF Apart
  <1>5. \A i, j \in 1..(n + 1) : i # j => Apart(a[i], a[j]) BY <1>1, <1>3, <1>4
  <1>6. QED BY <1>1, <1>5 DEF Separate, a

Clips(want) == {e \in Pieces : Inside(e, want)}
Sweeps == [holes : Seq(Pieces), cursor : Nat]
Started(want) == [holes |-> <<>>, cursor |-> want.lo]
Swept(want, e, acc) ==
    IF e.hi <= acc.cursor \/ acc.cursor >= want.hi THEN acc
    ELSE [holes |-> IF e.lo > acc.cursor THEN Append(acc.holes, Interval(acc.cursor, e.lo)) ELSE acc.holes,
          cursor |-> e.hi]
Closed(want, acc) ==
    IF acc.cursor < want.hi THEN Append(acc.holes, Interval(acc.cursor, want.hi)) ELSE acc.holes

Sweep(want) == [p \in Clips(want) \X Sweeps |-> Swept(want, p[1], p[2])]

LEMMA SweepSteps ==
  ASSUME NEW want \in Pieces
  PROVE  /\ Stepwise(Sweep(want), Clips(want), Sweeps, Started(want))
         /\ \A e \in Clips(want), acc \in Sweeps : Sweep(want)[<<e, acc>>] = Swept(want, e, acc)
  <1>1. ASSUME NEW e \in Clips(want), NEW acc \in Sweeps PROVE Swept(want, e, acc) \in Sweeps
    <2>1. e.lo \in Nat /\ e.hi \in Nat BY DEF Clips, Pieces
    <2>2. acc.cursor \in Nat /\ acc.holes \in Seq(Pieces) BY DEF Sweeps
    <2>3. Interval(acc.cursor, e.lo) \in Pieces BY <2>1, <2>2 DEF Interval, Pieces
    <2>4. Append(acc.holes, Interval(acc.cursor, e.lo)) \in Seq(Pieces)
      BY <2>2, <2>3, AppendProperties
    <2>5. QED BY <2>1, <2>2, <2>4 DEF Swept, Sweeps
  <1>2. Started(want) \in Sweeps BY DEF Started, Sweeps, Pieces
  <1>3. QED BY <1>1, <1>2 DEF Stepwise, Sweep

LEMMA MissingIsRun ==
  ASSUME NEW segments, NEW want \in Pieces,
         NEW s \in Seq(Clips(want)), s = Clipped(segments, want)
  PROVE  Missing(segments, want) = Closed(want, Run(Sweep(want), Started(want), s))
  <1> DEFINE n == Len(s)
             V == Sweeps
             base == Started(want)
             h == Sweep(want)
             W == CHOOSE w : w = [u \in SUBSET (1..n) |->
                    IF u = {} THEN base ELSE Swept(want, s[Max(u)], w[u \ {Max(u)}])]
  <1>1. DOMAIN s = 1..n /\ \A i \in 1..n : s[i] \in Clips(want) OBVIOUS
  <1>2. Missing(segments, want) = Closed(want, W[1..n])
    BY <1>1 DEF Missing, FoldLeft, MapThenFoldSet, Swept, Started, Closed
  <1>3. Stepwise(h, Clips(want), V, base) BY SweepSteps
  <1>4. \A e \in Clips(want), v \in V : h[<<e, v>>] = Swept(want, e, v) BY DEF Sweep
  <1> HIDE DEF h, V, base
  <1>g. PICK g : Solution(g, V, h, base, s) BY <1>3, FoldSolved
  <1>5. /\ g \in [SUBSET (1..n) -> V] /\ g[{}] = base
        /\ \A u \in SUBSET (1..n) : u # {} =>
             /\ Max(u) \in 1..n /\ u \ {Max(u)} \in SUBSET (1..n)
             /\ g[u] = h[<<s[Max(u)], g[u \ {Max(u)}]>>]
    BY <1>g, Zenon DEF Solution
  <1> HIDE DEF n
  <1>6. \A u \in SUBSET (1..n) : u # {} => g[u] = Swept(want, s[Max(u)], g[u \ {Max(u)}])
    <2> SUFFICES ASSUME NEW u \in SUBSET (1..n), u # {}
                 PROVE  g[u] = Swept(want, s[Max(u)], g[u \ {Max(u)}])
      OBVIOUS
    <2>1. s[Max(u)] \in Clips(want) /\ g[u \ {Max(u)}] \in V
          /\ g[u] = h[<<s[Max(u)], g[u \ {Max(u)}]>>]
      BY <1>1, <1>5
    <2>2. QED BY <1>4, <2>1
  <1>7. g = [u \in SUBSET (1..n) |->
               IF u = {} THEN base ELSE Swept(want, s[Max(u)], g[u \ {Max(u)}])]
    BY <1>5, <1>6
  <1>8. W = [u \in SUBSET (1..n) |->
               IF u = {} THEN base ELSE Swept(want, s[Max(u)], W[u \ {Max(u)}])]
    BY <1>7, Zenon
  <1> HIDE DEF W
  <1>9. W[{}] = base BY <1>8
  <1>10. \A u \in SUBSET (1..n) : u # {} /\ W[u \ {Max(u)}] \in V =>
            W[u] = h[<<s[Max(u)], W[u \ {Max(u)}]>>]
    <2> SUFFICES ASSUME NEW u \in SUBSET (1..n), u # {}, W[u \ {Max(u)}] \in V
                 PROVE  W[u] = h[<<s[Max(u)], W[u \ {Max(u)}]>>]
      OBVIOUS
    <2>1. W[u] = Swept(want, s[Max(u)], W[u \ {Max(u)}]) BY <1>8
    <2>2. s[Max(u)] \in Clips(want) BY <1>1, <1>5
    <2>3. QED BY <1>4, <2>1, <2>2
  <1>11. W[1..n] = Run(h, base, s)
    <2>1. Recurs(W, V, h, base, s) BY <1>9, <1>10 DEF Recurs, n
    <2>2. QED BY <1>3, <2>1, FoldIsRun DEF n
  <1>12. QED BY <1>2, <1>11 DEF h, base

SweepGood(s, want, acc) ==
    /\ acc \in Sweeps /\ want.lo <= acc.cursor /\ acc.cursor <= want.hi
    /\ \A h \in Range(acc.holes) : Inside(h, want) /\ h.hi <= acc.cursor
    /\ Separate(acc.holes)
    /\ \A b \in Nat : want.lo <= b /\ b < acc.cursor => HeldIn(s, b) \/ HeldIn(acc.holes, b)

LEMMA HeldAppend ==
  ASSUME NEW E, NEW s \in Seq(E), NEW e \in E, NEW b
  PROVE  HeldIn(Append(s, e), b) <=> HeldIn(s, b) \/ (e.lo <= b /\ b < e.hi)
  BY RangeAppend DEF HeldIn

LEMMA SweepStep ==
  ASSUME NEW want \in Pieces, want.lo < want.hi, NEW q \in Seq(Clips(want)), NEW e \in Clips(want),
         NEW c, SweepGood(q, want, c)
  PROVE  SweepGood(Append(q, e), want, Swept(want, e, c))
  <1> DEFINE a == Append(q, e)
             d == Swept(want, e, c)
             hole == Interval(c.cursor, e.lo)
             more == Append(c.holes, hole)
  <1>1. want.lo \in Nat /\ want.hi \in Nat BY DEF Pieces
  <1>2. /\ e \in Pieces /\ e.lo \in Nat /\ e.hi \in Nat
        /\ want.lo <= e.lo /\ e.lo < e.hi /\ e.hi <= want.hi
    BY DEF Clips, Inside, Pieces
  <1>3. c.cursor \in Nat /\ c.holes \in Seq(Pieces) /\ want.lo <= c.cursor /\ c.cursor <= want.hi
    BY DEF SweepGood, Sweeps
  <1>4. \A b \in Nat : HeldIn(a, b) <=> HeldIn(q, b) \/ (e.lo <= b /\ b < e.hi)
    BY HeldAppend
  <1>5. d \in Sweeps
    <2>1. SweepGood(q, want, c) => c \in Sweeps BY DEF SweepGood
    <2>2. hole \in Pieces BY <1>2, <1>3 DEF Interval, Pieces
    <2>3. more \in Seq(Pieces) BY <1>3, <2>2, AppendProperties
    <2>4. QED BY <1>2, <1>3, <2>1, <2>3 DEF Swept, Sweeps
  <1> HIDE DEF a
  <1>6. CASE e.hi <= c.cursor \/ c.cursor >= want.hi
    <2>1. d = c BY <1>6 DEF Swept
    <2>2. SweepGood(a, want, c) BY <1>4 DEF SweepGood
    <2>3. QED BY <2>1, <2>2 DEF a
  <1>7. CASE ~(e.hi <= c.cursor \/ c.cursor >= want.hi) /\ ~(e.lo > c.cursor)
    <2>1. d.holes = c.holes /\ d.cursor = e.hi BY <1>7 DEF Swept
    <2> HIDE DEF d
    <2>2. want.lo <= d.cursor /\ d.cursor <= want.hi BY <1>1, <1>2, <2>1
    <2>3. \A h \in Range(c.holes) : Inside(h, want) /\ h.hi <= d.cursor
      <3> SUFFICES ASSUME NEW h \in Range(c.holes) PROVE Inside(h, want) /\ h.hi <= d.cursor
        OBVIOUS
      <3>1. Inside(h, want) /\ h.hi <= c.cursor BY DEF SweepGood
      <3>2. h \in Pieces BY <1>3, RangeSeq
      <3>3. h.hi \in Nat BY <3>2 DEF Pieces
      <3>4. QED BY <1>2, <1>3, <1>7, <2>1, <3>1, <3>3
    <2>4. ASSUME NEW b \in Nat, want.lo <= b, b < d.cursor PROVE HeldIn(a, b) \/ HeldIn(c.holes, b)
      <3>1. CASE b < c.cursor BY <1>4, <2>4, <3>1 DEF SweepGood
      <3>2. CASE ~(b < c.cursor)
        <4>1. e.lo <= b /\ b < e.hi BY <1>2, <1>3, <1>7, <2>1, <2>4, <3>2
        <4>2. QED BY <1>4, <4>1
      <3>3. QED BY <3>1, <3>2
    <2>5. Separate(c.holes) BY DEF SweepGood
    <2>6. SweepGood(a, want, d) BY <1>5, <2>1, <2>2, <2>3, <2>4, <2>5 DEF SweepGood
    <2>7. QED BY <2>6 DEF a, d
  <1>8. CASE ~(e.hi <= c.cursor \/ c.cursor >= want.hi) /\ e.lo > c.cursor
    <2>1. d.holes = more /\ d.cursor = e.hi BY <1>8 DEF Swept
    <2>2. hole \in Pieces /\ hole.lo = c.cursor /\ hole.hi = e.lo
      BY <1>2, <1>3 DEF Interval, Pieces
    <2> HIDE DEF hole
    <2>3. Range(more) = Range(c.holes) \cup {hole} BY <1>3, <2>2, RangeAppend
    <2>4. \A b \in Nat : HeldIn(more, b) <=> HeldIn(c.holes, b) \/ (hole.lo <= b /\ b < hole.hi)
      BY <1>3, <2>2, HeldAppend
    <2>5. \A h \in Range(c.holes) : Inside(h, want) /\ h.hi <= c.cursor /\ h.hi \in Nat
      <3>1. Range(c.holes) \subseteq Pieces BY <1>3, RangeSeq
      <3>2. QED BY <3>1 DEF SweepGood, Pieces
    <2>6. Separate(more)
      <3>1. \A h \in Range(c.holes) : Apart(h, hole) BY <2>2, <2>5 DEF Apart
      <3>2. Separate(c.holes) BY DEF SweepGood
      <3>3. QED BY <1>3, <2>2, <3>1, <3>2, SeparateAppend
    <2> HIDE DEF d, more
    <2>7. want.lo <= d.cursor /\ d.cursor <= want.hi BY <1>1, <1>2, <2>1
    <2>8. \A h \in Range(more) : Inside(h, want) /\ h.hi <= d.cursor
      <3> SUFFICES ASSUME NEW h \in Range(more) PROVE Inside(h, want) /\ h.hi <= d.cursor
        OBVIOUS
      <3>1. CASE h = hole
        BY <1>1, <1>2, <1>3, <1>8, <2>1, <2>2, <3>1 DEF Inside
      <3>2. CASE h \in Range(c.holes)
        BY <1>2, <1>3, <1>8, <2>1, <2>5, <3>2
      <3>3. QED BY <2>3, <3>1, <3>2
    <2>9. ASSUME NEW b \in Nat, want.lo <= b, b < d.cursor PROVE HeldIn(a, b) \/ HeldIn(more, b)
      <3>1. CASE b < c.cursor BY <1>4, <2>4, <2>9, <3>1 DEF SweepGood
      <3>2. CASE ~(b < c.cursor) /\ b < e.lo
        BY <1>3, <2>2, <2>4, <3>2
      <3>3. CASE e.lo <= b
        <4>1. e.lo <= b /\ b < e.hi BY <2>1, <2>9, <3>3
        <4>2. QED BY <1>4, <4>1
      <3>4. QED BY <1>2, <3>1, <3>2, <3>3
    <2>10. SweepGood(a, want, d) BY <1>5, <2>1, <2>6, <2>7, <2>8, <2>9 DEF SweepGood
    <2>11. QED BY <2>10 DEF a, d
  <1>9. QED BY <1>6, <1>7, <1>8

LEMMA SweepFacts ==
  ASSUME NEW want \in Pieces, want.lo < want.hi, NEW s \in Seq(Clips(want))
  PROVE  SweepGood(s, want, Run(Sweep(want), Started(want), s))
  <1> DEFINE h == Sweep(want)
             o == Started(want)
             P == {q \in Seq(Clips(want)) : SweepGood(q, want, Run(h, o, q))}
  <1>1. Stepwise(h, Clips(want), Sweeps, o) BY SweepSteps
  <1>2. <<>> \in P
    <2>1. Run(h, o, <<>>) = o BY <1>1, RunEmpty
    <2>2. o \in Sweeps /\ o.holes = <<>> /\ o.cursor = want.lo
      BY <1>1 DEF Stepwise, Started
    <2>3. Separate(<<>>) BY DEF Separate
    <2>4. want.lo \in Nat /\ want.hi \in Nat BY DEF Pieces
    <2> HIDE DEF o
    <2>5. SweepGood(<<>>, want, o) BY <2>2, <2>3, <2>4, RangeEmpty DEF SweepGood
    <2>6. <<>> \in Seq(Clips(want)) OBVIOUS
    <2>7. QED BY <2>1, <2>5, <2>6
  <1>3. ASSUME NEW q \in P, NEW e \in Clips(want) PROVE Append(q, e) \in P
    <2> DEFINE a == Append(q, e)
               c == Run(h, o, q)
               d == Run(h, o, a)
    <2>1. q \in Seq(Clips(want)) /\ SweepGood(q, want, c) OBVIOUS
    <2>2. a \in Seq(Clips(want)) BY <2>1, AppendProperties
    <2>3. d = h[<<e, c>>] BY <1>1, <2>1, RunAppend
    <2>4. c \in Sweeps BY <2>1 DEF SweepGood
    <2> HIDE DEF c, d
    <2>5. d = Swept(want, e, c) BY <2>3, <2>4 DEF Sweep
    <2>6. SweepGood(a, want, d) BY <2>1, <2>5, SweepStep
    <2>7. QED BY <2>2, <2>6 DEF d
  <1>4. P \in SUBSET Seq(Clips(want)) OBVIOUS
  <1> HIDE DEF P
  <1>5. P = Seq(Clips(want)) BY <1>2, <1>3, <1>4, InductSeq
  <1>6. QED BY <1>5 DEF P

LEMMA ClippedFacts ==
  ASSUME NEW E, Segments(E), NEW segments \in Seq(E), NEW want \in Pieces, want.lo < want.hi
  PROVE  /\ Clipped(segments, want) \in Seq(Clips(want)) /\ Ascending(Clipped(segments, want))
         /\ \A b \in Nat : HeldIn(Clipped(segments, want), b) => HeldIn(segments, b)
         /\ \A b \in Nat : /\ want.lo <= b /\ b < want.hi
                          /\ HeldIn(segments, b)
                          => HeldIn(Clipped(segments, want), b)
  <1> DEFINE hits == Hits(segments, want)
             Clip(e) == Interval(Larger(want.lo, e.lo), Smaller(want.hi, e.hi))
             t == [k \in DOMAIN hits |-> Clip(hits[k])]
  <1>1. hits \in Seq(E) /\ Range(hits) = {x \in Range(segments) : Overlaps(x, want)}
    <2>1. Range(segments) \cap {e \in Range(segments) : Overlaps(e, want)}
            = {x \in Range(segments) : Overlaps(x, want)}
      OBVIOUS
    <2>2. QED BY <2>1, WhereFacts DEF Hits
  <1>2. Clipped(segments, want) = Sorted(t) BY DEF Clipped
  <1> HIDE DEF hits
  <1>3. Len(hits) \in Nat /\ DOMAIN hits = 1..Len(hits) BY <1>1
  <1>4. \A k \in 1..Len(hits) : hits[k] \in Range(hits) BY <1>1, RangeSeq
  <1>5. \A x \in Range(hits) : x \in Range(segments) /\ Overlaps(x, want) /\ IsSegment(x)
    <2>1. Range(segments) \subseteq E BY RangeSeq
    <2>2. QED BY <1>1, <2>1 DEF Segments
  <1>6. want.lo \in Nat /\ want.hi \in Nat BY DEF Pieces
  <1>7. ASSUME NEW x \in Range(hits)
        PROVE  /\ Clip(x) \in Clips(want)
               /\ x.lo <= Clip(x).lo /\ Clip(x).hi <= x.hi /\ x.lo \in Nat /\ x.hi \in Nat
               /\ \A b \in Nat : want.lo <= b /\ b < want.hi /\ x.lo <= b /\ b < x.hi
                                 => Clip(x).lo <= b /\ b < Clip(x).hi
    <2> DEFINE l == Larger(want.lo, x.lo)
               r == Smaller(want.hi, x.hi)
    <2>1. Overlaps(x, want) /\ IsSegment(x) BY <1>5
    <2>2. x.lo \in Nat /\ x.hi \in Nat BY <2>1 DEF IsSegment
    <2>3. /\ l \in Nat /\ r \in Nat /\ l < r /\ want.lo <= l /\ r <= want.hi
          /\ x.lo <= l /\ r <= x.hi
      BY <1>6, <2>1, <2>2 DEF Overlaps, IsSegment, Larger, Smaller
    <2> HIDE DEF l, r
    <2>4. Clip(x) = [lo |-> l, hi |-> r] BY DEF Interval, l, r
    <2>5. \A b \in Nat : want.lo <= b /\ b < want.hi /\ x.lo <= b /\ b < x.hi => l <= b /\ b < r
      BY <1>6, <2>2 DEF l, r, Larger, Smaller
    <2>6. QED BY <2>2, <2>3, <2>4, <2>5 DEF Clips, Inside, Pieces
  <1> HIDE DEF Clip
  <1>8. t \in Seq(Clips(want)) /\ Len(t) = Len(hits) /\ \A k \in 1..Len(hits) : t[k] = Clip(hits[k])
    <2>1. t \in [1..Len(hits) -> Clips(want)] BY <1>3, <1>4, <1>7
    <2>2. QED BY <1>3, <2>1
  <1> HIDE DEF t
  <1>9. Bounded(Clips(want)) BY DEF Bounded, Clips, Pieces
  <1>10. Sorted(t) \in Seq(Clips(want)) /\ Range(Sorted(t)) = Range(t) /\ Ascending(Sorted(t))
    BY <1>8, <1>9, SortedFacts
  <1>11. ASSUME NEW b \in Nat, HeldIn(Sorted(t), b) PROVE HeldIn(segments, b)
    <2>1. PICK y \in Range(t) : y.lo <= b /\ b < y.hi BY <1>10, <1>11 DEF HeldIn
    <2>2. PICK k \in 1..Len(t) : t[k] = y BY <1>8, RangeSeq
    <2>3. y = Clip(hits[k]) /\ hits[k] \in Range(hits) BY <1>4, <1>8, <2>2
    <2> DEFINE x == hits[k]
    <2> HIDE DEF x
    <2>4. x \in Range(hits) /\ y = Clip(x) BY <2>3 DEF x
    <2>5. x.lo <= y.lo /\ y.hi <= x.hi /\ x.lo \in Nat /\ x.hi \in Nat /\ y \in Clips(want)
      BY <1>7, <2>4
    <2>6. y.lo \in Nat /\ y.hi \in Nat BY <2>5 DEF Clips, Pieces
    <2>7. x.lo <= b /\ b < x.hi BY <2>1, <2>5, <2>6
    <2>8. x \in Range(segments) BY <1>5, <2>4
    <2>9. QED BY <2>7, <2>8 DEF HeldIn
  <1>12. ASSUME NEW b \in Nat, want.lo <= b, b < want.hi, HeldIn(segments, b)
         PROVE  HeldIn(Sorted(t), b)
    <2>1. PICK x \in Range(segments) : x.lo <= b /\ b < x.hi BY <1>12 DEF HeldIn
    <2>2. IsSegment(x)
      <3>1. Range(segments) \subseteq E BY RangeSeq
      <3>2. QED BY <3>1 DEF Segments
    <2>3. Overlaps(x, want) BY <1>6, <1>12, <2>1, <2>2 DEF Overlaps, IsSegment
    <2>4. x \in Range(hits) BY <1>1, <2>3
    <2>5. PICK k \in 1..Len(hits) : hits[k] = x BY <1>1, <2>4, RangeSeq
    <2>6. t[k] = Clip(x) BY <1>8, <2>5
    <2>7. t[k] \in Range(t) BY <1>8, RangeSeq
    <2>8. Clip(x).lo <= b /\ b < Clip(x).hi BY <1>7, <1>12, <2>1, <2>4
    <2>9. QED BY <1>10, <2>6, <2>7, <2>8 DEF HeldIn
  <1>13. QED BY <1>2, <1>10, <1>11, <1>12

\* What #missing returns; and if that is nothing, #assemble has the bytes.
LEMMA MissingFacts ==
  ASSUME NEW E, Segments(E), NEW segments \in Seq(E), NEW want \in Pieces, want.lo < want.hi,
         NEW holes, holes = Missing(segments, want)
  PROVE  /\ holes \in Seq(Pieces) /\ Separate(holes)
         /\ \A h \in Range(holes) : Inside(h, want)
         /\ holes = <<>> => Assembled(segments, want)
  <1> DEFINE s == Clipped(segments, want)
             c == Run(Sweep(want), Started(want), s)
             last == Interval(c.cursor, want.hi)
  <1>1. s \in Seq(Clips(want)) /\ \A b \in Nat : HeldIn(s, b) => HeldIn(segments, b)
    BY ClippedFacts
  <1>2. holes = Closed(want, c) BY <1>1, MissingIsRun
  <1>3. SweepGood(s, want, c) BY <1>1, SweepFacts
  <1> HIDE DEF s, c
  <1>4. want.lo \in Nat /\ want.hi \in Nat BY DEF Pieces
  <1>5. c.cursor \in Nat /\ c.holes \in Seq(Pieces) /\ want.lo <= c.cursor /\ c.cursor <= want.hi
    BY <1>3 DEF SweepGood, Sweeps
  <1>6. \A h \in Range(c.holes) : Inside(h, want) /\ h.hi <= c.cursor
    BY <1>3 DEF SweepGood
  <1>7. Separate(c.holes) BY <1>3 DEF SweepGood
  <1>8. CASE c.cursor < want.hi
    <2>1. holes = Append(c.holes, last) BY <1>2, <1>8 DEF Closed
    <2>2. last \in Pieces /\ last.lo = c.cursor /\ last.hi = want.hi
      BY <1>4, <1>5 DEF Interval, Pieces
    <2> HIDE DEF last
    <2>3. holes \in Seq(Pieces) /\ Range(holes) = Range(c.holes) \cup {last} /\ holes # <<>>
      BY <1>5, <2>1, <2>2, AppendProperties, RangeAppend
    <2>4. Inside(last, want) BY <1>4, <1>5, <1>8, <2>2 DEF Inside
    <2>5. \A h \in Range(c.holes) : Apart(h, last) BY <1>6, <2>2 DEF Apart
    <2>6. Separate(holes) BY <1>5, <1>7, <2>1, <2>2, <2>5, SeparateAppend
    <2>7. QED BY <1>6, <2>3, <2>4, <2>6
  <1>9. CASE ~(c.cursor < want.hi)
    <2>1. holes = c.holes BY <1>2, <1>9 DEF Closed
    <2>2. ASSUME holes = <<>> PROVE Assembled(segments, want)
      <3>1. ASSUME NEW b \in Nat, want.lo <= b, b < want.hi PROVE HeldIn(segments, b)
        <4>1. b < c.cursor BY <1>4, <1>5, <1>9, <3>1
        <4>2. HeldIn(s, b) \/ HeldIn(c.holes, b) BY <1>3, <3>1, <4>1 DEF SweepGood
        <4>3. ~HeldIn(c.holes, b) BY <2>1, <2>2, RangeEmpty DEF HeldIn
        <4>4. QED BY <1>1, <4>2, <4>3
      <3>2. QED BY <3>1, HeldIsAssembled
    <2>3. QED BY <1>5, <1>6, <1>7, <2>1, <2>2
  <1>10. QED BY <1>8, <1>9

-----------------------------------------------------------------------------
(* What the sweeps compute, by sets of bytes.                              *)
LEMMA HeldBytes ==
  ASSUME NEW E, Bounded(E), NEW s \in Seq(E)
  PROVE  BytesOf(s) = {b \in Nat : HeldIn(s, b)}
  <1>1. DOMAIN s = 1..Len(s) /\ \A k \in 1..Len(s) : s[k] \in E OBVIOUS
  <1>2. \A x : x \in Range(s) <=> \E k \in 1..Len(s) : s[k] = x BY RangeSeq
  <1>3. ASSUME NEW b, NEW k \in 1..Len(s)
        PROVE  b \in Bytes(s[k]) <=> b \in Nat /\ s[k].lo <= b /\ b < s[k].hi
    <2>1. s[k].lo \in Nat /\ s[k].hi \in Nat BY <1>1 DEF Bounded
    <2>2. QED BY <2>1 DEF Bytes
  <1>4. ASSUME NEW b PROVE b \in BytesOf(s) <=> b \in Nat /\ HeldIn(s, b)
    <2>1. b \in BytesOf(s) <=> \E k \in 1..Len(s) : b \in Bytes(s[k]) BY <1>1 DEF BytesOf
    <2>2. b \in BytesOf(s) <=> \E k \in 1..Len(s) : b \in Nat /\ s[k].lo <= b /\ b < s[k].hi
      BY <1>3, <2>1
    <2>3. HeldIn(s, b) <=> \E k \in 1..Len(s) : s[k].lo <= b /\ b < s[k].hi
      BY <1>2 DEF HeldIn
    <2>4. QED BY <2>2, <2>3
  <1>5. QED BY <1>4

\* Every byte the cursor of #assemble has passed is held.
ReachHeld(s, want, cursor) ==
    /\ cursor \in Nat
    /\ \A b \in Nat : want.lo <= b /\ b < cursor => HeldIn(s, b)

LEMMA ReachHolds ==
  ASSUME NEW E, Segments(E), NEW want \in Pieces, NEW s \in Seq(E)
  PROVE  ReachHeld(s, want, Run(Reach(E, want), want.lo, s))
  <1> DEFINE h == Reach(E, want)
             P == {q \in Seq(E) : ReachHeld(q, want, Run(h, want.lo, q))}
  <1>0. want.lo \in Nat /\ want.hi \in Nat BY DEF Pieces
  <1>1. Stepwise(h, E, Nat, want.lo) BY ReachSteps
  <1>2. <<>> \in P
    <2>1. Run(h, want.lo, <<>>) = want.lo BY <1>1, RunEmpty
    <2>2. ReachHeld(<<>>, want, want.lo) BY <1>0 DEF ReachHeld
    <2>3. <<>> \in Seq(E) OBVIOUS
    <2>4. QED BY <2>1, <2>2, <2>3
  <1>3. ASSUME NEW q \in P, NEW e \in E PROVE Append(q, e) \in P
    <2> DEFINE a == Append(q, e)
               c == Run(h, want.lo, q)
               d == Run(h, want.lo, a)
    <2>1. q \in Seq(E) /\ ReachHeld(q, want, c) OBVIOUS
    <2>2. a \in Seq(E) BY <2>1, AppendProperties
    <2>3. \A b \in Nat : HeldIn(a, b) <=> HeldIn(q, b) \/ (e.lo <= b /\ b < e.hi)
      BY <2>1, HeldAppend
    <2>4. d = h[<<e, c>>] BY <1>1, <2>1, RunAppend
    <2> HIDE DEF a, c, d
    <2>5. c \in Nat BY <2>1 DEF ReachHeld
    <2>6. d = Passed(want, e, c) BY <2>4, <2>5 DEF Reach
    <2>7. IsSegment(e) BY DEF Segments
    <2>8. d \in Nat BY <1>0, <2>5, <2>6, <2>7 DEF Passed, IsSegment, Smaller
    <2>9. ASSUME NEW b \in Nat, want.lo <= b, b < d PROVE HeldIn(a, b)
      <3>1. CASE b < c BY <2>1, <2>3, <2>9, <3>1 DEF ReachHeld
      <3>2. CASE ~(b < c)
        <4>1. e.lo <= b /\ b < e.hi
          BY <1>0, <2>5, <2>6, <2>7, <2>9, <3>2 DEF Passed, IsSegment, Smaller
        <4>2. QED BY <2>3, <4>1
      <3>3. QED BY <3>1, <3>2
    <2>10. ReachHeld(a, want, d) BY <2>8, <2>9 DEF ReachHeld
    <2>11. QED BY <2>2, <2>10 DEF a, d
  <1>4. P \in SUBSET Seq(E) OBVIOUS
  <1> HIDE DEF P
  <1>5. P = Seq(E) BY <1>2, <1>3, <1>4, InductSeq
  <1>6. QED BY <1>5 DEF P

LEMMA AssembledIsHeld ==
  ASSUME NEW E, Segments(E), NEW segments \in Seq(E), NEW want \in Pieces,
         Assembled(segments, want), NEW b \in Nat, want.lo <= b, b < want.hi
  PROVE  HeldIn(segments, b)
  <1> DEFINE hits == Hits(segments, want)
             s == Sorted(hits)
             c == Run(Reach(E, want), want.lo, s)
  <1>b. Bounded(E) BY DEF Bounded, Segments, IsSegment
  <1>1. hits \in Seq(E) /\ Range(hits) = {x \in Range(segments) : Overlaps(x, want)}
    <2>1. Range(segments) \cap {e \in Range(segments) : Overlaps(e, want)}
            = {x \in Range(segments) : Overlaps(x, want)}
      OBVIOUS
    <2>2. QED BY <2>1, WhereFacts DEF Hits
  <1>2. s \in Seq(E) /\ Range(s) = Range(hits) BY <1>1, <1>b, SortedFacts
  <1>3. Assembled(segments, want) <=> c >= want.hi BY <1>2, AssembledIsRun
  <1>4. ReachHeld(s, want, c) BY <1>2, ReachHolds
  <1> HIDE DEF hits, s, c
  <1>5. want.lo \in Nat /\ want.hi \in Nat BY DEF Pieces
  <1>6. c \in Nat /\ c >= want.hi BY <1>3, <1>4 DEF ReachHeld
  <1>7. b < c BY <1>5, <1>6
  <1>8. HeldIn(s, b) BY <1>4, <1>7 DEF ReachHeld
  <1>9. QED BY <1>1, <1>2, <1>8 DEF HeldIn

\* #assemble hands out a range exactly when the segments hold all its bytes.
THEOREM AssemblesExactly ==
  ASSUME NEW E, Segments(E), NEW segments \in Seq(E), NEW want \in Pieces
  PROVE  AssembledExact(segments, want)
  <1>1. BytesOf(segments) = {b \in Nat : HeldIn(segments, b)}
    <2>1. Bounded(E) BY DEF Bounded, Segments, IsSegment
    <2>2. QED BY <2>1, HeldBytes
  <1>2. want.lo \in Nat /\ want.hi \in Nat BY DEF Pieces
  <1>3. Bytes(want) = {b \in Nat : want.lo <= b /\ b < want.hi} BY <1>2 DEF Bytes
  <1>4. Bytes(want) \subseteq BytesOf(segments)
          <=> \A b \in Nat : want.lo <= b /\ b < want.hi => HeldIn(segments, b)
    BY <1>1, <1>3
  <1>5. Assembled(segments, want) => \A b \in Nat : want.lo <= b /\ b < want.hi => HeldIn(segments, b)
    BY AssembledIsHeld
  <1>6. (\A b \in Nat : want.lo <= b /\ b < want.hi => HeldIn(segments, b)) => Assembled(segments, want)
    BY HeldIsAssembled
  <1>7. QED BY <1>4, <1>5, <1>6 DEF AssembledExact

\* Holes in ascending order that do not touch.
LEMMA IncreasingAppend ==
  ASSUME NEW s \in Seq(Pieces), NEW e \in Pieces, Increasing(s), \A x \in Range(s) : x.hi < e.lo
  PROVE  Increasing(Append(s, e))
  <1> DEFINE a == Append(s, e)
             n == Len(s)
  <1>1. Len(a) = n + 1 /\ n \in Nat /\ a[n + 1] = e /\ \A i \in 1..n : a[i] = s[i]
    BY AppendProperties
  <1>2. \A i \in 1..n : s[i] \in Range(s) BY RangeSeq
  <1>3. \A k \in 1..(n - 1) : s[k].hi < s[k + 1].lo BY DEF Increasing
  <1> HIDE DEF a, n
  <1>4. ASSUME NEW k \in 1..n PROVE a[k].hi < a[k + 1].lo
    <2>1. CASE k = n BY <1>1, <1>2, <2>1
    <2>2. CASE k # n
      <3>1. k \in 1..(n - 1) /\ k + 1 \in 1..n BY <1>1, <2>2
      <3>2. a[k] = s[k] /\ a[k + 1] = s[k + 1] BY <1>1, <3>1
      <3>3. QED BY <1>3, <3>1, <3>2
    <2>3. QED BY <2>1, <2>2
  <1>5. (n + 1) - 1 = n BY <1>1
  <1>6. QED BY <1>1, <1>4, <1>5 DEF Increasing, a

\* The cursor of #missing has passed every segment so far, each hole ends
\* where a segment begins, and no segment reaches into a hole.
SweepApart(s, acc) ==
    /\ \A x \in Range(s) : x.hi <= acc.cursor
    /\ Ascending(s) =>
         /\ \A h \in Range(acc.holes) : \E x \in Range(s) : h.hi = x.lo
         /\ \A h \in Range(acc.holes), x \in Range(s) : Apart(h, x)
         /\ Increasing(acc.holes)

LEMMA SweepApartStep ==
  ASSUME NEW want \in Pieces, want.lo < want.hi, NEW q \in Seq(Clips(want)), NEW e \in Clips(want),
         NEW c \in Sweeps, SweepApart(q, c)
  PROVE  SweepApart(Append(q, e), Swept(want, e, c))
  <1> DEFINE a == Append(q, e)
             d == Swept(want, e, c)
             hole == Interval(c.cursor, e.lo)
             more == Append(c.holes, hole)
  <1>1. want.lo \in Nat /\ want.hi \in Nat BY DEF Pieces
  <1>2. e.lo \in Nat /\ e.hi \in Nat /\ e.lo < e.hi /\ e.hi <= want.hi BY DEF Clips, Inside, Pieces
  <1>3. c.cursor \in Nat /\ c.holes \in Seq(Pieces) BY DEF Sweeps
  <1>4. Range(a) = Range(q) \cup {e} BY RangeAppend
  <1>5. Ascending(a) => Ascending(q) /\ \A x \in Range(q) : x.lo <= e.lo
    BY AscendingAppend
  <1>6. \A x \in Range(q) : x.lo \in Nat /\ x.hi \in Nat /\ x.lo < x.hi /\ x.hi <= c.cursor
    <2>1. Range(q) \subseteq Clips(want) BY RangeSeq
    <2>2. QED BY <2>1 DEF SweepApart, Clips, Inside, Pieces
  <1>7. \A h \in Range(c.holes) : h.lo \in Nat /\ h.hi \in Nat
    <2>1. Range(c.holes) \subseteq Pieces BY <1>3, RangeSeq
    <2>2. QED BY <2>1 DEF Pieces
  <1>8. ASSUME Ascending(a)
        PROVE  \A h \in Range(c.holes) : /\ h.hi <= e.lo /\ h.hi < c.cursor
                                         /\ \E x \in Range(q) : h.hi = x.lo
    <2> SUFFICES ASSUME NEW h \in Range(c.holes)
                 PROVE  h.hi <= e.lo /\ h.hi < c.cursor /\ \E x \in Range(q) : h.hi = x.lo
      OBVIOUS
    <2>1. PICK x \in Range(q) : h.hi = x.lo BY <1>5, <1>8 DEF SweepApart
    <2>2. x.lo <= e.lo /\ x.lo < c.cursor BY <1>3, <1>5, <1>6, <1>8
    <2>3. QED BY <2>1, <2>2
  <1>9. ASSUME Ascending(a)
        PROVE  /\ \A h \in Range(c.holes) : \E x \in Range(a) : h.hi = x.lo
               /\ \A h \in Range(c.holes), x \in Range(a) : Apart(h, x)
               /\ Increasing(c.holes)
    <2>1. \A h \in Range(c.holes) : Apart(h, e) BY <1>8, <1>9 DEF Apart
    <2>2. \A h \in Range(c.holes), x \in Range(q) : Apart(h, x) BY <1>5, <1>9 DEF SweepApart
    <2>3. Increasing(c.holes) BY <1>5, <1>9 DEF SweepApart
    <2>4. QED BY <1>4, <1>8, <1>9, <2>1, <2>2, <2>3
  <1> HIDE DEF a
  <1>10. CASE e.hi <= c.cursor \/ c.cursor >= want.hi
    <2>1. d = c BY <1>10 DEF Swept
    <2>2. e.hi <= c.cursor BY <1>1, <1>2, <1>3, <1>10
    <2>3. SweepApart(a, c) BY <1>4, <1>6, <1>9, <2>2 DEF SweepApart
    <2>4. QED BY <2>1, <2>3 DEF a
  <1>11. CASE ~(e.hi <= c.cursor \/ c.cursor >= want.hi) /\ ~(e.lo > c.cursor)
    <2>1. d.holes = c.holes /\ d.cursor = e.hi BY <1>11 DEF Swept
    <2> HIDE DEF d
    <2>2. \A x \in Range(a) : x.hi <= d.cursor BY <1>2, <1>3, <1>4, <1>6, <1>11, <2>1
    <2>3. SweepApart(a, d) BY <1>9, <2>1, <2>2 DEF SweepApart
    <2>4. QED BY <2>3 DEF a, d
  <1>12. CASE ~(e.hi <= c.cursor \/ c.cursor >= want.hi) /\ e.lo > c.cursor
    <2>1. d.holes = more /\ d.cursor = e.hi BY <1>12 DEF Swept
    <2>2. hole \in Pieces /\ hole.lo = c.cursor /\ hole.hi = e.lo
      BY <1>2, <1>3 DEF Interval, Pieces
    <2> HIDE DEF hole
    <2>3. Range(more) = Range(c.holes) \cup {hole} BY <1>3, <2>2, RangeAppend
    <2> HIDE DEF d
    <2>4. \A x \in Range(a) : x.hi <= d.cursor BY <1>2, <1>3, <1>4, <1>6, <1>12, <2>1
    <2>5. ASSUME Ascending(a) PROVE Increasing(more)
      <3>1. \A h \in Range(c.holes) : h.hi < hole.lo BY <1>8, <2>2, <2>5
      <3>2. Increasing(c.holes) BY <1>9, <2>5
      <3>3. QED BY <1>3, <2>2, <3>1, <3>2, IncreasingAppend
    <2> HIDE DEF more
    <2>6. \A x \in Range(a) : Apart(hole, x)
      <3> SUFFICES ASSUME NEW x \in Range(a) PROVE Apart(hole, x) OBVIOUS
      <3>1. CASE x = e BY <1>2, <2>2, <3>1 DEF Apart
      <3>2. CASE x \in Range(q) BY <1>6, <2>2, <3>2 DEF Apart
      <3>3. QED BY <1>4, <3>1, <3>2
    <2>7. e \in Range(a) /\ hole.hi = e.lo BY <1>4, <2>2
    <2>8. ASSUME Ascending(a)
          PROVE  /\ \A h \in Range(more) : \E x \in Range(a) : h.hi = x.lo
                 /\ \A h \in Range(more), x \in Range(a) : Apart(h, x)
      BY <1>9, <2>3, <2>6, <2>7, <2>8
    <2>9. SweepApart(a, d) BY <2>1, <2>4, <2>5, <2>8 DEF SweepApart
    <2>10. QED BY <2>9 DEF a, d
  <1>13. QED BY <1>10, <1>11, <1>12

LEMMA SweepApartFacts ==
  ASSUME NEW want \in Pieces, want.lo < want.hi, NEW s \in Seq(Clips(want))
  PROVE  SweepApart(s, Run(Sweep(want), Started(want), s))
  <1> DEFINE h == Sweep(want)
             o == Started(want)
             P == {q \in Seq(Clips(want)) : SweepApart(q, Run(h, o, q))}
  <1>1. Stepwise(h, Clips(want), Sweeps, o) BY SweepSteps
  <1>2. <<>> \in P
    <2>1. Run(h, o, <<>>) = o BY <1>1, RunEmpty
    <2>2. o.holes = <<>> BY DEF Started
    <2>3. Increasing(<<>>) BY DEF Increasing
    <2> HIDE DEF o
    <2>4. SweepApart(<<>>, o) BY <2>2, <2>3, RangeEmpty DEF SweepApart
    <2>5. <<>> \in Seq(Clips(want)) OBVIOUS
    <2>6. QED BY <2>1, <2>4, <2>5
  <1>3. ASSUME NEW q \in P, NEW e \in Clips(want) PROVE Append(q, e) \in P
    <2> DEFINE a == Append(q, e)
               c == Run(h, o, q)
               d == Run(h, o, a)
    <2>1. q \in Seq(Clips(want)) /\ SweepApart(q, c) OBVIOUS
    <2>2. a \in Seq(Clips(want)) BY <2>1, AppendProperties
    <2>3. d = h[<<e, c>>] BY <1>1, <2>1, RunAppend
    <2>4. c \in Sweeps BY <1>1, <2>1, RunFollows
    <2> HIDE DEF c, d
    <2>5. d = Swept(want, e, c) BY <2>3, <2>4 DEF Sweep
    <2>6. SweepApart(a, d) BY <2>1, <2>4, <2>5, SweepApartStep
    <2>7. QED BY <2>2, <2>6 DEF d
  <1>4. P \in SUBSET Seq(Clips(want)) OBVIOUS
  <1> HIDE DEF P
  <1>5. P = Seq(Clips(want)) BY <1>2, <1>3, <1>4, InductSeq
  <1>6. QED BY <1>5 DEF P

\* #missing returns the bytes no segment holds, as separate ranges in
\* ascending order: none is asked for twice and none is left out.
THEOREM HolesExactly ==
  ASSUME NEW E, Segments(E), NEW segments \in Seq(E), NEW want \in Pieces, want.lo < want.hi
  PROVE  MissingExact(segments, want)
  <1> DEFINE s == Clipped(segments, want)
             c == Run(Sweep(want), Started(want), s)
             last == Interval(c.cursor, want.hi)
             holes == Missing(segments, want)
  <1>1. /\ s \in Seq(Clips(want)) /\ Ascending(s)
        /\ \A b \in Nat : want.lo <= b /\ b < want.hi => (HeldIn(s, b) <=> HeldIn(segments, b))
    BY ClippedFacts
  <1>2. holes = Closed(want, c) BY <1>1, MissingIsRun
  <1>3. SweepGood(s, want, c) /\ SweepApart(s, c) BY <1>1, SweepFacts, SweepApartFacts
  <1>4. holes \in Seq(Pieces) /\ \A h \in Range(holes) : Inside(h, want) BY MissingFacts
  <1> HIDE DEF s, c, holes
  <1>5. want.lo \in Nat /\ want.hi \in Nat BY DEF Pieces
  <1>6. c.cursor \in Nat /\ c.holes \in Seq(Pieces) /\ want.lo <= c.cursor /\ c.cursor <= want.hi
    BY <1>3 DEF SweepGood, Sweeps
  <1>7. \A x \in Range(s) : x.lo \in Nat /\ x.hi \in Nat /\ x.lo < x.hi /\ x.hi <= c.cursor
    <2>1. Range(s) \subseteq Clips(want) BY <1>1, RangeSeq
    <2>2. QED BY <1>3, <2>1 DEF SweepApart, Clips, Inside, Pieces
  <1>8. /\ \A h \in Range(c.holes) : \E x \in Range(s) : h.hi = x.lo
        /\ \A h \in Range(c.holes), x \in Range(s) : Apart(h, x)
        /\ Increasing(c.holes)
    BY <1>1, <1>3 DEF SweepApart
  <1>9. last \in Pieces /\ last.lo = c.cursor /\ last.hi = want.hi
    BY <1>5, <1>6 DEF Interval, Pieces
  <1> HIDE DEF last
  <1>10. /\ \A h \in Range(holes), x \in Range(s) : Apart(h, x)
         /\ Increasing(holes)
         /\ \A b \in Nat : want.lo <= b /\ b < want.hi => HeldIn(s, b) \/ HeldIn(holes, b)
    <2>1. CASE c.cursor < want.hi
      <3>1. holes = Append(c.holes, last) BY <1>2, <2>1 DEF Closed, last
      <3>2. Range(holes) = Range(c.holes) \cup {last} BY <1>6, <1>9, <3>1, RangeAppend
      <3>3. \A b \in Nat : HeldIn(holes, b) <=> HeldIn(c.holes, b) \/ (last.lo <= b /\ b < last.hi)
        BY <1>6, <1>9, <3>1, HeldAppend
      <3>4. \A x \in Range(s) : Apart(last, x) BY <1>7, <1>9 DEF Apart
      <3>5. \A h \in Range(c.holes) : h.hi < last.lo
        <4> SUFFICES ASSUME NEW h \in Range(c.holes) PROVE h.hi < last.lo OBVIOUS
        <4>1. PICK x \in Range(s) : h.hi = x.lo BY <1>8
        <4>2. QED BY <1>6, <1>7, <1>9, <4>1
      <3>6. Increasing(holes) BY <1>6, <1>8, <1>9, <3>1, <3>5, IncreasingAppend
      <3>7. ASSUME NEW b \in Nat, want.lo <= b, b < want.hi PROVE HeldIn(s, b) \/ HeldIn(holes, b)
        <4>1. CASE b < c.cursor BY <1>3, <3>3, <3>7, <4>1 DEF SweepGood
        <4>2. CASE ~(b < c.cursor) BY <1>6, <1>9, <3>3, <3>7, <4>2
        <4>3. QED BY <4>1, <4>2
      <3>8. QED BY <1>8, <3>2, <3>4, <3>6, <3>7
    <2>2. CASE ~(c.cursor < want.hi)
      <3>1. holes = c.holes BY <1>2, <2>2 DEF Closed
      <3>2. \A b \in Nat : b < want.hi => b < c.cursor BY <1>5, <1>6, <2>2
      <3>3. QED BY <1>3, <1>8, <3>1, <3>2 DEF SweepGood
    <2>3. QED BY <2>1, <2>2
  <1>11. ASSUME NEW b \in Nat
         PROVE  HeldIn(holes, b) <=> want.lo <= b /\ b < want.hi /\ ~HeldIn(segments, b)
    <2>1. ASSUME HeldIn(holes, b) PROVE want.lo <= b /\ b < want.hi /\ ~HeldIn(segments, b)
      <3>1. PICK h \in Range(holes) : h.lo <= b /\ b < h.hi BY <2>1 DEF HeldIn
      <3>2. h \in Pieces /\ Inside(h, want)
        <4>1. Range(holes) \subseteq Pieces BY <1>4, RangeSeq
        <4>2. QED BY <1>4, <4>1
      <3>3. want.lo <= b /\ b < want.hi BY <1>5, <3>1, <3>2 DEF Inside, Pieces
      <3>4. ASSUME HeldIn(s, b) PROVE FALSE
        <4>1. PICK x \in Range(s) : x.lo <= b /\ b < x.hi BY <3>4 DEF HeldIn
        <4>2. Apart(h, x) BY <1>10
        <4>3. QED BY <1>7, <3>1, <3>2, <4>1, <4>2 DEF Apart, Pieces
      <3>5. QED BY <1>1, <3>3, <3>4
    <2>2. ASSUME want.lo <= b, b < want.hi, ~HeldIn(segments, b) PROVE HeldIn(holes, b)
      BY <1>1, <1>10, <2>2
    <2>3. QED BY <2>1, <2>2
  <1>12. BytesOf(holes) = Bytes(want) \ BytesOf(segments)
    <2>1. Bounded(E) BY DEF Bounded, Segments, IsSegment
    <2>2. Bounded(Pieces) BY DEF Bounded, Pieces
    <2>3. BytesOf(segments) = {b \in Nat : HeldIn(segments, b)} BY <2>1, HeldBytes
    <2>4. BytesOf(holes) = {b \in Nat : HeldIn(holes, b)} BY <1>4, <2>2, HeldBytes
    <2>5. Bytes(want) = {b \in Nat : want.lo <= b /\ b < want.hi} BY <1>5 DEF Bytes
    <2>6. QED BY <1>11, <2>3, <2>4, <2>5
  <1>13. \A k \in DOMAIN holes : holes[k].lo < holes[k].hi
    <2>1. DOMAIN holes = 1..Len(holes) BY <1>4
    <2>2. \A k \in 1..Len(holes) : holes[k] \in Range(holes) BY <1>4, RangeSeq
    <2>3. QED BY <1>4, <2>1, <2>2 DEF Inside
  <1>14. QED BY <1>10, <1>12, <1>13 DEF MissingExact, holes

-----------------------------------------------------------------------------
(* mergeIntervals and coveredLength.                                       *)
Spans == {e \in Pieces : e.lo <= e.hi}

Longer(list, e) == [list EXCEPT ![Len(list)].hi = e.hi]
Joining(list, e) ==
    IF list # <<>> /\ e.lo <= Last(list).hi
    THEN IF e.hi > Last(list).hi THEN Longer(list, e) ELSE list
    ELSE Append(list, e)

Merge == [p \in Spans \X Seq(Spans) |-> Joining(p[2], p[1])]

\* The last range, made longer.
LEMMA Lengthened ==
  ASSUME NEW m \in Seq(Spans), m # <<>>, NEW e \in Spans, e.hi > Last(m).hi,
         NEW g, g = Longer(m, e)
  PROVE  /\ g \in Seq(Spans) /\ Len(g) = Len(m) /\ Len(m) \in Nat /\ Len(m) >= 1
         /\ g[Len(m)].lo = Last(m).lo /\ g[Len(m)].hi = e.hi
         /\ \A k \in 1..(Len(m) - 1) : g[k] = m[k]
  <1> DEFINE n == Len(m)
             x == [m[n] EXCEPT !.hi = e.hi]
  <1>1. n \in Nat /\ n >= 1 /\ DOMAIN m = 1..n /\ \A k \in 1..n : m[k] \in Spans OBVIOUS
  <1>2. m[n] \in Spans /\ Last(m) = m[n] BY <1>1 DEF Last
  <1>3. g = [m EXCEPT ![n] = x] BY DEF Longer
  <1>4. x \in Spans /\ x.lo = m[n].lo /\ x.hi = e.hi
    <2> DEFINE y == m[n]
    <2>1. y \in Pieces /\ y.lo <= y.hi /\ y.hi < e.hi /\ e.hi \in Nat BY <1>2 DEF Spans, Pieces
    <2> HIDE DEF y
    <2>2. [y EXCEPT !.hi = e.hi] = [lo |-> y.lo, hi |-> e.hi] BY <2>1 DEF Pieces
    <2>3. y.lo \in Nat /\ y.hi \in Nat /\ y.lo <= e.hi BY <2>1 DEF Pieces
    <2>4. x = [lo |-> y.lo, hi |-> e.hi] BY <2>2 DEF y
    <2> HIDE DEF x
    <2>5. x \in Spans BY <2>1, <2>3, <2>4 DEF Spans, Pieces
    <2>6. x.lo = y.lo /\ x.hi = e.hi BY <2>4
    <2>7. QED BY <2>5, <2>6 DEF y
  <1> HIDE DEF n, x
  <1>5. DOMAIN g = 1..n /\ g[n] = x /\ \A k \in 1..n : k # n => g[k] = m[k]
    BY <1>1, <1>3
  <1>6. g \in [1..n -> Spans] BY <1>1, <1>3, <1>4
  <1>7. g \in Seq(Spans) /\ Len(g) = n BY <1>1, <1>6
  <1>8. \A k \in 1..(n - 1) : g[k] = m[k]
    <2>1. \A k \in 1..(n - 1) : k \in 1..n /\ k # n BY <1>1
    <2>2. QED BY <1>5, <2>1
  <1>9. g[n].lo = Last(m).lo /\ g[n].hi = e.hi BY <1>2, <1>4, <1>5
  <1>10. QED BY <1>1, <1>7, <1>8, <1>9 DEF n

LEMMA MergeSteps ==
  /\ Stepwise(Merge, Spans, Seq(Spans), <<>>)
  /\ \A e \in Spans, m \in Seq(Spans) : Merge[<<e, m>>] = Joining(m, e)
  <1>1. ASSUME NEW e \in Spans, NEW m \in Seq(Spans) PROVE Joining(m, e) \in Seq(Spans)
    <2>1. Append(m, e) \in Seq(Spans) BY AppendProperties
    <2>2. m # <<>> /\ e.hi > Last(m).hi => Longer(m, e) \in Seq(Spans)
      BY Lengthened
    <2>3. QED BY <2>1, <2>2 DEF Joining
  <1>2. QED BY <1>1 DEF Stepwise, Merge

LEMMA MergedIsRun ==
  ASSUME NEW segments, NEW s \in Seq(Spans), s = Sorted(segments)
  PROVE  MergeIntervals(segments) = Run(Merge, <<>>, s)
  <1> DEFINE n == Len(s)
             V == Seq(Spans)
             h == Merge
             W == CHOOSE w : w = [u \in SUBSET (1..n) |->
                    IF u = {} THEN <<>> ELSE Joining(w[u \ {Max(u)}], s[Max(u)])]
  <1>1. DOMAIN s = 1..n /\ \A i \in 1..n : s[i] \in Spans OBVIOUS
  <1>2. MergeIntervals(segments) = W[1..n]
    BY <1>1 DEF MergeIntervals, FoldLeft, MapThenFoldSet, Joining, Longer
  <1>3. Stepwise(h, Spans, V, <<>>) BY MergeSteps
  <1>4. \A e \in Spans, v \in V : h[<<e, v>>] = Joining(v, e) BY MergeSteps, Zenon
  <1> HIDE DEF V, h
  <1>g. PICK g : Solution(g, V, h, <<>>, s) BY <1>3, FoldSolved, Zenon
  <1>5. /\ g \in [SUBSET (1..n) -> V] /\ g[{}] = <<>>
        /\ \A u \in SUBSET (1..n) : u # {} =>
             /\ Max(u) \in 1..n /\ u \ {Max(u)} \in SUBSET (1..n)
             /\ g[u] = h[<<s[Max(u)], g[u \ {Max(u)}]>>]
    BY <1>g, Zenon DEF Solution
  <1> HIDE DEF n
  <1>6. \A u \in SUBSET (1..n) : u # {} => g[u] = Joining(g[u \ {Max(u)}], s[Max(u)])
    <2> SUFFICES ASSUME NEW u \in SUBSET (1..n), u # {}
                 PROVE  g[u] = Joining(g[u \ {Max(u)}], s[Max(u)])
      OBVIOUS
    <2>1. s[Max(u)] \in Spans /\ g[u \ {Max(u)}] \in V /\ g[u] = h[<<s[Max(u)], g[u \ {Max(u)}]>>]
      BY <1>1, <1>5
    <2>2. QED BY <1>4, <2>1
  <1>7. g = [u \in SUBSET (1..n) |->
               IF u = {} THEN <<>> ELSE Joining(g[u \ {Max(u)}], s[Max(u)])]
    BY <1>5, <1>6
  <1>8. W = [u \in SUBSET (1..n) |->
               IF u = {} THEN <<>> ELSE Joining(W[u \ {Max(u)}], s[Max(u)])]
    BY <1>7, Zenon
  <1> HIDE DEF W
  <1>9. W[{}] = <<>> BY <1>8
  <1>10. \A u \in SUBSET (1..n) : u # {} /\ W[u \ {Max(u)}] \in V =>
            W[u] = h[<<s[Max(u)], W[u \ {Max(u)}]>>]
    <2> SUFFICES ASSUME NEW u \in SUBSET (1..n), u # {}, W[u \ {Max(u)}] \in V
                 PROVE  W[u] = h[<<s[Max(u)], W[u \ {Max(u)}]>>]
      OBVIOUS
    <2>1. W[u] = Joining(W[u \ {Max(u)}], s[Max(u)]) BY <1>8
    <2>2. s[Max(u)] \in Spans BY <1>1, <1>5
    <2>3. QED BY <1>4, <2>1, <2>2
  <1>11. W[1..n] = Run(h, <<>>, s)
    <2>1. Recurs(W, V, h, <<>>, s) BY <1>9, <1>10 DEF Recurs, n
    <2>2. QED BY <1>3, <2>1, FoldIsRun DEF n
  <1>12. QED BY <1>2, <1>11 DEF h

\* The merged ranges hold what the segments hold, do not touch, and the last
\* one begins where some segment does.
MergeGood(s, m) ==
    /\ m \in Seq(Spans)
    /\ Ascending(s) =>
         /\ \A b \in Nat : HeldIn(m, b) <=> HeldIn(s, b)
         /\ m # <<>> => \E x \in Range(s) : Last(m).lo = x.lo
         /\ Increasing(m)

LEMMA MergeStep ==
  ASSUME NEW q \in Seq(Spans), NEW e \in Spans, NEW m, MergeGood(q, m)
  PROVE  MergeGood(Append(q, e), Joining(m, e))
  <1> DEFINE a == Append(q, e)
             d == Joining(m, e)
             n == Len(m)
  <1>1. m \in Seq(Spans) BY DEF MergeGood
  <1>2. d \in Seq(Spans) BY <1>1, MergeSteps DEF Stepwise, Merge
  <1>3. Range(a) = Range(q) \cup {e} BY RangeAppend
  <1>4. \A b \in Nat : HeldIn(a, b) <=> HeldIn(q, b) \/ (e.lo <= b /\ b < e.hi) BY HeldAppend
  <1>5. e.lo \in Nat /\ e.hi \in Nat /\ e.lo <= e.hi BY DEF Spans, Pieces
  <1> SUFFICES ASSUME Ascending(a)
               PROVE  /\ \A b \in Nat : HeldIn(d, b) <=> HeldIn(a, b)
                      /\ d # <<>> => \E x \in Range(a) : Last(d).lo = x.lo
                      /\ Increasing(d)
    BY <1>2 DEF MergeGood
  <1>6. Ascending(q) /\ \A x \in Range(q) : x.lo <= e.lo BY AscendingAppend
  <1>7. /\ \A b \in Nat : HeldIn(m, b) <=> HeldIn(q, b)
        /\ m # <<>> => \E x \in Range(q) : Last(m).lo = x.lo
        /\ Increasing(m)
    BY <1>6 DEF MergeGood
  <1>8. n \in Nat /\ \A k \in 1..n : m[k] \in Spans BY <1>1
  <1>9. m # <<>> => n >= 1 /\ Last(m) = m[n] /\ Last(m).lo <= e.lo
    <2>1. m # <<>> => n >= 1 /\ Last(m) = m[n] BY <1>1 DEF Last
    <2>2. QED BY <1>6, <1>7, <2>1
  <1>10. \A y : y \in Range(m) <=> \E k \in 1..n : m[k] = y BY <1>1, RangeSeq
  <1>11. \A k \in 1..n : m[k].lo \in Nat /\ m[k].hi \in Nat /\ m[k].lo <= m[k].hi
    BY <1>8 DEF Spans, Pieces
  <1>12. \A k \in 1..(n - 1) : m[k].hi < m[k + 1].lo BY <1>7 DEF Increasing
  <1>13. \A b : HeldIn(m, b) <=> \E k \in 1..n : m[k].lo <= b /\ b < m[k].hi
    BY <1>10 DEF HeldIn
  <1> HIDE DEF a
  <1>14. CASE m # <<>> /\ e.lo <= Last(m).hi /\ e.hi > Last(m).hi
    <2> DEFINE g == Longer(m, e)
    <2>1. d = g BY <1>14 DEF Joining
    <2>2. /\ g \in Seq(Spans) /\ Len(g) = n /\ n >= 1
          /\ g[n].lo = Last(m).lo /\ g[n].hi = e.hi
          /\ \A k \in 1..(n - 1) : g[k] = m[k]
      <3>1. e.hi > Last(m).hi /\ m # <<>> /\ g = Longer(m, e) BY <1>14
      <3> HIDE DEF g
      <3>2. QED BY <1>1, <3>1, Lengthened
    <2> HIDE DEF g, n, d
    <2>3. Increasing(g)
      <3>1. ASSUME NEW k \in 1..(n - 1) PROVE g[k].hi < g[k + 1].lo
        <4>1. g[k] = m[k] /\ m[k].hi < m[k + 1].lo BY <1>12, <2>2
        <4>2. g[k + 1].lo = m[k + 1].lo
          <5>1. CASE k = n - 1 BY <1>8, <1>9, <1>14, <2>2, <5>1
          <5>2. CASE k # n - 1
            <6>1. k + 1 \in 1..(n - 1) BY <1>8, <5>2
            <6>2. QED BY <2>2, <6>1
          <5>3. QED BY <5>1, <5>2
        <4>3. QED BY <4>1, <4>2
      <3>2. QED BY <2>2, <3>1 DEF Increasing
    <2>4. \A y : y \in Range(g) <=> \E k \in 1..n : g[k] = y BY <2>2, RangeSeq
    <2>5. ASSUME NEW b \in Nat PROVE HeldIn(g, b) <=> HeldIn(m, b) \/ (e.lo <= b /\ b < e.hi)
      <3>1. HeldIn(g, b) <=> \E k \in 1..n : g[k].lo <= b /\ b < g[k].hi BY <2>4 DEF HeldIn
      <3>2. \A k \in 1..n : k # n => k \in 1..(n - 1) BY <1>8
      <3>3. \A k \in 1..(n - 1) : k \in 1..n BY <1>8
      <3>4. n \in 1..n BY <1>8, <2>2
      <3>5. HeldIn(g, b) <=> (\E k \in 1..(n - 1) : m[k].lo <= b /\ b < m[k].hi) \/ (g[n].lo <= b /\ b < g[n].hi)
        BY <2>2, <3>1, <3>2, <3>3, <3>4
      <3>6. HeldIn(m, b) <=> (\E k \in 1..(n - 1) : m[k].lo <= b /\ b < m[k].hi) \/ (m[n].lo <= b /\ b < m[n].hi)
        BY <1>13, <3>2, <3>3, <3>4
      <3> DEFINE low == m[n].lo
                 high == m[n].hi
                 top == g[n].hi
      <3>7. (g[n].lo <= b /\ b < g[n].hi) <=> (m[n].lo <= b /\ b < m[n].hi) \/ (e.lo <= b /\ b < e.hi)
        <4>1. low \in Nat /\ high \in Nat BY <1>11, <3>4
        <4>2. low <= e.lo /\ e.lo <= high /\ high < e.hi
          <5>1. Last(m).hi = high /\ Last(m).lo = low BY <1>9, <1>14
          <5>2. Last(m).lo <= e.lo BY <1>9, <1>14
          <5> HIDE DEF low, high
          <5>3. e.lo <= Last(m).hi /\ e.hi > Last(m).hi BY <1>14
          <5>4. QED BY <1>5, <4>1, <5>1, <5>2, <5>3
        <4>3. g[n].lo = low /\ top = e.hi BY <1>9, <1>14, <2>2
        <4> HIDE DEF low, high, top
        <4>4. (low <= b /\ b < top) <=> (low <= b /\ b < high) \/ (e.lo <= b /\ b < e.hi)
          BY <1>5, <4>1, <4>2, <4>3
        <4>5. QED BY <4>3, <4>4 DEF low, high, top
      <3>8. QED BY <3>5, <3>6, <3>7
    <2>6. \A b \in Nat : HeldIn(g, b) <=> HeldIn(a, b) BY <1>4, <1>7, <2>5
    <2>7. Last(g).lo = Last(m).lo BY <2>2 DEF Last
    <2>8. \E x \in Range(a) : Last(g).lo = x.lo BY <1>3, <1>7, <1>14, <2>7
    <2>9. QED BY <2>1, <2>3, <2>6, <2>8
  <1>15. CASE m # <<>> /\ e.lo <= Last(m).hi /\ ~(e.hi > Last(m).hi)
    <2>1. d = m BY <1>15 DEF Joining
    <2> HIDE DEF d
    <2>2. \A b \in Nat : e.lo <= b /\ b < e.hi => HeldIn(m, b)
      <3>1. n \in 1..n BY <1>8, <1>9, <1>15
      <3>2. m[n].lo <= e.lo /\ e.hi <= m[n].hi /\ m[n].lo \in Nat /\ m[n].hi \in Nat
        BY <1>5, <1>9, <1>11, <1>15, <3>1
      <3>3. ASSUME NEW b \in Nat, e.lo <= b, b < e.hi PROVE m[n].lo <= b /\ b < m[n].hi
        <4> DEFINE low == m[n].lo
                   high == m[n].hi
        <4>1. low <= e.lo /\ e.hi <= high /\ low \in Nat /\ high \in Nat BY <3>2
        <4> HIDE DEF low, high
        <4>2. low <= b /\ b < high BY <1>5, <3>3, <4>1
        <4>3. QED BY <4>2 DEF low, high
      <3>4. QED BY <1>13, <3>1, <3>3
    <2>3. \A b \in Nat : HeldIn(m, b) <=> HeldIn(a, b) BY <1>4, <1>7, <2>2
    <2>4. QED BY <1>3, <1>7, <2>1, <2>3
  <1>16. CASE ~(m # <<>> /\ e.lo <= Last(m).hi)
    <2>1. d = Append(m, e) BY <1>16 DEF Joining
    <2>2. \A y \in Range(m) : y.hi < e.lo
      <3> SUFFICES ASSUME NEW y \in Range(m) PROVE y.hi < e.lo OBVIOUS
      <3>1. PICK k \in 1..n : m[k] = y BY <1>10
      <3>2. m # <<>> BY <3>1
      <3>3. m[n].hi < e.lo BY <1>5, <1>8, <1>9, <1>11, <1>16, <3>2
      <3> DEFINE T == {i \in 0..(n - 1) : m[n - i].hi < e.lo}
      <3>4. 0 \in T BY <1>8, <1>9, <3>2, <3>3
      <3>5. ASSUME NEW i \in 1..(n - 1), i - 1 \in T PROVE i \in T
        <4>1. n - i \in 1..(n - 1) /\ (n - i) + 1 = n - (i - 1) BY <1>8
        <4>2. m[n - i].hi < m[n - (i - 1)].lo BY <1>12, <4>1
        <4>3. m[n - (i - 1)].hi < e.lo BY <3>5
        <4>4. n - i \in 1..n /\ n - (i - 1) \in 1..n BY <1>8, <4>1
        <4> DEFINE u == n - i
                   v == n - (i - 1)
        <4> HIDE DEF u, v
        <4>5. m[u].hi < m[v].lo /\ m[v].hi < e.lo /\ u \in 1..n /\ v \in 1..n
          BY <4>2, <4>3, <4>4 DEF u, v
        <4>6. m[u].hi \in Nat /\ m[v].lo \in Nat /\ m[v].hi \in Nat /\ m[v].lo <= m[v].hi
          BY <1>11, <4>5
        <4>7. m[u].hi < e.lo
          <5> DEFINE w == m[u].hi
                     x == m[v].lo
                     z == m[v].hi
          <5>1. w < x /\ z < e.lo /\ x <= z /\ w \in Nat /\ x \in Nat /\ z \in Nat BY <4>5, <4>6
          <5> HIDE DEF w, x, z
          <5>2. w < e.lo BY <1>5, <5>1
          <5>3. QED BY <5>2 DEF w
        <4>8. i \in 0..(n - 1) BY <1>8
        <4>9. QED BY <4>7, <4>8 DEF u
      <3>6. T \in SUBSET (0..(n - 1)) OBVIOUS
      <3> HIDE DEF T
      <3>7. n - 1 \in Nat BY <1>8, <1>9, <3>2
      <3>8. T = 0..(n - 1) BY <3>4, <3>5, <3>6, <3>7, InductUpto
      <3>9. n - k \in T /\ n - (n - k) = k BY <1>8, <3>8
      <3>10. QED BY <3>1, <3>9 DEF T
    <2>3. Spans \subseteq Pieces BY DEF Spans
    <2>4. m \in Seq(Pieces) /\ e \in Pieces BY <1>1, <2>3
    <2>5. Increasing(d) BY <1>7, <2>1, <2>2, <2>4, IncreasingAppend
    <2>6. \A b \in Nat : HeldIn(d, b) <=> HeldIn(m, b) \/ (e.lo <= b /\ b < e.hi)
      BY <1>1, <2>1, HeldAppend
    <2>7. Last(d) = e BY <1>1, <2>1, AppendProperties DEF Last
    <2>8. QED BY <1>3, <1>4, <1>7, <2>5, <2>6, <2>7
  <1>17. QED BY <1>14, <1>15, <1>16

\* mergeIntervals loses and adds no byte, and leaves no two ranges that
\* overlap or touch, so that readMany fetches no byte for two actions.
THEOREM MergesExactly == ASSUME NEW segments \in Seq(Spans) PROVE MergeExact(segments)
  <1> DEFINE s == Sorted(segments)
             h == Merge
             P == {q \in Seq(Spans) : MergeGood(q, Run(h, <<>>, q))}
             m == MergeIntervals(segments)
  <1>1. Bounded(Spans) BY DEF Bounded, Spans, Pieces
  <1>2. s \in Seq(Spans) /\ Range(s) = Range(segments) /\ Ascending(s) BY <1>1, SortedFacts
  <1>3. m = Run(h, <<>>, s) BY <1>2, MergedIsRun
  <1>4. Stepwise(h, Spans, Seq(Spans), <<>>) BY MergeSteps
  <1>5. \A e \in Spans, v \in Seq(Spans) : h[<<e, v>>] = Joining(v, e) BY MergeSteps, Zenon
  <1> HIDE DEF h
  <1>6. <<>> \in P
    <2> DEFINE o == <<>>
    <2>1. Run(h, o, o) = o /\ o \in Seq(Spans) BY <1>4, RunEmpty
    <2>2. Increasing(o) /\ o = <<>> BY DEF Increasing
    <2> HIDE DEF o
    <2>3. MergeGood(o, o) BY <2>1, <2>2 DEF MergeGood
    <2>4. QED BY <2>1, <2>3 DEF o
  <1>7. ASSUME NEW q \in P, NEW e \in Spans PROVE Append(q, e) \in P
    <2> DEFINE a == Append(q, e)
               c == Run(h, <<>>, q)
               d == Run(h, <<>>, a)
    <2>1. q \in Seq(Spans) /\ MergeGood(q, c) OBVIOUS
    <2>2. a \in Seq(Spans) BY <2>1, AppendProperties
    <2>3. d = h[<<e, c>>] BY <1>4, <2>1, RunAppend
    <2>4. c \in Seq(Spans) BY <2>1 DEF MergeGood
    <2> HIDE DEF c, d
    <2>5. d = Joining(c, e) BY <1>5, <2>3, <2>4
    <2>6. MergeGood(a, d) BY <2>1, <2>5, MergeStep
    <2>7. QED BY <2>2, <2>6 DEF d
  <1>8. P \in SUBSET Seq(Spans) OBVIOUS
  <1>9. MergeGood(s, m)
    <2> HIDE DEF P
    <2>1. P = Seq(Spans) BY <1>6, <1>7, <1>8, InductSeq
    <2>2. QED BY <1>2, <1>3, <2>1 DEF P
  <1> HIDE DEF s, m, P
  <1>10. m \in Seq(Spans) /\ Increasing(m) /\ \A b \in Nat : HeldIn(m, b) <=> HeldIn(s, b)
    BY <1>2, <1>9 DEF MergeGood
  <1>11. \A b \in Nat : HeldIn(s, b) <=> HeldIn(segments, b) BY <1>2 DEF HeldIn
  <1>12. BytesOf(m) = BytesOf(segments)
    <2>1. BytesOf(segments) = {b \in Nat : HeldIn(segments, b)} BY <1>1, HeldBytes
    <2>2. BytesOf(m) = {b \in Nat : HeldIn(m, b)} BY <1>1, <1>10, HeldBytes
    <2>3. QED BY <1>10, <1>11, <2>1, <2>2
  <1>13. QED BY <1>10, <1>12 DEF MergeExact, m

\* The step of coveredLength.
Counted(acc, e) ==
    LET start == Larger(acc.cursor, e.lo)
    IN  IF e.hi <= start THEN acc ELSE [bytes |-> acc.bytes + e.hi - start, cursor |-> e.hi]

Counts == [bytes : Nat, cursor : Nat]
Unread(want) == [bytes |-> 0, cursor |-> want.lo]
Count(want) == [p \in Clips(want) \X Counts |-> Counted(p[2], p[1])]

LEMMA CountSteps ==
  ASSUME NEW want \in Pieces
  PROVE  /\ Stepwise(Count(want), Clips(want), Counts, Unread(want))
         /\ \A e \in Clips(want), acc \in Counts : Count(want)[<<e, acc>>] = Counted(acc, e)
  <1>1. ASSUME NEW e \in Clips(want), NEW acc \in Counts PROVE Counted(acc, e) \in Counts
    <2> DEFINE start == Larger(acc.cursor, e.lo)
    <2>1. e.lo \in Nat /\ e.hi \in Nat /\ acc.cursor \in Nat /\ acc.bytes \in Nat
      BY DEF Clips, Pieces, Counts
    <2>2. start \in Nat BY <2>1 DEF Larger
    <2> HIDE DEF start
    <2>3. CASE e.hi <= start BY <2>3 DEF Counted, start
    <2>4. CASE ~(e.hi <= start)
      <3>1. acc.bytes + e.hi - start \in Nat BY <2>1, <2>2, <2>4
      <3>2. Counted(acc, e) = [bytes |-> acc.bytes + e.hi - start, cursor |-> e.hi]
        BY <2>4 DEF Counted, start
      <3>3. QED BY <2>1, <3>1, <3>2 DEF Counts
    <2>5. QED BY <2>3, <2>4
  <1>2. Unread(want) \in Counts BY DEF Unread, Counts, Pieces
  <1>3. QED BY <1>1, <1>2 DEF Stepwise, Count

LEMMA CoveredIsRun ==
  ASSUME NEW segments, NEW want \in Pieces,
         NEW s \in Seq(Clips(want)), s = Clipped(segments, want)
  PROVE  CoveredLength(segments, want) = Run(Count(want), Unread(want), s).bytes
  <1> DEFINE n == Len(s)
             V == Counts
             base == Unread(want)
             h == Count(want)
             W == CHOOSE w : w = [u \in SUBSET (1..n) |->
                    IF u = {} THEN base ELSE Counted(w[u \ {Max(u)}], s[Max(u)])]
  <1>1. DOMAIN s = 1..n /\ \A i \in 1..n : s[i] \in Clips(want) OBVIOUS
  <1>2. CoveredLength(segments, want) = W[1..n].bytes
    BY <1>1 DEF CoveredLength, FoldLeft, MapThenFoldSet, Counted, Unread
  <1>3. Stepwise(h, Clips(want), V, base) BY CountSteps
  <1>4. \A e \in Clips(want), v \in V : h[<<e, v>>] = Counted(v, e) BY CountSteps, Zenon
  <1> HIDE DEF V, h, base
  <1>g. PICK g : Solution(g, V, h, base, s) BY <1>3, FoldSolved, Zenon
  <1>5. /\ g \in [SUBSET (1..n) -> V] /\ g[{}] = base
        /\ \A u \in SUBSET (1..n) : u # {} =>
             /\ Max(u) \in 1..n /\ u \ {Max(u)} \in SUBSET (1..n)
             /\ g[u] = h[<<s[Max(u)], g[u \ {Max(u)}]>>]
    BY <1>g, Zenon DEF Solution
  <1> HIDE DEF n
  <1>6. \A u \in SUBSET (1..n) : u # {} => g[u] = Counted(g[u \ {Max(u)}], s[Max(u)])
    <2> SUFFICES ASSUME NEW u \in SUBSET (1..n), u # {}
                 PROVE  g[u] = Counted(g[u \ {Max(u)}], s[Max(u)])
      OBVIOUS
    <2>1. s[Max(u)] \in Clips(want) /\ g[u \ {Max(u)}] \in V /\ g[u] = h[<<s[Max(u)], g[u \ {Max(u)}]>>]
      BY <1>1, <1>5
    <2>2. QED BY <1>4, <2>1
  <1>7. g = [u \in SUBSET (1..n) |->
               IF u = {} THEN base ELSE Counted(g[u \ {Max(u)}], s[Max(u)])]
    BY <1>5, <1>6
  <1>8. W = [u \in SUBSET (1..n) |->
               IF u = {} THEN base ELSE Counted(W[u \ {Max(u)}], s[Max(u)])]
    BY <1>7, Zenon
  <1> HIDE DEF W
  <1>9. W[{}] = base BY <1>8
  <1>10. \A u \in SUBSET (1..n) : u # {} /\ W[u \ {Max(u)}] \in V =>
            W[u] = h[<<s[Max(u)], W[u \ {Max(u)}]>>]
    <2> SUFFICES ASSUME NEW u \in SUBSET (1..n), u # {}, W[u \ {Max(u)}] \in V
                 PROVE  W[u] = h[<<s[Max(u)], W[u \ {Max(u)}]>>]
      OBVIOUS
    <2>1. W[u] = Counted(W[u \ {Max(u)}], s[Max(u)]) BY <1>8
    <2>2. s[Max(u)] \in Clips(want) BY <1>1, <1>5
    <2>3. QED BY <1>4, <2>1, <2>2
  <1>11. W[1..n] = Run(h, base, s)
    <2>1. Recurs(W, V, h, base, s) BY <1>9, <1>10 DEF Recurs, n
    <2>2. QED BY <1>3, <2>1, FoldIsRun DEF n
  <1>12. QED BY <1>2, <1>11 DEF h, base

HeldSet(s) == {b \in Nat : HeldIn(s, b)}

\* As many bytes are counted as the segments so far hold, and every byte
\* between the start of one of them and the cursor is held.
CountGood(s, want, acc) ==
    /\ acc \in Counts /\ want.lo <= acc.cursor
    /\ \A x \in Range(s) : x.hi <= acc.cursor
    /\ Ascending(s) =>
         /\ IsFiniteSet(HeldSet(s)) /\ Cardinality(HeldSet(s)) = acc.bytes
         /\ acc.cursor = want.lo \/ \E x \in Range(s) : x.hi = acc.cursor

LEMMA CountStep ==
  ASSUME NEW want \in Pieces, NEW q \in Seq(Clips(want)), NEW e \in Clips(want),
         NEW c, CountGood(q, want, c)
  PROVE  CountGood(Append(q, e), want, Counted(c, e))
  <1> DEFINE a == Append(q, e)
             d == Counted(c, e)
             start == Larger(c.cursor, e.lo)
             new == start..(e.hi - 1)
  <1>1. want.lo \in Nat /\ want.hi \in Nat BY DEF Pieces
  <1>2. e.lo \in Nat /\ e.hi \in Nat /\ want.lo <= e.lo /\ e.lo < e.hi BY DEF Clips, Inside, Pieces
  <1>3. c \in Counts /\ c.cursor \in Nat /\ c.bytes \in Nat /\ want.lo <= c.cursor
    BY DEF CountGood, Counts
  <1>4. Range(a) = Range(q) \cup {e} BY RangeAppend
  <1>5. Ascending(a) => Ascending(q) /\ \A x \in Range(q) : x.lo <= e.lo BY AscendingAppend
  <1>6. \A x \in Range(q) : x.lo \in Nat /\ x.hi \in Nat /\ x.lo < x.hi /\ x.hi <= c.cursor
    <2>1. Range(q) \subseteq Clips(want) BY RangeSeq
    <2>2. QED BY <2>1 DEF CountGood, Clips, Inside, Pieces
  <1>7. \A b \in Nat : HeldIn(a, b) <=> HeldIn(q, b) \/ (e.lo <= b /\ b < e.hi) BY HeldAppend
  <1>8. start \in Nat /\ start >= c.cursor /\ start >= e.lo /\ (start = c.cursor \/ start = e.lo)
    BY <1>2, <1>3 DEF Larger
  <1>9. ASSUME Ascending(a), NEW b \in Nat, e.lo <= b, b < c.cursor PROVE HeldIn(q, b)
    <2>1. c.cursor = want.lo \/ \E x \in Range(q) : x.hi = c.cursor
      BY <1>5, <1>9 DEF CountGood
    <2>2. c.cursor # want.lo BY <1>1, <1>2, <1>9
    <2>3. PICK x \in Range(q) : x.hi = c.cursor BY <2>1, <2>2
    <2>4. x.lo <= e.lo /\ x.lo \in Nat BY <1>5, <1>6, <1>9
    <2>5. x.lo <= b /\ b < x.hi BY <1>2, <1>9, <2>3, <2>4
    <2>6. QED BY <2>5 DEF HeldIn
  <1>10. ASSUME Ascending(a)
         PROVE  IsFiniteSet(HeldSet(q)) /\ Cardinality(HeldSet(q)) = c.bytes
    BY <1>5, <1>10 DEF CountGood
  <1> HIDE DEF a, start
  <1>11. CASE e.hi <= start
    <2>1. d = c BY <1>11 DEF Counted, start
    <2>2. e.hi <= c.cursor BY <1>2, <1>3, <1>8, <1>11
    <2>3. \A x \in Range(a) : x.hi <= c.cursor BY <1>4, <1>6, <2>2
    <2>4. ASSUME Ascending(a)
          PROVE  /\ IsFiniteSet(HeldSet(a)) /\ Cardinality(HeldSet(a)) = c.bytes
                 /\ c.cursor = want.lo \/ \E x \in Range(a) : x.hi = c.cursor
      <3>1. \A b \in Nat : e.lo <= b /\ b < e.hi => HeldIn(q, b)
        <4> SUFFICES ASSUME NEW b \in Nat, e.lo <= b, b < e.hi PROVE HeldIn(q, b) OBVIOUS
        <4>1. b < c.cursor BY <1>2, <1>3, <2>2
        <4>2. QED BY <1>9, <2>4, <4>1
      <3>2. HeldSet(a) = HeldSet(q) BY <1>7, <3>1 DEF HeldSet
      <3>3. c.cursor = want.lo \/ \E x \in Range(q) : x.hi = c.cursor
        BY <1>5, <2>4 DEF CountGood
      <3>4. QED BY <1>4, <1>10, <2>4, <3>2, <3>3
    <2>5. CountGood(a, want, c) BY <1>3, <2>3, <2>4 DEF CountGood
    <2>6. QED BY <2>1, <2>5 DEF a
  <1>12. CASE ~(e.hi <= start)
    <2>1. d = [bytes |-> c.bytes + e.hi - start, cursor |-> e.hi] BY <1>12 DEF Counted, start
    <2>2. start < e.hi BY <1>2, <1>8, <1>12
    <2>3. c.bytes + e.hi - start \in Nat BY <1>2, <1>3, <1>8, <2>2
    <2>4. d \in Counts /\ d.cursor = e.hi /\ d.bytes = c.bytes + e.hi - start
      BY <1>2, <2>1, <2>3 DEF Counts
    <2> HIDE DEF d
    <2>5. c.cursor <= e.hi /\ want.lo <= e.hi BY <1>1, <1>2, <1>3, <1>8, <2>2
    <2>6. \A x \in Range(a) : x.hi <= e.hi BY <1>2, <1>3, <1>4, <1>6, <2>5
    <2>7. e \in Range(a) BY <1>4
    <2>8. ASSUME Ascending(a)
          PROVE  IsFiniteSet(HeldSet(a)) /\ Cardinality(HeldSet(a)) = c.bytes + e.hi - start
      <3>1. HeldSet(a) = HeldSet(q) \cup new
        <4>1. ASSUME NEW b \in Nat
              PROVE  HeldIn(a, b) <=> HeldIn(q, b) \/ b \in new
          <5>1. b \in new <=> start <= b /\ b < e.hi BY <1>2, <1>8
          <5>2. start <= b /\ b < e.hi => e.lo <= b BY <1>2, <1>8
          <5>3. e.lo <= b /\ ~(start <= b) => b < c.cursor BY <1>2, <1>3, <1>8
          <5>4. e.lo <= b /\ b < e.hi => HeldIn(q, b) \/ (start <= b /\ b < e.hi)
            BY <1>9, <2>8, <5>3
          <5> HIDE DEF new
          <5>5. QED BY <1>7, <5>1, <5>2, <5>4
        <4>2. new \subseteq Nat BY <1>8
        <4> HIDE DEF new
        <4>3. QED BY <4>1, <4>2 DEF HeldSet
      <3>2. HeldSet(q) \cap new = {}
        <4> SUFFICES ASSUME NEW b \in HeldSet(q) PROVE b \notin new OBVIOUS
        <4>1. b \in Nat /\ HeldIn(q, b) BY DEF HeldSet
        <4>2. PICK x \in Range(q) : x.lo <= b /\ b < x.hi BY <4>1 DEF HeldIn
        <4>3. b < start BY <1>3, <1>6, <1>8, <4>1, <4>2
        <4>4. QED BY <1>8, <4>1, <4>3
      <3>3. IsFiniteSet(new) /\ Cardinality(new) = e.hi - start
        <4>1. start \in Int /\ e.hi - 1 \in Int /\ ~(start > e.hi - 1) BY <1>2, <1>8, <2>2
        <4>2. IsFiniteSet(new) /\ Cardinality(new) = (e.hi - 1) - start + 1
          BY <4>1, FS_Interval
        <4>3. QED BY <1>2, <1>8, <4>2
      <3>4. IsFiniteSet(HeldSet(q)) /\ Cardinality(HeldSet(q)) = c.bytes BY <1>10, <2>8
      <3> DEFINE A == HeldSet(q)
      <3>5. Cardinality(A \cap new) = 0 BY <3>2, FS_EmptySet
      <3> HIDE DEF A, new
      <3>6. IsFiniteSet(A \cup new) /\ Cardinality(A \cup new) = Cardinality(A) + Cardinality(new) - Cardinality(A \cap new)
        BY <3>3, <3>4, FS_Union DEF A
      <3>7. Cardinality(A \cup new) = c.bytes + e.hi - start
        BY <1>2, <1>3, <1>8, <3>3, <3>4, <3>5, <3>6 DEF A
      <3>8. QED BY <3>1, <3>6, <3>7 DEF A
    <2>9. \E x \in Range(a) : x.hi = e.hi BY <2>7
    <2>10. CountGood(a, want, d) BY <2>4, <2>5, <2>6, <2>8, <2>9 DEF CountGood
    <2>11. QED BY <2>10 DEF a, d
  <1>13. QED BY <1>11, <1>12

\* #coveredLength counts each byte of the wanted range the segments hold,
\* and counts it once: what a read is charged as a cache hit.
THEOREM CoversExactly ==
  ASSUME NEW E, Segments(E), NEW segments \in Seq(E), NEW want \in Pieces, want.lo < want.hi
  PROVE  CoveredExact(segments, want)
  <1> DEFINE s == Clipped(segments, want)
             h == Count(want)
             o == Unread(want)
             c == Run(h, o, s)
             P == {q \in Seq(Clips(want)) : CountGood(q, want, Run(h, o, q))}
  <1>1. /\ s \in Seq(Clips(want)) /\ Ascending(s)
        /\ \A b \in Nat : HeldIn(s, b) => HeldIn(segments, b)
        /\ \A b \in Nat : want.lo <= b /\ b < want.hi /\ HeldIn(segments, b) => HeldIn(s, b)
    BY ClippedFacts
  <1>2. CoveredLength(segments, want) = c.bytes BY <1>1, CoveredIsRun
  <1>3. Stepwise(h, Clips(want), Counts, o) BY CountSteps
  <1>4. want.lo \in Nat /\ want.hi \in Nat BY DEF Pieces
  <1>5. <<>> \in P
    <2>1. Run(h, o, <<>>) = o BY <1>3, RunEmpty
    <2>2. o \in Counts /\ o.bytes = 0 /\ o.cursor = want.lo BY <1>4 DEF Unread, Counts
    <2> HIDE DEF o
    <2>3. HeldSet(<<>>) = {} BY RangeEmpty DEF HeldSet, HeldIn
    <2>4. IsFiniteSet(HeldSet(<<>>)) /\ Cardinality(HeldSet(<<>>)) = 0 BY <2>3, FS_EmptySet
    <2>5. CountGood(<<>>, want, o) BY <1>4, <2>2, <2>4, RangeEmpty DEF CountGood
    <2>6. <<>> \in Seq(Clips(want)) OBVIOUS
    <2>7. QED BY <2>1, <2>5, <2>6
  <1>6. ASSUME NEW q \in P, NEW e \in Clips(want) PROVE Append(q, e) \in P
    <2> DEFINE a == Append(q, e)
               k == Run(h, o, q)
               d == Run(h, o, a)
    <2>1. q \in Seq(Clips(want)) /\ CountGood(q, want, k) OBVIOUS
    <2>2. a \in Seq(Clips(want)) BY <2>1, AppendProperties
    <2>3. d = h[<<e, k>>] BY <1>3, <2>1, RunAppend
    <2>4. k \in Counts BY <2>1 DEF CountGood
    <2> HIDE DEF k, d, s, c
    <2>5. d = Counted(k, e) BY <2>3, <2>4 DEF Count
    <2>6. CountGood(a, want, d) BY <2>1, <2>5, CountStep
    <2>7. QED BY <2>2, <2>6 DEF d
  <1>7. P \in SUBSET Seq(Clips(want)) OBVIOUS
  <1>8. CountGood(s, want, c)
    <2> HIDE DEF P
    <2>1. P = Seq(Clips(want)) BY <1>5, <1>6, <1>7, InductSeq
    <2>2. QED BY <1>1, <2>1 DEF P
  <1> HIDE DEF s, c, P, h, o
  <1>9. Cardinality(HeldSet(s)) = c.bytes BY <1>1, <1>8 DEF CountGood
  <1>10. HeldSet(s) = Bytes(want) \cap BytesOf(segments)
    <2>1. Bounded(E) BY DEF Bounded, Segments, IsSegment
    <2>2. BytesOf(segments) = {b \in Nat : HeldIn(segments, b)} BY <2>1, HeldBytes
    <2>3. Bytes(want) = {b \in Nat : want.lo <= b /\ b < want.hi} BY <1>4 DEF Bytes
    <2>4. ASSUME NEW b \in Nat, HeldIn(s, b) PROVE want.lo <= b /\ b < want.hi
      <3>1. PICK x \in Range(s) : x.lo <= b /\ b < x.hi BY <2>4 DEF HeldIn
      <3>2. x \in Clips(want)
        <4>1. Range(s) \subseteq Clips(want) BY <1>1, RangeSeq
        <4>2. QED BY <4>1
      <3>3. x.lo \in Nat /\ x.hi \in Nat /\ want.lo <= x.lo /\ x.hi <= want.hi
        BY <3>2 DEF Clips, Inside, Pieces
      <3>4. QED BY <1>4, <3>1, <3>3
    <2>5. QED BY <1>1, <2>2, <2>3, <2>4 DEF HeldSet
  <1>11. QED BY <1>2, <1>9, <1>10 DEF CoveredExact

-----------------------------------------------------------------------------
(* splitInterval.                                                          *)
LEMMA RoundUp ==
  ASSUME NEW l \in Nat, NEW max \in Nat, l > 0, max > 0,
         NEW c, c = (l + max - 1) \div max
  PROVE  c \in Nat /\ c >= 1 /\ (c - 1) * max < l /\ l <= c * max
  OBVIOUS

\* splitInterval cuts a range into consecutive parts that are no longer than
\* a provider may be asked for, and that begin and end where the range does.
THEOREM SplitsExactly ==
  ASSUME NEW i \in Spans, NEW max \in Nat, max > 0
  PROVE  SplitExact(i, max)
  <1> DEFINE lo == i.lo
             hi == i.hi
             l == hi - lo
             c == (l + max - 1) \div max
             pieces == SplitInterval(i, max)
  <1>1. lo \in Nat /\ hi \in Nat /\ lo <= hi /\ i = [lo |-> lo, hi |-> hi] BY DEF Spans, Pieces
  <1>2. CASE hi <= lo
    <2>1. pieces = <<i>> BY <1>2 DEF SplitInterval
    <2>2. Len(pieces) = 1 /\ DOMAIN pieces = 1..1 /\ pieces[1] = i /\ Last(pieces) = i BY <2>1 DEF Last
    <2>3. i.hi - i.lo <= max BY <1>1, <1>2
    <2> HIDE DEF pieces
    <2>4. QED BY <2>2, <2>3 DEF SplitExact, pieces
  <1>3. CASE ~(hi <= lo)
    <2> DEFINE Part(k) == Interval(lo + (k - 1) * max, Smaller(hi, lo + k * max))
    <2>1. pieces = [k \in 1..c |-> Part(k)] BY <1>3 DEF SplitInterval
    <2>2. l \in Nat /\ l > 0 /\ hi = lo + l BY <1>1, <1>3
    <2> HIDE DEF l
    <2>3. c \in Nat /\ c >= 1 /\ (c - 1) * max < l /\ l <= c * max BY <2>2, RoundUp
    <2> HIDE DEF c, pieces
    <2>4. Len(pieces) = c /\ DOMAIN pieces = 1..c /\ \A k \in 1..c : pieces[k] = Part(k)
      BY <2>1, <2>3
    <2>5. Last(pieces) = pieces[c] BY <2>4 DEF Last
    <2>6. \A k \in 1..c : k * max \in Nat /\ (k - 1) * max \in Nat /\ k * max = (k - 1) * max + max
      BY <2>3
    <2>7. \A k \in 1..(c - 1) : k * max <= (c - 1) * max
      BY <2>3
    <2> HIDE DEF lo, hi
    <2>8. \A k \in 1..c : Part(k).lo = lo + (k - 1) * max /\ Part(k).hi = Smaller(hi, lo + k * max)
      BY DEF Interval
    <2> HIDE DEF Part
    <2>9. pieces[1].lo = lo
      <3>1. 1 \in 1..c /\ (1 - 1) * max = 0 BY <2>3
      <3>2. pieces[1].lo = lo + (1 - 1) * max BY <2>4, <2>8, <3>1
      <3>3. QED BY <1>1, <3>1, <3>2
    <2>10. Last(pieces).hi = hi
      <3>1. c \in 1..c BY <2>3
      <3>2. pieces[c].hi = Smaller(hi, lo + c * max) BY <2>4, <2>8, <3>1
      <3>3. c * max \in Nat BY <2>6, <3>1
      <3>4. hi <= lo + c * max BY <1>1, <2>2, <2>3, <3>3
      <3>5. QED BY <2>5, <3>2, <3>4 DEF Smaller
    <2>11. \A k \in DOMAIN pieces : pieces[k].hi - pieces[k].lo <= max
      <3> SUFFICES ASSUME NEW k \in 1..c PROVE pieces[k].hi - pieces[k].lo <= max BY <2>4
      <3> DEFINE x == k * max
                 y == (k - 1) * max
      <3>1. pieces[k].lo = lo + y /\ pieces[k].hi = Smaller(hi, lo + x) BY <2>4, <2>8
      <3>2. x \in Nat /\ y \in Nat /\ x = y + max BY <2>6
      <3> HIDE DEF x, y
      <3>3. QED BY <1>1, <3>1, <3>2 DEF Smaller
    <2>12. \A k \in 1..(Len(pieces) - 1) : pieces[k].hi = pieces[k + 1].lo
      <3> SUFFICES ASSUME NEW k \in 1..(c - 1) PROVE pieces[k].hi = pieces[k + 1].lo BY <2>4
      <3> DEFINE x == k * max
      <3>1. k \in 1..c /\ k + 1 \in 1..c /\ (k + 1) - 1 = k BY <2>3
      <3>2. pieces[k].hi = Smaller(hi, lo + x) /\ pieces[k + 1].lo = lo + x
        BY <2>4, <2>8, <3>1
      <3>3. x \in Nat /\ x < l
        <4> DEFINE z == (c - 1) * max
        <4>1. x <= z /\ z < l /\ x \in Nat BY <2>3, <2>6, <2>7, <3>1
        <4>2. z \in Nat
          <5>1. c \in 1..c BY <2>3
          <5>2. QED BY <2>6, <5>1
        <4> HIDE DEF z, x
        <4>3. QED BY <2>2, <4>1, <4>2
      <3> HIDE DEF x
      <3>4. lo + x < hi BY <1>1, <2>2, <3>3
      <3>5. QED BY <1>1, <2>2, <3>2, <3>3, <3>4 DEF Smaller
    <2>13. QED BY <2>9, <2>10, <2>11, <2>12 DEF SplitExact, pieces, lo, hi
  <1>4. QED BY <1>2, <1>3

-----------------------------------------------------------------------------
(* The cache and its bytes.                                                *)
Entries == {e \in [lo : Nat, hi : Nat, used : Nat] : e.lo < e.hi}

LEMMA EntrySegments == Segments(Entries)
  BY DEF Segments, Entries, IsSegment

\* The step of CacheBytes.
Added(e, n) == n + e.hi - e.lo
Weigh == [p \in Entries \X Nat |-> Added(p[1], p[2])]

LEMMA WeighSteps == Stepwise(Weigh, Entries, Nat, 0)
  <1>1. \A p \in Entries \X Nat : Added(p[1], p[2]) \in Nat
    BY DEF Entries, Added
  <1>2. QED BY <1>1 DEF Stepwise, Weigh

LEMMA CacheBytesIsRun ==
  ASSUME NEW s \in Seq(Entries)
  PROVE  CacheBytes(s) = Run(Weigh, 0, s)
  <1> DEFINE n == Len(s)
             W == CHOOSE w : w = [u \in SUBSET (1..n) |->
                    IF u = {} THEN 0 ELSE Added(s[Max(u)], w[u \ {Max(u)}])]
  <1>1. DOMAIN s = 1..n /\ \A i \in 1..n : s[i] \in Entries OBVIOUS
  <1>2. CacheBytes(s) = W[1..n]
    BY <1>1 DEF CacheBytes, FoldLeft, MapThenFoldSet, Added
  <1>3. Stepwise(Weigh, Entries, Nat, 0) BY WeighSteps
  <1>4. \A e \in Entries, v \in Nat : Weigh[<<e, v>>] = Added(e, v) BY DEF Weigh
  <1>g. PICK g : Solution(g, Nat, Weigh, 0, s) BY <1>3, FoldSolved
  <1>5. /\ g \in [SUBSET (1..n) -> Nat] /\ g[{}] = 0
        /\ \A u \in SUBSET (1..n) : u # {} =>
             /\ Max(u) \in 1..n /\ u \ {Max(u)} \in SUBSET (1..n)
             /\ g[u] = Weigh[<<s[Max(u)], g[u \ {Max(u)}]>>]
    BY <1>g, Zenon DEF Solution
  <1> HIDE DEF n
  <1>6. \A u \in SUBSET (1..n) : u # {} => g[u] = Added(s[Max(u)], g[u \ {Max(u)}])
    <2> SUFFICES ASSUME NEW u \in SUBSET (1..n), u # {}
                 PROVE  g[u] = Added(s[Max(u)], g[u \ {Max(u)}])
      OBVIOUS
    <2>1. s[Max(u)] \in Entries /\ g[u \ {Max(u)}] \in Nat
          /\ g[u] = Weigh[<<s[Max(u)], g[u \ {Max(u)}]>>]
      BY <1>1, <1>5
    <2>2. QED BY <1>4, <2>1
  <1>7. g = [u \in SUBSET (1..n) |-> IF u = {} THEN 0 ELSE Added(s[Max(u)], g[u \ {Max(u)}])]
    BY <1>5, <1>6
  <1>8. W = [u \in SUBSET (1..n) |-> IF u = {} THEN 0 ELSE Added(s[Max(u)], W[u \ {Max(u)}])]
    BY <1>7, Zenon
  <1> HIDE DEF W
  <1>9. W[{}] = 0 BY <1>8
  <1>10. \A u \in SUBSET (1..n) : u # {} /\ W[u \ {Max(u)}] \in Nat =>
            W[u] = Weigh[<<s[Max(u)], W[u \ {Max(u)}]>>]
    <2> SUFFICES ASSUME NEW u \in SUBSET (1..n), u # {}, W[u \ {Max(u)}] \in Nat
                 PROVE  W[u] = Weigh[<<s[Max(u)], W[u \ {Max(u)}]>>]
      OBVIOUS
    <2>1. W[u] = Added(s[Max(u)], W[u \ {Max(u)}]) BY <1>8
    <2>2. s[Max(u)] \in Entries BY <1>1, <1>5
    <2>3. QED BY <1>4, <2>1, <2>2
  <1>11. W[1..n] = Run(Weigh, 0, s)
    <2>1. Recurs(W, Nat, Weigh, 0, s) BY <1>9, <1>10 DEF Recurs, n
    <2>2. QED BY <1>3, <2>1, FoldIsRun DEF n
  <1>12. QED BY <1>2, <1>11

LEMMA CacheBytesFacts ==
  /\ CacheBytes(<<>>) = 0
  /\ \A s \in Seq(Entries) : CacheBytes(s) \in Nat
  /\ \A s \in Seq(Entries), e \in Entries :
        CacheBytes(Append(s, e)) = CacheBytes(s) + e.hi - e.lo
  <1>1. Stepwise(Weigh, Entries, Nat, 0) BY WeighSteps
  <1>2. CacheBytes(<<>>) = 0
    <2>1. <<>> \in Seq(Entries) OBVIOUS
    <2>2. CacheBytes(<<>>) = Run(Weigh, 0, <<>>) BY <2>1, CacheBytesIsRun
    <2>3. QED BY <1>1, <2>2, RunEmpty
  <1>3. ASSUME NEW s \in Seq(Entries) PROVE CacheBytes(s) \in Nat
    BY <1>1, CacheBytesIsRun, RunFollows
  <1>4. ASSUME NEW s \in Seq(Entries), NEW e \in Entries
        PROVE  CacheBytes(Append(s, e)) = CacheBytes(s) + e.hi - e.lo
    <2> DEFINE a == Append(s, e)
               n == CacheBytes(s)
    <2>1. a \in Seq(Entries) BY AppendProperties
    <2>2. Run(Weigh, 0, a) = Weigh[<<e, Run(Weigh, 0, s)>>] BY <1>1, RunAppend
    <2>3. CacheBytes(a) = Weigh[<<e, n>>] BY <2>1, <2>2, CacheBytesIsRun
    <2>4. n \in Nat BY <1>3
    <2> HIDE DEF a, n
    <2>5. Weigh[<<e, n>>] = n + e.hi - e.lo BY <2>4 DEF Weigh, Added
    <2>6. QED BY <2>3, <2>5 DEF a, n
  <1>5. QED BY <1>2, <1>3, <1>4

LEMMA WhereBytes ==
  ASSUME NEW s \in Seq(Entries), NEW S, NEW T, S \subseteq T
  PROVE  CacheBytes(Where(s, S)) <= CacheBytes(Where(s, T))
  <1> DEFINE P == {q \in Seq(Entries) : CacheBytes(Where(q, S)) <= CacheBytes(Where(q, T))}
  <1>1. <<>> \in P
    <2>1. <<>> \in Seq(Entries) OBVIOUS
    <2>2. CacheBytes(Where(<<>>, S)) = 0 /\ CacheBytes(Where(<<>>, T)) = 0
      BY WhereEmpty, CacheBytesFacts
    <2>3. QED BY <2>1, <2>2
  <1>2. ASSUME NEW q \in P, NEW e \in Entries PROVE Append(q, e) \in P
    <2> DEFINE a == Append(q, e)
               v == Where(q, S)
               w == Where(q, T)
    <2>1. q \in Seq(Entries) /\ CacheBytes(v) <= CacheBytes(w) OBVIOUS
    <2> HIDE DEF P
    <2>2. a \in Seq(Entries) BY <2>1, AppendProperties
    <2>3. v \in Seq(Entries) /\ w \in Seq(Entries) BY <2>1, WhereFacts
    <2>4. (e \in S => Where(a, S) = Append(v, e)) /\ (e \notin S => Where(a, S) = v)
      BY <2>1, WhereStep, Zenon
    <2>5. (e \in T => Where(a, T) = Append(w, e)) /\ (e \notin T => Where(a, T) = w)
      BY <2>1, WhereStep, Zenon
    <2> HIDE DEF a, v, w
    <2>6. CacheBytes(v) \in Nat /\ CacheBytes(w) \in Nat BY <2>3, CacheBytesFacts
    <2>7. /\ CacheBytes(Append(v, e)) = CacheBytes(v) + e.hi - e.lo
          /\ CacheBytes(Append(w, e)) = CacheBytes(w) + e.hi - e.lo
      BY <2>3, CacheBytesFacts
    <2>8. e.lo \in Nat /\ e.hi \in Nat /\ e.lo < e.hi BY DEF Entries
    <2>9. CacheBytes(Where(a, S)) <= CacheBytes(Where(a, T))
      <3>1. CASE e \in S
        <4>1. Where(a, S) = Append(v, e) /\ Where(a, T) = Append(w, e) BY <2>4, <2>5, <3>1
        <4>2. QED BY <2>1, <2>6, <2>7, <2>8, <4>1
      <3>2. CASE e \notin S /\ e \in T
        <4>1. Where(a, S) = v /\ Where(a, T) = Append(w, e) BY <2>4, <2>5, <3>2
        <4>2. QED BY <2>1, <2>6, <2>7, <2>8, <4>1
      <3>3. CASE e \notin S /\ e \notin T BY <2>1, <2>4, <2>5, <3>3
      <3>4. QED BY <3>1, <3>2, <3>3
    <2>10. QED BY <2>2, <2>9 DEF a, P
  <1>3. P \in SUBSET Seq(Entries) OBVIOUS
  <1> HIDE DEF P
  <1>4. P = Seq(Entries) BY <1>1, <1>2, <1>3, InductSeq
  <1>5. QED BY <1>4 DEF P

\* Two lists with the same ranges in the same places.
SameRanges(s, t) ==
    /\ Len(t) = Len(s)
    /\ \A k \in 1..Len(s) : t[k].lo = s[k].lo /\ t[k].hi = s[k].hi

LEMMA SameBytes ==
  ASSUME NEW s \in Seq(Entries), NEW t \in Seq(Entries), SameRanges(s, t)
  PROVE  CacheBytes(t) = CacheBytes(s)
  <1> DEFINE P == {q \in Seq(Entries) : \A r \in Seq(Entries) :
                     SameRanges(q, r) => CacheBytes(r) = CacheBytes(q)}
  <1>1. <<>> \in P
    <2>1. <<>> \in Seq(Entries) OBVIOUS
    <2>2. \A r \in Seq(Entries) : Len(r) = 0 => r = <<>> OBVIOUS
    <2>3. Len(<<>>) = 0 OBVIOUS
    <2>4. QED BY <2>1, <2>2, <2>3 DEF SameRanges
  <1>2. ASSUME NEW q \in P, NEW e \in Entries PROVE Append(q, e) \in P
    <2> DEFINE a == Append(q, e)
    <2>1. q \in Seq(Entries) OBVIOUS
    <2>2. /\ a \in Seq(Entries) /\ Len(a) = Len(q) + 1 /\ Len(q) \in Nat
          /\ a[Len(q) + 1] = e /\ \A k \in 1..Len(q) : a[k] = q[k]
      BY <2>1, AppendProperties
    <2>3. CacheBytes(a) = CacheBytes(q) + e.hi - e.lo BY <2>1, CacheBytesFacts
    <2> HIDE DEF a
    <2>4. ASSUME NEW r \in Seq(Entries), SameRanges(a, r) PROVE CacheBytes(r) = CacheBytes(a)
      <3>1. Len(r) = Len(q) + 1 BY <2>2, <2>4 DEF SameRanges
      <3>2. r # <<>> BY <2>2, <3>1
      <3>3. PICK x \in Seq(Entries), f \in Entries : r = Append(x, f)
        BY <3>2, SequenceEmptyOrAppend
      <3>4. /\ Len(r) = Len(x) + 1 /\ Len(x) \in Nat
            /\ r[Len(x) + 1] = f /\ \A k \in 1..Len(x) : r[k] = x[k]
        BY <3>3, AppendProperties
      <3>5. Len(x) = Len(q) BY <2>2, <3>1, <3>4
      <3>6. CacheBytes(r) = CacheBytes(x) + f.hi - f.lo BY <3>3, CacheBytesFacts
      <3>7. \A k \in 1..(Len(q) + 1) : r[k].lo = a[k].lo /\ r[k].hi = a[k].hi
        BY <2>2, <2>4 DEF SameRanges
      <3>8. f.lo = e.lo /\ f.hi = e.hi
        <4>1. Len(q) + 1 \in 1..(Len(q) + 1) BY <2>2
        <4>2. QED BY <2>2, <3>4, <3>5, <3>7, <4>1
      <3>9. SameRanges(q, x)
        <4>1. \A k \in 1..Len(q) : k \in 1..(Len(q) + 1) BY <2>2
        <4>2. \A k \in 1..Len(q) : x[k].lo = q[k].lo /\ x[k].hi = q[k].hi
          BY <2>2, <3>4, <3>5, <3>7, <4>1
        <4>3. QED BY <3>5, <4>2 DEF SameRanges
      <3>10. CacheBytes(x) = CacheBytes(q) BY <3>9
      <3>11. QED BY <2>3, <3>6, <3>8, <3>10
    <2>5. QED BY <2>2, <2>4 DEF a
  <1>3. P \in SUBSET Seq(Entries) OBVIOUS
  <1> HIDE DEF P
  <1>4. P = Seq(Entries) BY <1>1, <1>2, <1>3, InductSeq
  <1>5. QED BY <1>4 DEF P

LEMMA EvictFits ==
  ASSUME NEW c \in Seq(Entries), MaxCache \in Nat
  PROVE  Evict(c) \in Seq(Entries) /\ CacheBytes(Evict(c)) <= MaxCache
  <1> DEFINE K == {e \in Range(c) : CacheBytes(UsedSince(c, e)) <= MaxCache}
             U == {e.used : e \in K}
  <1>1. Evict(c) = Where(c, K) BY DEF Evict
  <1>2. Where(c, K) \in Seq(Entries) /\ Range(Where(c, K)) = Range(c) \cap K BY WhereFacts
  <1>3. \A e \in Range(c) : e.used \in Nat
    <2>1. Range(c) \subseteq Entries BY RangeSeq
    <2>2. QED BY <2>1 DEF Entries
  <1>4. CASE K = {}
    <2> DEFINE w == Where(c, K)
    <2>1. w \in Seq(Entries) /\ Range(w) = {} BY <1>2, <1>4
    <2> HIDE DEF w
    <2>2. \A i \in 1..Len(w) : w[i] \in Range(w) BY <2>1, RangeSeq
    <2>3. Len(w) \in Nat BY <2>1
    <2>4. Len(w) = 0
      <3>1. 1 \notin 1..Len(w) BY <2>1, <2>2
      <3>2. QED BY <2>3, <3>1
    <2>5. w = <<>> BY <2>1, <2>4
    <2>6. QED BY <1>1, <1>2, <2>5, CacheBytesFacts DEF w
  <1>5. CASE K # {}
    <2>1. U \in SUBSET Nat /\ U # {} BY <1>3, <1>5
    <2>2. PICK m \in K : \A e \in K : m.used <= e.used
      <3>1. PICK u \in U : \A k \in U : u <= k BY <2>1, Least
      <3>2. QED BY <3>1
    <2>3. K \subseteq {x \in Range(c) : x.used >= m.used}
      <3>1. \A e \in K : e \in Range(c) /\ e.used \in Nat /\ m.used \in Nat BY <1>3
      <3>2. \A e \in K : e.used >= m.used BY <2>2, <3>1
      <3>3. QED BY <3>1, <3>2
    <2>4. CacheBytes(Where(c, K)) <= CacheBytes(UsedSince(c, m))
      BY <2>3, WhereBytes DEF UsedSince
    <2>5. CacheBytes(UsedSince(c, m)) <= MaxCache OBVIOUS
    <2>6. UsedSince(c, m) \in Seq(Entries) BY WhereFacts DEF UsedSince
    <2>7. CacheBytes(UsedSince(c, m)) \in Nat /\ CacheBytes(Where(c, K)) \in Nat
      BY <1>2, <2>6, CacheBytesFacts
    <2> HIDE DEF K
    <2>8. QED BY <1>1, <1>2, <2>4, <2>5, <2>7
  <1>6. QED BY <1>4, <1>5

LEMMA RankedFacts ==
  ASSUME NEW c \in Seq(Entries)
  PROVE  Ranked(c) \in Seq(Entries) /\ CacheBytes(Ranked(c)) = CacheBytes(c)
  <1> DEFINE n == Len(c)
             rank(k) == Cardinality({j \in DOMAIN c : c[j].used < c[k].used})
             t == Ranked(c)
  <1>1. n \in Nat /\ DOMAIN c = 1..n /\ \A k \in 1..n : c[k] \in Entries OBVIOUS
  <1>2. \A k \in 1..n : rank(k) \in Nat
    <2> SUFFICES ASSUME NEW k \in 1..n PROVE rank(k) \in Nat OBVIOUS
    <2>1. IsFiniteSet(1..n) BY <1>1, FS_Interval
    <2>2. {j \in DOMAIN c : c[j].used < c[k].used} \in SUBSET (1..n) BY <1>1
    <2>3. QED BY <2>1, <2>2, FS_Subset, FS_CardinalityType
  <1>3. t = [k \in DOMAIN c |-> [c[k] EXCEPT !.used = rank(k)]] BY DEF Ranked
  <1> HIDE DEF n, rank
  <1>4. \A k \in 1..n : t[k] \in Entries /\ t[k].lo = c[k].lo /\ t[k].hi = c[k].hi
    <2> SUFFICES ASSUME NEW k \in 1..n
                 PROVE  t[k] \in Entries /\ t[k].lo = c[k].lo /\ t[k].hi = c[k].hi
      OBVIOUS
    <2>1. t[k] = [c[k] EXCEPT !.used = rank(k)] BY <1>1, <1>3
    <2>2. c[k] \in Entries /\ rank(k) \in Nat BY <1>1, <1>2
    <2>3. QED BY <2>1, <2>2 DEF Entries
  <1>5. t \in [1..n -> Entries] BY <1>1, <1>3, <1>4
  <1> HIDE DEF t
  <1>6. t \in Seq(Entries) /\ Len(t) = n BY <1>1, <1>5
  <1>7. SameRanges(c, t) BY <1>4, <1>6 DEF SameRanges, n
  <1>8. QED BY <1>6, <1>7, SameBytes DEF t

LEMMA TouchFacts ==
  ASSUME NEW c \in Seq(Entries), NEW want
  PROVE  Touch(c, want) \in Seq(Entries) /\ CacheBytes(Touch(c, want)) = CacheBytes(c)
  <1> DEFINE n == Len(c)
             t == [k \in DOMAIN c |-> IF Overlaps(c[k], want) THEN [c[k] EXCEPT !.used = Len(c) + k] ELSE c[k]]
  <1>1. n \in Nat /\ DOMAIN c = 1..n /\ \A k \in 1..n : c[k] \in Entries OBVIOUS
  <1>2. \A k \in 1..n : t[k] \in Entries /\ t[k].lo = c[k].lo /\ t[k].hi = c[k].hi
    <2> SUFFICES ASSUME NEW k \in 1..n
                 PROVE  t[k] \in Entries /\ t[k].lo = c[k].lo /\ t[k].hi = c[k].hi
      OBVIOUS
    <2>1. t[k] = c[k] \/ t[k] = [c[k] EXCEPT !.used = n + k] BY <1>1
    <2> HIDE DEF t, n
    <2>2. c[k] \in Entries /\ n + k \in Nat BY <1>1
    <2>3. QED BY <2>1, <2>2 DEF Entries
  <1>3. t \in [1..n -> Entries] BY <1>1, <1>2
  <1>4. Touch(c, want) = Ranked(t) BY DEF Touch
  <1> HIDE DEF t
  <1>5. t \in Seq(Entries) /\ Len(t) = n BY <1>1, <1>3
  <1>6. SameRanges(c, t) BY <1>2, <1>5 DEF SameRanges, n
  <1>7. CacheBytes(t) = CacheBytes(c) BY <1>5, <1>6, SameBytes
  <1>8. QED BY <1>4, <1>5, <1>7, RankedFacts

LEMMA InsertFacts ==
  ASSUME NEW c \in Seq(Entries), MaxCache \in Nat, CacheBytes(c) <= MaxCache,
         NEW hole \in Pieces, hole.lo < hole.hi
  PROVE  Insert(c, hole) \in Seq(Entries) /\ CacheBytes(Insert(c, hole)) <= MaxCache
  <1> DEFINE e == [lo |-> hole.lo, hi |-> hole.hi, used |-> Len(c)]
             a == Append(c, e)
  <1>1. e \in Entries
    <2>1. Len(c) \in Nat OBVIOUS
    <2>2. QED BY <2>1 DEF Entries, Pieces
  <1>2. a \in Seq(Entries) BY <1>1, AppendProperties
  <1> HIDE DEF a
  <1>3. Insert(c, hole) = c \/ Insert(c, hole) = Ranked(Evict(a)) BY DEF Insert, a
  <1>4. Evict(a) \in Seq(Entries) /\ CacheBytes(Evict(a)) <= MaxCache BY <1>2, EvictFits
  <1>5. /\ Ranked(Evict(a)) \in Seq(Entries)
        /\ CacheBytes(Ranked(Evict(a))) = CacheBytes(Evict(a))
    BY <1>4, RankedFacts
  <1>6. QED BY <1>3, <1>4, <1>5

-----------------------------------------------------------------------------
(* Permits.  Holes are handed from the queue to the broker.                *)
Items == Reads \X Pieces

\* A permit is out for each request, and a hole is in one place only.
Issued(asked, q, n) ==
    /\ asked \subseteq Items /\ IsFiniteSet(asked)
    /\ q \in Seq(Items) /\ Distinct(q) /\ asked \cap Range(q) = {}
    /\ n = Cardinality(asked) /\ n <= MaxConcurrency

\* Nothing waits while a permit is free.
Full(q, n) == q # <<>> => n = MaxConcurrency

LEMMA GrantFacts ==
  ASSUME MaxConcurrency \in Nat, NEW held \in Nat, held <= MaxConcurrency,
         NEW E, NEW q \in Seq(E), Distinct(q), NEW g, g = Grant(held, q)
  PROVE  /\ g.later \in Seq(E) /\ Distinct(g.later) /\ Full(g.later, g.permits)
         /\ IsFiniteSet(g.now) /\ g.permits = held + Cardinality(g.now) /\ g.permits <= MaxConcurrency
         /\ g.now \cap Range(g.later) = {} /\ g.now \cup Range(g.later) = Range(q)
  <1> DEFINE n == Smaller(MaxConcurrency - held, Len(q))
             now == {q[k] : k \in 1..n}
             later == SubSeq(q, n + 1, Len(q))
             l == Len(q)
  <1>1. l \in Nat /\ \A i \in 1..l : q[i] \in E OBVIOUS
  <1>2. /\ n \in Nat /\ n <= l /\ held + n <= MaxConcurrency
        /\ n = l \/ held + n = MaxConcurrency
    BY <1>1 DEF Smaller
  <1>3. g.permits = held + n /\ g.now = now /\ g.later = later BY DEF Grant
  <1> HIDE DEF n
  <1>4. /\ later \in Seq(E) /\ Len(later) = l - n
        /\ \A i \in 1..(l - n) : later[i] = q[n + i]
    <2>1. n + 1 \in Int /\ l \in Int /\ \A i \in (n + 1)..l : q[i] \in E BY <1>1, <1>2
    <2>2. /\ later \in Seq(E) /\ Len(later) = IF n + 1 <= l THEN l - (n + 1) + 1 ELSE 0
          /\ \A i \in 1..(l - (n + 1) + 1) : later[i] = q[(n + 1) + i - 1]
      BY <2>1, SubSeqProperties
    <2> HIDE DEF later, l
    <2>3. l - (n + 1) + 1 = l - n /\ (~(n + 1 <= l) => l - n = 0) BY <1>1, <1>2
    <2>4. \A i \in 1..(l - n) : (n + 1) + i - 1 = n + i BY <1>1, <1>2
    <2>5. QED BY <2>2, <2>3, <2>4
  <1>5. \A i, j \in 1..l : i # j => q[i] # q[j] BY DEF Distinct
  <1>6. \A x : x \in Range(q) <=> \E i \in 1..l : q[i] = x BY RangeSeq
  <1> HIDE DEF later, l
  <1>7. \A x : x \in Range(later) <=> \E i \in 1..(l - n) : q[n + i] = x
    <2>1. \A x : x \in Range(later) <=> \E i \in 1..Len(later) : later[i] = x BY <1>4, RangeSeq
    <2>2. QED BY <1>4, <2>1
  <1>8. Distinct(later)
    <2>1. \A i, j \in 1..(l - n) : i # j => n + i \in 1..l /\ n + j \in 1..l /\ n + i # n + j
      BY <1>1, <1>2
    <2>2. \A i, j \in 1..(l - n) : i # j => later[i] # later[j] BY <1>4, <1>5, <2>1
    <2>3. QED BY <1>4, <2>2 DEF Distinct
  <1>9. IsFiniteSet(now) /\ Cardinality(now) = n
    <2> DEFINE f == [k \in 1..n |-> q[k]]
    <2>1. IsFiniteSet(1..n) /\ Cardinality(1..n) = n
      BY <1>2, FS_Interval
    <2>2. \A k \in 1..n : k \in 1..l BY <1>1, <1>2
    <2>3. f \in Surjection(1..n, now) BY DEF Surjection
    <2>4. f \in Injection(1..n, now) BY <1>5, <2>2 DEF Injection, IsInjective
    <2>5. QED BY <2>1, <2>3, <2>4, FS_Surjection
  <1>10. now \cap Range(later) = {}
    <2> SUFFICES ASSUME NEW x \in now, x \in Range(later) PROVE FALSE OBVIOUS
    <2>1. PICK k \in 1..n : q[k] = x OBVIOUS
    <2>2. PICK i \in 1..(l - n) : q[n + i] = x BY <1>7
    <2>3. k \in 1..l /\ n + i \in 1..l /\ k # n + i BY <1>1, <1>2
    <2>4. QED BY <1>5, <2>1, <2>2, <2>3
  <1>11. now \cup Range(later) = Range(q)
    <2>1. ASSUME NEW x \in now PROVE x \in Range(q)
      <3>1. PICK k \in 1..n : q[k] = x OBVIOUS
      <3>2. k \in 1..l BY <1>1, <1>2
      <3>3. QED BY <1>6, <3>1, <3>2
    <2>2. ASSUME NEW x \in Range(later) PROVE x \in Range(q)
      <3>1. PICK i \in 1..(l - n) : q[n + i] = x BY <1>7, <2>2
      <3>2. n + i \in 1..l BY <1>1, <1>2
      <3>3. QED BY <1>6, <3>1, <3>2
    <2>3. ASSUME NEW x \in Range(q) PROVE x \in now \/ x \in Range(later)
      <3>1. PICK i \in 1..l : q[i] = x BY <1>6, <2>3
      <3>2. CASE i <= n
        <4>1. i \in 1..n BY <1>1, <1>2, <3>2
        <4>2. QED BY <3>1, <4>1
      <3>3. CASE ~(i <= n)
        <4>1. i - n \in 1..(l - n) /\ n + (i - n) = i BY <1>1, <1>2, <3>3
        <4>2. QED BY <1>7, <3>1, <4>1
      <3>4. QED BY <3>2, <3>3
    <2>4. QED BY <2>1, <2>2, <2>3
  <1>12. Full(later, held + n)
    <2> SUFFICES ASSUME later # <<>> PROVE held + n = MaxConcurrency BY DEF Full
    <2>1. n # l
      <3> SUFFICES ASSUME n = l PROVE FALSE OBVIOUS
      <3>1. Len(later) = 0 BY <1>1, <1>4
      <3>2. QED BY <1>4, <3>1
    <2>2. QED BY <1>2, <2>1
  <1> HIDE DEF now
  <1>13. QED BY <1>2, <1>3, <1>4, <1>8, <1>9, <1>10, <1>11, <1>12

LEMMA GrantIssues ==
  ASSUME MaxConcurrency \in Nat, NEW asked, NEW q, NEW held, Issued(asked, q, held),
         NEW g, g = Grant(held, q)
  PROVE  /\ Issued(asked \cup g.now, g.later, g.permits) /\ Full(g.later, g.permits)
         /\ (asked \cup g.now) \cup Range(g.later) = asked \cup Range(q)
  <1> DEFINE now == g.now
             later == g.later
             n == g.permits
  <1>1. /\ asked \subseteq Items /\ IsFiniteSet(asked)
        /\ q \in Seq(Items) /\ Distinct(q) /\ asked \cap Range(q) = {}
        /\ held = Cardinality(asked) /\ held <= MaxConcurrency
    BY DEF Issued
  <1>2. held \in Nat BY <1>1, FS_CardinalityType
  <1>3. /\ later \in Seq(Items) /\ Distinct(later) /\ Full(later, n)
        /\ IsFiniteSet(now) /\ n = held + Cardinality(now) /\ n <= MaxConcurrency
        /\ now \cap Range(later) = {} /\ now \cup Range(later) = Range(q)
    BY <1>1, <1>2, GrantFacts
  <1>4. Range(q) \subseteq Items BY <1>1, RangeSeq
  <1> HIDE DEF now, later, n
  <1>5. asked \cap now = {} /\ now \subseteq Items BY <1>1, <1>3, <1>4
  <1>6. IsFiniteSet(asked \cup now) /\ Cardinality(asked \cup now) = n
    <2>1. Cardinality({}) = 0 BY FS_EmptySet
    <2>2. IsFiniteSet(asked \cup now)
          /\ Cardinality(asked \cup now) = Cardinality(asked) + Cardinality(now) - Cardinality(asked \cap now)
      BY <1>1, <1>3, FS_Union
    <2>3. Cardinality(asked) \in Nat /\ Cardinality(now) \in Nat BY <1>1, <1>3, FS_CardinalityType
    <2>4. Cardinality(asked \cap now) = 0 BY <1>5, <2>1
    <2>5. Cardinality(asked \cup now) = Cardinality(asked) + Cardinality(now) BY <2>2, <2>3, <2>4
    <2>6. QED BY <1>1, <1>3, <2>2, <2>5
  <1>7. (asked \cup now) \cap Range(later) = {} BY <1>1, <1>3
  <1>8. Issued(asked \cup now, later, n) BY <1>1, <1>3, <1>5, <1>6, <1>7 DEF Issued
  <1>9. (asked \cup now) \cup Range(later) = asked \cup Range(q) BY <1>3
  <1>10. QED BY <1>3, <1>8, <1>9 DEF now, later, n

\* An enumeration of a set: every element once.
LEMMA EveryOnce ==
  ASSUME NEW S, IsFiniteSet(S), NEW T, S \subseteq T, NEW q \in SetToSeqs(S)
  PROVE  q \in Seq(T) /\ Range(q) = S /\ Distinct(q)
  <1> DEFINE n == Cardinality(S)
  <1>1. n \in Nat BY FS_CardinalityType
  <1>2. q \in [1..n -> S] /\ \A i, j \in 1..n : i # j => q[i] # q[j] BY DEF SetToSeqs
  <1>3. IsFiniteSet(1..n) /\ Cardinality(1..n) = n BY <1>1, FS_Interval
  <1>4. q \in Injection(1..n, S) BY <1>2 DEF Injection, IsInjective
  <1>5. q \in Surjection(1..n, S) BY <1>3, <1>4, FS_Injection
  <1>6. Range(q) = S BY <1>2, <1>5 DEF Range, Surjection
  <1> HIDE DEF n
  <1>7. q \in Seq(T) /\ Len(q) = n BY <1>1, <1>2
  <1>8. QED BY <1>2, <1>6, <1>7 DEF Distinct

-----------------------------------------------------------------------------
(* The inductive invariant.                                                *)
Wants == {Want[p] : p \in Reads}
Live(p) == flight[p] \in Unsettled
Out == requested \cup Range(queue)

Types ==
    /\ open \in BOOLEAN
    /\ cache \in Seq(Entries) /\ CacheBytes(cache) <= MaxCache
    /\ state \in [Reads -> {"idle", "waiting", "done"}]
    /\ joined \in [Reads -> SUBSET Reads]
    /\ inherited \in [Reads -> SUBSET Wants]
    /\ flight \in [Reads -> {"none", "ok"} \cup Unsettled \cup Errors]
    /\ ready \in Seq(Reads)

\* Whatever is asked for, queued or still to do is a part of the range of a
\* read whose work goes on, and no two parts share a byte.
WorkFits ==
    /\ todo \in [Reads -> Seq(Pieces)]
    /\ \A x \in Out : Live(x[1]) /\ Inside(x[2], Want[x[1]])
    /\ \A p \in Reads : \A h \in Range(todo[p]) : Live(p) /\ Inside(h, Want[p])

WorkApart ==
    /\ \A x, y \in Out : x # y /\ x[1] = y[1] => Apart(x[2], y[2])
    /\ \A x \in Out : \A h \in Range(todo[x[1]]) : Apart(x[2], h)
    /\ \A p \in Reads : Separate(todo[p])

RangesApart == \A p, q \in Reads : p # q /\ Live(p) /\ Live(q) => Apart(Want[p], Want[q])

\* Work that goes on has a request or a queued hole ...
RangesWork == \A p \in Reads : Live(p) => \E x \in Out : x[1] = p

\* ... and somebody who waits for it.
Waited ==
    /\ waiters \in [Reads -> Nat]
    /\ inflight = {p \in Reads : waiters[p] > 0}
    /\ \A p \in Reads : waiters[p] = Cardinality({r \in Reads : p \in joined[r]})
    /\ \A p \in Reads : Live(p) => waiters[p] > 0

FlowInv ==
    /\ Issued(requested, queue, permits) /\ Full(queue, permits)
    /\ WorkFits /\ WorkApart /\ RangesApart /\ RangesWork /\ Waited

\* A read that made a range waits for that one only.
Joins ==
    /\ \A r \in Reads : state[r] # "waiting" => joined[r] = {}
    /\ \A r \in Reads : state[r] = "idle" => flight[r] = "none"
    /\ \A r \in Reads : \A p \in joined[r] : flight[p] # "none"
    /\ \A r \in Reads : state[r] = "waiting" /\ flight[r] # "none" => joined[r] = {r}

\* A waiting read is about to run, or something it waits for is not settled.
Woken ==
    /\ Distinct(ready)
    /\ \A r \in Range(ready) : state[r] = "waiting"
    /\ \A r \in Reads : state[r] = "waiting" /\ r \notin Range(ready) => ~Resolved(joined[r], flight)

IInv == Types /\ FlowInv /\ Joins /\ Woken

LEMMA SourceConstants ==
  /\ IsFiniteSet(Reads) /\ MaxCache \in Nat /\ MaxConcurrency \in Nat /\ 1 <= MaxConcurrency
  /\ \A r \in Reads : Want[r] \in Pieces /\ Want[r].lo < Want[r].hi
                      /\ Want[r].lo \in Nat /\ Want[r].hi \in Nat
  BY RangeSourceAssumption DEF Pieces

LEMMA StartsRight == Init => IInv
  <1> SUFFICES ASSUME Init PROVE IInv OBVIOUS
  <1> USE DEF Init
  <1>0. MaxCache \in Nat /\ MaxConcurrency \in Nat /\ IsFiniteSet(Reads) BY SourceConstants
  <1>1. Types
    <2>1. cache = <<>> /\ CacheBytes(<<>>) = 0 BY CacheBytesFacts
    <2>2. cache \in Seq(Entries) /\ CacheBytes(cache) <= MaxCache BY <1>0, <2>1
    <2>3. ready \in Seq(Reads) OBVIOUS
    <2>4. QED BY <2>2, <2>3 DEF Types
  <1>2. Out = {} /\ Range(queue) = {} BY RangeEmpty DEF Out
  <1>3. \A p \in Reads : ~Live(p) BY DEF Live, Unsettled
  <1>4. Issued(requested, queue, permits) /\ Full(queue, permits)
    <2>1. IsFiniteSet({}) /\ Cardinality({}) = 0 BY FS_EmptySet
    <2>2. queue \in Seq(Items) /\ Distinct(queue) BY DEF Distinct
    <2>3. QED BY <1>0, <1>2, <2>1, <2>2 DEF Issued, Full
  <1>5. \A p \in Reads : todo[p] = <<>> OBVIOUS
  <1>6. Range(<<>>) = {} /\ Separate(<<>>) BY RangeEmpty DEF Separate
  <1>7. todo \in [Reads -> Seq(Pieces)] OBVIOUS
  <1>8. WorkFits /\ WorkApart BY <1>2, <1>5, <1>6, <1>7 DEF WorkFits, WorkApart
  <1>9. RangesApart /\ RangesWork BY <1>3 DEF RangesApart, RangesWork
  <1>10. Waited
    <2>1. \A p \in Reads : {r \in Reads : p \in joined[r]} = {} OBVIOUS
    <2>2. Cardinality({}) = 0 BY FS_EmptySet
    <2>3. \A p \in Reads : waiters[p] = 0 OBVIOUS
    <2>4. inflight = {p \in Reads : waiters[p] > 0} BY <2>3
    <2>5. QED BY <1>3, <2>1, <2>2, <2>3, <2>4 DEF Waited
  <1>11. Joins BY DEF Joins
  <1>12. Woken BY RangeEmpty DEF Woken, Distinct
  <1>13. QED BY <1>1, <1>4, <1>8, <1>9, <1>10, <1>11, <1>12 DEF IInv, FlowInv

-----------------------------------------------------------------------------
(* The microtask queue.                                                    *)
LEMMA HeadAndTail ==
  ASSUME NEW E, NEW q \in Seq(E), q # <<>>, Distinct(q)
  PROVE  /\ Tail(q) \in Seq(E) /\ Distinct(Tail(q))
         /\ Head(q) \notin Range(Tail(q)) /\ Range(q) = {Head(q)} \cup Range(Tail(q))
  <1> DEFINE t == Tail(q)
             n == Len(t)
  <1>1. t \in Seq(E) /\ n \in Nat /\ Len(q) = n + 1 /\ \A i \in 1..n : t[i] = q[i + 1]
    OBVIOUS
  <1>2. Head(q) = q[1] OBVIOUS
  <1>3. \A i, j \in 1..(n + 1) : i # j => q[i] # q[j] BY <1>1 DEF Distinct
  <1>4. \A x : x \in Range(q) <=> \E i \in 1..(n + 1) : q[i] = x
    <2>1. \A x : x \in Range(q) <=> \E i \in 1..Len(q) : q[i] = x BY RangeSeq
    <2>2. QED BY <1>1, <2>1
  <1>5. \A x : x \in Range(t) <=> \E i \in 1..n : t[i] = x BY <1>1, RangeSeq
  <1> HIDE DEF t, n
  <1>6. Distinct(t)
    <2>1. \A i, j \in 1..n : i # j => i + 1 \in 1..(n + 1) /\ j + 1 \in 1..(n + 1) /\ i + 1 # j + 1
      BY <1>1
    <2>2. \A i, j \in 1..n : i # j => t[i] # t[j] BY <1>1, <1>3, <2>1
    <2>3. QED BY <2>2 DEF Distinct, n
  <1>7. \A i \in 1..n : i + 1 \in 1..(n + 1) /\ i + 1 # 1 /\ 1 \in 1..(n + 1) BY <1>1
  <1>8. q[1] \notin Range(t)
    <2> SUFFICES ASSUME q[1] \in Range(t) PROVE FALSE OBVIOUS
    <2>1. PICK i \in 1..n : t[i] = q[1] BY <1>5
    <2>2. q[i + 1] = q[1] BY <1>1, <2>1
    <2>3. QED BY <1>3, <1>7, <2>2
  <1>9. ASSUME NEW x \in Range(q) PROVE x = q[1] \/ x \in Range(t)
    <2>1. PICK i \in 1..(n + 1) : q[i] = x BY <1>4
    <2>2. CASE i = 1 BY <2>1, <2>2
    <2>3. CASE i # 1
      <3>1. i - 1 \in 1..n /\ (i - 1) + 1 = i BY <1>1, <2>3
      <3>2. t[i - 1] = x BY <1>1, <2>1, <3>1
      <3>3. QED BY <1>5, <3>1, <3>2
    <2>4. QED BY <2>2, <2>3
  <1>10. ASSUME NEW x \in Range(t) PROVE x \in Range(q)
    <2>1. PICK i \in 1..n : t[i] = x BY <1>5
    <2>2. QED BY <1>1, <1>4, <1>7, <2>1
  <1>11. q[1] \in Range(q)
    <2>1. 1 \in 1..(n + 1) BY <1>1
    <2>2. QED BY <1>4, <2>1
  <1>12. QED BY <1>1, <1>2, <1>6, <1>8, <1>9, <1>10, <1>11 DEF t

-----------------------------------------------------------------------------
(* A read stops waiting.                                                   *)
\* Requests and queued holes of the ranges in gone are dropped.
LEMMA WakeIssues ==
  ASSUME NEW dropped, dropped \subseteq requested, NEW q, NEW g, g = Wake(dropped, q),
         Issued(requested, queue, permits), q \in Seq(Items), Distinct(q), Range(q) \subseteq Range(queue)
  PROVE  LET asked == (requested \ dropped) \cup g.now
         IN  /\ Issued(asked, g.later, g.permits) /\ Full(g.later, g.permits)
             /\ asked \cup Range(g.later) = (requested \ dropped) \cup Range(q)
  <1> DEFINE A == requested \ dropped
             held == permits - Cardinality(dropped)
  <1>1. /\ requested \subseteq Items /\ IsFiniteSet(requested) /\ requested \cap Range(queue) = {}
        /\ permits = Cardinality(requested) /\ permits <= MaxConcurrency
    BY DEF Issued
  <1>2. IsFiniteSet(A) /\ held = Cardinality(A)
    <2>1. requested \cap dropped = dropped OBVIOUS
    <2>2. QED BY <1>1, <2>1, FS_Difference
  <1>3. Cardinality(A) <= Cardinality(requested) /\ Cardinality(requested) \in Nat /\ Cardinality(A) \in Nat
    <2>1. A \in SUBSET requested OBVIOUS
    <2> HIDE DEF A
    <2>2. QED BY <1>1, <1>2, <2>1, FS_Subset, FS_CardinalityType
  <1>4. MaxConcurrency \in Nat BY SourceConstants
  <1>5. Issued(A, q, held)
    <2>1. held <= MaxConcurrency BY <1>1, <1>2, <1>3, <1>4
    <2>2. A \subseteq Items /\ A \cap Range(q) = {} BY <1>1
    <2> HIDE DEF A, held
    <2>3. QED BY <1>2, <2>1, <2>2 DEF Issued
  <1>6. g = Grant(held, q) BY DEF Wake
  <1> HIDE DEF held
  <1>7. /\ Issued(A \cup g.now, g.later, g.permits) /\ Full(g.later, g.permits)
        /\ (A \cup g.now) \cup Range(g.later) = A \cup Range(q)
    BY <1>4, <1>5, <1>6, GrantIssues, Zenon
  <1>8. QED BY <1>7

Settled(p) ==
    Live(p) /\ flight'[p] = "cancelled" /\ \A q \in Reads : p \notin joined'[q]

LEMMA LeaveFlow ==
  ASSUME Types, FlowInv, NEW r \in Reads, Leave(r), joined' = [joined EXCEPT ![r] = {}]
  PROVE  /\ FlowInv'
         /\ flight' \in [Reads -> {"none", "ok"} \cup Unsettled \cup Errors]
         /\ \A p \in Reads : flight'[p] = flight[p] \/ Settled(p)
  <1> DEFINE W == [p \in Reads |-> IF p \in joined[r] THEN waiters[p] - 1 ELSE waiters[p]]
             gone == Abandoned(W, joined[r])
             dropped == {x \in requested : x[1] \in gone}
             kept == {x \in Range(queue) : x[1] \notin gone}
             q == Where(queue, kept)
             g == Wake(dropped, q)
  <1>1. /\ Issued(requested, queue, permits) /\ Full(queue, permits)
        /\ WorkFits /\ WorkApart /\ RangesApart /\ RangesWork /\ Waited
    BY DEF FlowInv
  <1>2. /\ waiters' = W
        /\ flight' = [p \in Reads |-> IF p \in gone THEN "cancelled" ELSE flight[p]]
        /\ inflight' = {p \in inflight : W[p] > 0}
        /\ todo' = [p \in Reads |-> IF p \in gone THEN <<>> ELSE todo[p]]
        /\ requested' = (requested \ dropped) \cup g.now
        /\ queue' = g.later
        /\ permits' = g.permits
    BY DEF Leave
  <1>3. joined \in [Reads -> SUBSET Reads] /\ flight \in [Reads -> {"none", "ok"} \cup Unsettled \cup Errors]
    BY DEF Types
  <1>4. \A p \in gone : p \in Reads /\ p \in joined[r] /\ Live(p) /\ W[p] = 0
    BY <1>3 DEF Abandoned, Live
  <1>5. \A p \in joined[r] : Live(p) /\ W[p] = 0 => p \in gone
    BY DEF Abandoned, Live
  <1>6. /\ requested \subseteq Items /\ queue \in Seq(Items) /\ Distinct(queue)
        /\ Out \subseteq Items
    <2>1. requested \subseteq Items /\ queue \in Seq(Items) /\ Distinct(queue) BY <1>1 DEF Issued
    <2>2. Range(queue) \subseteq Items BY <2>1, RangeSeq
    <2>3. QED BY <2>1, <2>2 DEF Out
  <1>7. q \in Seq(Items) /\ Distinct(q) /\ Range(q) = kept
    <2>1. q \in Seq(Items) /\ Distinct(q) /\ Range(q) = Range(queue) \cap kept
      BY <1>6, WhereFacts
    <2>2. QED BY <2>1
  <1>8. /\ Issued(requested', queue', permits') /\ Full(queue', permits')
        /\ Out' = (requested \ dropped) \cup kept
    <2>1. dropped \subseteq requested /\ Range(q) \subseteq Range(queue) BY <1>7
    <2> HIDE DEF dropped, q, kept
    <2> DEFINE asked == (requested \ dropped) \cup g.now
    <2>2. /\ Issued(asked, g.later, g.permits) /\ Full(g.later, g.permits)
          /\ asked \cup Range(g.later) = (requested \ dropped) \cup Range(q)
      BY <1>1, <1>7, <2>1, WakeIssues
    <2>3. asked = requested' /\ g.later = queue' /\ g.permits = permits' BY <1>2
    <2> HIDE DEF asked, g
    <2>4. QED BY <1>7, <2>2, <2>3 DEF Out
  <1>9. \A x : x \in Out' <=> x \in Out /\ x[1] \notin gone BY <1>8 DEF Out
  <1> HIDE DEF gone, dropped, kept, q, g
  <1>10. \A x \in Out : x[1] \in Reads BY <1>6 DEF Items
  <1>11. \A p \in Reads : p \notin gone => flight'[p] = flight[p] /\ todo'[p] = todo[p]
    BY <1>2
  <1>12. \A p \in gone : flight'[p] = "cancelled" /\ todo'[p] = <<>> /\ p \in Reads
    BY <1>2, <1>4
  <1>13. \A p \in Reads : Live(p)' <=> Live(p) /\ p \notin gone
    BY <1>11, <1>12 DEF Live, Unsettled
  <1>14. WorkFits'
    <2>1. todo' \in [Reads -> Seq(Pieces)]
      <3>1. \A p \in Reads : (IF p \in gone THEN <<>> ELSE todo[p]) \in Seq(Pieces)
        BY <1>1 DEF WorkFits
      <3>2. QED BY <1>2, <3>1
    <2>2. \A x \in Out' : Live(x[1])' /\ Inside(x[2], Want[x[1]])
      BY <1>1, <1>9, <1>10, <1>13 DEF WorkFits
    <2>3. ASSUME NEW p \in Reads, NEW h \in Range(todo'[p]) PROVE Live(p)' /\ Inside(h, Want[p])
      <3>1. p \notin gone BY <1>12, <2>3, RangeEmpty
      <3>2. QED BY <1>1, <1>11, <1>13, <2>3, <3>1 DEF WorkFits
    <2>4. QED BY <2>1, <2>2, <2>3 DEF WorkFits
  <1>15. WorkApart'
    <2>1. \A x, y \in Out' : x # y /\ x[1] = y[1] => Apart(x[2], y[2])
      BY <1>1, <1>9 DEF WorkApart
    <2>2. \A x \in Out' : \A h \in Range(todo'[x[1]]) : Apart(x[2], h)
      BY <1>1, <1>9, <1>10, <1>11 DEF WorkApart
    <2>3. ASSUME NEW p \in Reads PROVE Separate(todo'[p])
      <3>1. CASE p \in gone BY <1>12, <3>1 DEF Separate
      <3>2. CASE p \notin gone BY <1>1, <1>11, <3>2 DEF WorkApart
      <3>3. QED BY <3>1, <3>2
    <2>4. QED BY <2>1, <2>2, <2>3 DEF WorkApart
  <1>16. RangesApart' BY <1>1, <1>13 DEF RangesApart
  <1>17. RangesWork'
    <2> SUFFICES ASSUME NEW p \in Reads, Live(p)' PROVE \E x \in Out' : x[1] = p
      BY DEF RangesWork
    <2>1. Live(p) /\ p \notin gone BY <1>13
    <2>2. PICK x \in Out : x[1] = p BY <1>1, <2>1 DEF RangesWork
    <2>3. QED BY <1>9, <2>1, <2>2
  <1>18. \A p \in Reads : /\ W[p] = Cardinality({s \in Reads : p \in joined'[s]}) /\ W[p] \in Nat
                          /\ W[p] <= waiters[p] /\ waiters[p] \in Nat
    <2> SUFFICES ASSUME NEW p \in Reads
                 PROVE  /\ W[p] = Cardinality({s \in Reads : p \in joined'[s]}) /\ W[p] \in Nat
                        /\ W[p] <= waiters[p] /\ waiters[p] \in Nat
      OBVIOUS
    <2> DEFINE S == {s \in Reads : p \in joined[s]}
               T == {s \in Reads : p \in joined'[s]}
    <2>1. IsFiniteSet(S) /\ Cardinality(S) \in Nat
      <3>1. S \in SUBSET Reads OBVIOUS
      <3>2. QED BY <3>1, SourceConstants, FS_Subset, FS_CardinalityType
    <2>2. waiters[p] = Cardinality(S) BY <1>1 DEF Waited
    <2>3. T = S \ {r} BY <1>3
    <2>4. r \in S <=> p \in joined[r] OBVIOUS
    <2>5. W[p] = IF p \in joined[r] THEN waiters[p] - 1 ELSE waiters[p] OBVIOUS
    <2> HIDE DEF S, T, W
    <2>6. /\ IsFiniteSet(T) /\ Cardinality(T) \in Nat
          /\ Cardinality(T) = IF r \in S THEN Cardinality(S) - 1 ELSE Cardinality(S)
      BY <2>1, <2>3, FS_RemoveElement, FS_CardinalityType
    <2>7. W[p] = Cardinality(T) BY <2>2, <2>4, <2>5, <2>6
    <2>8. W[p] <= waiters[p] BY <2>1, <2>2, <2>4, <2>5
    <2>9. QED BY <2>1, <2>2, <2>6, <2>7, <2>8 DEF T
  <1>19. W = [p \in Reads |-> W[p]] OBVIOUS
  <1>20. \A p \in Reads : W[p] = waiters[p] \/ p \in joined[r] OBVIOUS
  <1>21. \A p \in Reads : W[p] \in Nat /\ waiters[p] \in Nat /\ W[p] <= waiters[p] BY <1>18
  <1>22. \A p \in Reads : W[p] = Cardinality({s \in Reads : p \in joined'[s]}) BY <1>18
  <1> HIDE DEF W
  <1>23. Waited'
    <2>1. waiters' \in [Reads -> Nat] BY <1>2, <1>18, <1>19
    <2>2. inflight' = {p \in Reads : waiters'[p] > 0}
      <3>1. inflight = {p \in Reads : waiters[p] > 0} BY <1>1 DEF Waited
      <3>2. \A p \in Reads : W[p] > 0 => waiters[p] > 0 BY <1>21
      <3>3. QED BY <1>2, <3>1, <3>2
    <2>3. \A p \in Reads : waiters'[p] = Cardinality({s \in Reads : p \in joined'[s]})
      BY <1>2, <1>18
    <2>4. ASSUME NEW p \in Reads, Live(p)' PROVE waiters'[p] > 0
      <3>1. Live(p) /\ p \notin gone BY <1>13, <2>4
      <3>2. waiters[p] > 0 BY <1>1, <3>1 DEF Waited
      <3>3. CASE W[p] = waiters[p] BY <1>2, <3>2, <3>3
      <3>4. CASE p \in joined[r]
        <4>1. W[p] # 0 BY <1>5, <3>1, <3>4
        <4>2. QED BY <1>2, <1>21, <4>1
      <3>5. QED BY <1>20, <3>3, <3>4
    <2>5. QED BY <2>1, <2>2, <2>3, <2>4 DEF Waited
  <1>24. FlowInv'
    BY <1>8, <1>14, <1>15, <1>16, <1>17, <1>23 DEF FlowInv
  <1>25. flight' \in [Reads -> {"none", "ok"} \cup Unsettled \cup Errors]
    BY <1>2, <1>3 DEF Errors
  <1>26. ASSUME NEW p \in gone PROVE Settled(p)
    <2>1. p \in Reads /\ Live(p) /\ flight'[p] = "cancelled" BY <1>4, <1>12
    <2> DEFINE T == {s \in Reads : p \in joined'[s]}
    <2>2. Cardinality(T) = 0 BY <1>4, <1>18, <2>1
    <2>3. IsFiniteSet(T)
      <3>1. T \in SUBSET Reads OBVIOUS
      <3>2. QED BY <3>1, SourceConstants, FS_Subset
    <2>4. T = {} BY <2>2, <2>3, FS_EmptySet
    <2>5. QED BY <2>1, <2>4 DEF Settled
  <1>27. QED BY <1>11, <1>24, <1>25, <1>26

-----------------------------------------------------------------------------
(* A read waits for ranges in flight, or fetches what is missing.          *)
LEMMA IdleFlow ==
  ASSUME FlowInv, UNCHANGED flights, joined' = joined
  PROVE  FlowInv'
  <1>1. /\ inflight' = inflight /\ waiters' = waiters /\ flight' = flight /\ todo' = todo
        /\ queue' = queue /\ requested' = requested /\ permits' = permits
    BY DEF flights
  <1>2. Out' = Out /\ \A p : Live(p)' = Live(p) BY <1>1 DEF Out, Live
  <1>3. WorkFits' /\ WorkApart' /\ RangesApart' /\ RangesWork'
    BY <1>1, <1>2 DEF FlowInv, WorkFits, WorkApart, RangesApart, RangesWork
  <1>4. Waited' BY <1>1, <1>2 DEF FlowInv, Waited
  <1>5. QED BY <1>1, <1>3, <1>4 DEF FlowInv

LEMMA Waiters ==
  ASSUME Types, Waited, NEW p \in Reads
  PROVE  /\ waiters[p] \in Nat /\ (p \in inflight <=> waiters[p] > 0)
         /\ waiters[p] > 0 <=> \E s \in Reads : p \in joined[s]
  <1> DEFINE S == {s \in Reads : p \in joined[s]}
  <1>1. S \in SUBSET Reads OBVIOUS
  <1>2. IsFiniteSet(S) /\ Cardinality(S) \in Nat
    BY <1>1, SourceConstants, FS_Subset, FS_CardinalityType
  <1>3. waiters[p] = Cardinality(S) /\ (p \in inflight <=> waiters[p] > 0) BY DEF Waited
  <1>4. Cardinality(S) = 0 <=> S = {} BY <1>2, FS_EmptySet
  <1>5. S = {} <=> ~\E s \in Reads : p \in joined[s] OBVIOUS
  <1> HIDE DEF S
  <1>6. QED BY <1>2, <1>3, <1>4, <1>5

LEMMA JoinFlow ==
  ASSUME Types, FlowInv, Joins, NEW r \in Reads, joined[r] = {}, Join(r)
  PROVE  /\ FlowInv' /\ flight' = flight
         /\ Joinable(r) \subseteq Reads /\ Joinable(r) # {}
         /\ \A p \in Joinable(r) : flight[p] # "none"
  <1> DEFINE J == Joinable(r)
             W == [p \in Reads |-> IF p \in J THEN waiters[p] + 1 ELSE waiters[p]]
  <1>1. /\ J # {} /\ waiters' = W /\ joined' = [joined EXCEPT ![r] = J]
        /\ UNCHANGED <<inflight, flight, todo, fetched, queue, requested, permits>>
    BY DEF Join
  <1>2. Waited /\ joined \in [Reads -> SUBSET Reads] BY DEF FlowInv, Types
  <1>3. \A p \in J : p \in Reads /\ waiters[p] > 0 BY <1>2 DEF Joinable, Waited
  <1>4. \A p \in J : flight[p] # "none" BY <1>2, <1>3, Waiters DEF Joins
  <1>5. Out' = Out /\ \A p : Live(p)' = Live(p) BY <1>1 DEF Out, Live
  <1>6. WorkFits' /\ WorkApart' /\ RangesApart' /\ RangesWork'
    BY <1>1, <1>5 DEF FlowInv, WorkFits, WorkApart, RangesApart, RangesWork
  <1>7. \A p \in Reads : waiters[p] \in Nat BY <1>2 DEF Waited
  <1>8. ASSUME NEW p \in Reads PROVE W[p] = Cardinality({s \in Reads : p \in joined'[s]})
    <2> DEFINE S == {s \in Reads : p \in joined[s]}
               T == {s \in Reads : p \in joined'[s]}
    <2>1. S \in SUBSET Reads /\ r \notin S OBVIOUS
    <2>2. IsFiniteSet(S) /\ Cardinality(S) \in Nat
      BY <2>1, SourceConstants, FS_Subset, FS_CardinalityType
    <2>3. waiters[p] = Cardinality(S) BY <1>2 DEF Waited
    <2>4. W[p] = IF p \in J THEN waiters[p] + 1 ELSE waiters[p] OBVIOUS
    <2> HIDE DEF J, W
    <2>5. T = IF p \in J THEN S \cup {r} ELSE S BY <1>1, <1>2
    <2>6. Cardinality(S \cup {r}) = Cardinality(S) + 1
      <3> HIDE DEF S
      <3>1. QED BY <2>1, <2>2, FS_AddElement
    <2> HIDE DEF S, T
    <2>7. W[p] = Cardinality(T) BY <2>3, <2>4, <2>5, <2>6
    <2>8. QED BY <2>7 DEF T
  <1>9. \A p \in Reads : /\ W[p] \in Nat /\ (W[p] > 0 <=> waiters[p] > 0)
                         /\ waiters'[p] = W[p]
    BY <1>1, <1>3, <1>7
  <1>10. waiters' \in [Reads -> Nat]
    <2>1. W = [p \in Reads |-> W[p]] OBVIOUS
    <2>2. QED BY <1>1, <1>9, <2>1
  <1> HIDE DEF W, J
  <1>11. inflight' = {p \in Reads : waiters'[p] > 0}
    <2>1. inflight = {p \in Reads : waiters[p] > 0} BY <1>2 DEF Waited
    <2>2. QED BY <1>1, <1>9, <2>1
  <1>12. \A p \in Reads : Live(p)' => waiters'[p] > 0
    <2>1. \A p \in Reads : Live(p) => waiters[p] > 0 BY <1>2 DEF Waited
    <2>2. QED BY <1>5, <1>9, <2>1
  <1>13. Waited' BY <1>8, <1>9, <1>10, <1>11, <1>12 DEF Waited
  <1>14. FlowInv' BY <1>1, <1>6, <1>13 DEF FlowInv
  <1>15. QED BY <1>1, <1>3, <1>4, <1>14 DEF J

LEMMA MissingHoles ==
  ASSUME NEW r \in Reads, NEW segments \in SUBSET Wants, cache \in Seq(Entries),
         ~Available(r, segments), NEW holes, holes = Missing(cache \o SetToSeq(segments), Want[r])
  PROVE  /\ holes \in Seq(Pieces) /\ Separate(holes) /\ holes # <<>>
         /\ \A h \in Range(holes) : Inside(h, Want[r])
  <1> DEFINE E == Entries \cup Wants
             s == SetToSeq(segments)
             w == Want[r]
  <1>1. Segments(E) BY EntrySegments, SourceConstants DEF Segments, IsSegment, Wants
  <1>2. IsFiniteSet(segments)
    <2> DEFINE f == [p \in Reads |-> Want[p]]
    <2>1. f \in Surjection(Reads, Wants) BY DEF Surjection, Wants
    <2>2. IsFiniteSet(Wants) BY <2>1, SourceConstants, FS_Surjection
    <2>3. QED BY <2>2, FS_Subset
  <1>3. s \in Seq(E) BY <1>2, EnumerationIn
  <1>4. cache \in Seq(E) OBVIOUS
  <1>5. w \in Pieces /\ w.lo < w.hi BY SourceConstants
  <1> HIDE DEF s, E
  <1> DEFINE c == cache \o s
  <1>6. c \in Seq(E) BY <1>3, <1>4, ConcatProperties
  <1>7. holes = Missing(c, w) /\ ~Assembled(c, w) BY DEF Available, s
  <1> HIDE DEF c, w
  <1>8. /\ holes \in Seq(Pieces) /\ Separate(holes)
        /\ \A h \in Range(holes) : Inside(h, w)
        /\ holes = <<>> => Assembled(c, w)
    BY <1>1, <1>5, <1>6, <1>7, MissingFacts
  <1>9. QED BY <1>7, <1>8 DEF w

\* The first n holes of a range go to its lanes, the rest stays to do.
Lanes(r, holes, n) == [k \in 1..n |-> <<r, holes[k]>>]
Rest(holes, n) == SubSeq(holes, n + 1, Len(holes))

LEMMA LanesFacts ==
  ASSUME NEW r \in Reads, NEW holes \in Seq(Pieces), Separate(holes),
         \A h \in Range(holes) : Inside(h, Want[r]), NEW n \in Nat, n <= Len(holes),
         NEW lanes, lanes = Lanes(r, holes, n), NEW rest, rest = Rest(holes, n)
  PROVE  /\ lanes \in Seq(Items) /\ Len(lanes) = n /\ Distinct(lanes)
         /\ rest \in Seq(Pieces) /\ Separate(rest) /\ Range(rest) \subseteq Range(holes)
         /\ \A x \in Range(lanes) : x[1] = r /\ x[2] \in Range(holes)
         /\ \A x, y \in Range(lanes) : x # y => Apart(x[2], y[2])
         /\ \A x \in Range(lanes), h \in Range(rest) : Apart(x[2], h)
  <1> DEFINE l == Len(holes)
  <1>1. l \in Nat /\ n <= l /\ \A i \in 1..l : holes[i] \in Pieces OBVIOUS
  <1>2. \A i \in 1..l : holes[i] \in Range(holes) BY RangeSeq
  <1>3. \A i, j \in 1..l : i # j => Apart(holes[i], holes[j]) BY DEF Separate
  <1>4. \A i, j \in 1..l : i # j => holes[i] # holes[j]
    <2> SUFFICES ASSUME NEW i \in 1..l, NEW j \in 1..l, i # j PROVE holes[i] # holes[j]
      OBVIOUS
    <2>1. Apart(holes[i], holes[j]) BY <1>3
    <2>2. Inside(holes[i], Want[r]) /\ holes[i] \in Pieces BY <1>1, <1>2
    <2>3. holes[i].lo < holes[i].hi /\ holes[i].lo \in Nat /\ holes[i].hi \in Nat
      BY <2>2 DEF Inside, Pieces
    <2>4. ~Apart(holes[i], holes[i]) BY <2>3 DEF Apart
    <2>5. QED BY <2>1, <2>4
  <1>5. /\ rest \in Seq(Pieces) /\ Len(rest) = l - n
        /\ \A i \in 1..(l - n) : rest[i] = holes[n + i]
    <2>1. n + 1 \in Int /\ l \in Int /\ \A i \in (n + 1)..l : holes[i] \in Pieces BY <1>1
    <2>2. /\ rest \in Seq(Pieces) /\ Len(rest) = IF n + 1 <= l THEN l - (n + 1) + 1 ELSE 0
          /\ \A i \in 1..(l - (n + 1) + 1) : rest[i] = holes[(n + 1) + i - 1]
      BY <2>1, SubSeqProperties DEF Rest
    <2> HIDE DEF l
    <2>3. l - (n + 1) + 1 = l - n /\ (~(n + 1 <= l) => l - n = 0) BY <1>1
    <2>4. \A i \in 1..(l - n) : (n + 1) + i - 1 = n + i BY <1>1
    <2>5. QED BY <2>2, <2>3, <2>4
  <1> HIDE DEF l
  <1>6. \A i \in 1..n : i \in 1..l BY <1>1 DEF l
  <1>7. \A i \in 1..(l - n) : n + i \in 1..l BY <1>1 DEF l
  <1>8. lanes \in Seq(Items) /\ Len(lanes) = n
    <2>1. \A i \in 1..n : <<r, holes[i]>> \in Items BY <1>1, <1>6 DEF Items
    <2>2. QED BY <2>1 DEF Lanes
  <1>9. \A i \in 1..n : lanes[i] = <<r, holes[i]>> BY DEF Lanes
  <1>10. \A x : x \in Range(lanes) <=> \E i \in 1..n : lanes[i] = x
    <2>1. \A x : x \in Range(lanes) <=> \E i \in 1..Len(lanes) : lanes[i] = x
      BY <1>8, RangeSeq
    <2>2. QED BY <1>8, <2>1
  <1>11. \A x : x \in Range(rest) <=> \E i \in 1..(l - n) : holes[n + i] = x
    <2>1. \A x : x \in Range(rest) <=> \E i \in 1..Len(rest) : rest[i] = x
      BY <1>5, RangeSeq
    <2>2. QED BY <1>5, <2>1
  <1>12. Distinct(lanes) BY <1>4, <1>6, <1>8, <1>9 DEF Distinct
  <1>13. Separate(rest)
    <2>1. \A i, j \in 1..(l - n) : i # j => n + i # n + j BY <1>1
    <2>2. \A i, j \in 1..(l - n) : i # j => Apart(rest[i], rest[j])
      BY <1>3, <1>5, <1>7, <2>1
    <2>3. QED BY <1>5, <2>2 DEF Separate
  <1>14. Range(rest) \subseteq Range(holes) BY <1>2, <1>7, <1>11
  <1>15. \A x \in Range(lanes) : x[1] = r /\ x[2] \in Range(holes) BY <1>2, <1>6, <1>9, <1>10
  <1>16. ASSUME NEW x \in Range(lanes), NEW y \in Range(lanes), x # y PROVE Apart(x[2], y[2])
    <2>1. PICK i \in 1..n : x = <<r, holes[i]>> BY <1>9, <1>10, Zenon
    <2>2. PICK j \in 1..n : y = <<r, holes[j]>> BY <1>9, <1>10, Zenon
    <2>3. i # j BY <1>16, <2>1, <2>2
    <2>4. Apart(holes[i], holes[j]) BY <1>3, <1>6, <2>3
    <2>5. QED BY <2>1, <2>2, <2>4
  <1>17. ASSUME NEW x \in Range(lanes), NEW h \in Range(rest) PROVE Apart(x[2], h)
    <2>1. PICK i \in 1..n : x = <<r, holes[i]>> BY <1>9, <1>10, Zenon
    <2>2. PICK j \in 1..(l - n) : holes[n + j] = h BY <1>11
    <2>3. i # n + j BY <1>1
    <2>4. Apart(holes[i], holes[n + j]) BY <1>3, <1>6, <1>7, <2>3
    <2>5. QED BY <2>1, <2>2, <2>4
  <1>18. QED BY <1>5, <1>8, <1>12, <1>13, <1>14, <1>15, <1>16, <1>17

LEMMA FetchFlow ==
  ASSUME Types, FlowInv, Joins, NEW r \in Reads, joined[r] = {}, flight[r] = "none",
         NEW segments \in SUBSET Wants, ~Available(r, segments), Fetch(r, segments)
  PROVE  FlowInv' /\ flight' = [flight EXCEPT ![r] = "running"]
  <1> DEFINE holes == Missing(cache \o SetToSeq(segments), Want[r])
             n == Smaller(MaxConcurrency, Len(holes))
             lanes == Lanes(r, holes, n)
             rest == Rest(holes, n)
             q == queue \o lanes
             g == Grant(permits, q)
  <1>1. /\ Issued(requested, queue, permits)
        /\ WorkFits /\ WorkApart /\ RangesApart /\ RangesWork /\ Waited
        /\ flight \in [Reads -> {"none", "ok"} \cup Unsettled \cup Errors]
        /\ joined \in [Reads -> SUBSET Reads] /\ cache \in Seq(Entries)
    BY DEF FlowInv, Types
  <1>2. /\ Joinable(r) = {}
        /\ inflight' = inflight \cup {r}
        /\ waiters' = [waiters EXCEPT ![r] = 1]
        /\ flight' = [flight EXCEPT ![r] = "running"]
        /\ todo' = [todo EXCEPT ![r] = rest]
        /\ requested' = requested \cup g.now
        /\ queue' = g.later
        /\ permits' = g.permits
        /\ joined' = [joined EXCEPT ![r] = {r}]
    BY DEF Fetch, Lanes, Rest
  <1>3. /\ holes \in Seq(Pieces) /\ Separate(holes) /\ holes # <<>>
        /\ \A h \in Range(holes) : Inside(h, Want[r])
    BY <1>1, MissingHoles
  <1> HIDE DEF holes
  <1>4. n \in Nat /\ n <= Len(holes) /\ 1 <= n
    <2>1. Len(holes) \in Nat /\ Len(holes) # 0 BY <1>3
    <2>2. QED BY <2>1, SourceConstants DEF Smaller
  <1> HIDE DEF n
  <1>5. /\ lanes \in Seq(Items) /\ Len(lanes) = n /\ Distinct(lanes)
        /\ rest \in Seq(Pieces) /\ Separate(rest) /\ Range(rest) \subseteq Range(holes)
        /\ \A x \in Range(lanes) : x[1] = r /\ x[2] \in Range(holes)
        /\ \A x, y \in Range(lanes) : x # y => Apart(x[2], y[2])
        /\ \A x \in Range(lanes), h \in Range(rest) : Apart(x[2], h)
    BY <1>3, <1>4, LanesFacts
  <1> HIDE DEF lanes, rest
  <1>6. ~Live(r) BY DEF Live, Unsettled
  <1>7. requested \subseteq Items /\ queue \in Seq(Items) /\ Range(queue) \subseteq Items
    <2>1. requested \subseteq Items /\ queue \in Seq(Items) BY <1>1 DEF Issued
    <2>2. QED BY <2>1, RangeSeq
  <1>8. \A x \in Out : x[1] # r /\ x[1] \in Reads /\ Live(x[1])
    <2>1. \A x \in Out : x[1] \in Reads BY <1>7 DEF Out, Items
    <2>2. \A x \in Out : Live(x[1]) BY <1>1 DEF WorkFits
    <2>3. QED BY <1>6, <2>1, <2>2
  <1>9. \A x \in Range(lanes) : x \notin Out BY <1>5, <1>8
  <1>10. q \in Seq(Items) /\ Distinct(q) /\ Range(q) = Range(queue) \cup Range(lanes)
    <2>1. Range(queue) \cap Range(lanes) = {} BY <1>9 DEF Out
    <2>2. Distinct(queue) BY <1>1 DEF Issued
    <2>3. q \in Seq(Items) /\ Distinct(q) BY <1>5, <1>7, <2>1, <2>2, DistinctConcat
    <2>4. QED BY <1>5, <1>7, <2>3, ConcatFacts
  <1> HIDE DEF q
  <1>11. /\ Issued(requested', queue', permits') /\ Full(queue', permits')
         /\ Out' = Out \cup Range(lanes)
    <2>1. requested \cap Range(q) = {}
      <3>1. requested \cap Range(queue) = {} BY <1>1 DEF Issued
      <3>2. requested \cap Range(lanes) = {} BY <1>9 DEF Out
      <3>3. QED BY <1>10, <3>1, <3>2
    <2>2. Issued(requested, q, permits) BY <1>1, <1>10, <2>1 DEF Issued
    <2> HIDE DEF g
    <2>3. /\ Issued(requested \cup g.now, g.later, g.permits) /\ Full(g.later, g.permits)
          /\ (requested \cup g.now) \cup Range(g.later) = requested \cup Range(q)
      BY <2>2, SourceConstants, GrantIssues DEF g
    <2>4. QED BY <1>2, <1>10, <2>3 DEF Out
  <1> HIDE DEF g
  <1>12. \A p \in Reads : /\ p # r => flight'[p] = flight[p] /\ (Live(p)' <=> Live(p))
                          /\ flight'[r] = "running" /\ Live(r)'
    BY <1>1, <1>2 DEF Live, Unsettled
  <1>13. /\ todo' \in [Reads -> Seq(Pieces)] /\ todo'[r] = rest
         /\ \A p \in Reads : p # r => todo'[p] = todo[p]
    <2>1. todo \in [Reads -> Seq(Pieces)] BY <1>1 DEF WorkFits
    <2>2. QED BY <1>2, <1>5, <2>1
  <1>14. WorkFits'
    <2>1. ASSUME NEW x \in Out' PROVE Live(x[1])' /\ Inside(x[2], Want[x[1]])
      <3>1. CASE x \in Out BY <1>1, <1>8, <1>12, <3>1 DEF WorkFits
      <3>2. CASE x \in Range(lanes) BY <1>3, <1>5, <1>12, <3>2
      <3>3. QED BY <1>11, <3>1, <3>2
    <2>2. ASSUME NEW p \in Reads, NEW h \in Range(todo'[p]) PROVE Live(p)' /\ Inside(h, Want[p])
      <3>1. CASE p = r BY <1>3, <1>5, <1>12, <1>13, <2>2, <3>1
      <3>2. CASE p # r BY <1>1, <1>12, <1>13, <2>2, <3>2 DEF WorkFits
      <3>3. QED BY <3>1, <3>2
    <2>3. QED BY <1>13, <2>1, <2>2 DEF WorkFits
  <1>15. WorkApart'
    <2>1. ASSUME NEW x \in Out', NEW y \in Out', x # y, x[1] = y[1] PROVE Apart(x[2], y[2])
      <3>1. CASE x \in Out /\ y \in Out BY <1>1, <2>1, <3>1 DEF WorkApart
      <3>2. CASE x \in Range(lanes) /\ y \in Range(lanes) BY <1>5, <2>1, <3>2
      <3>3. QED BY <1>5, <1>8, <1>11, <2>1, <3>1, <3>2
    <2>2. ASSUME NEW x \in Out', NEW h \in Range(todo'[x[1]]) PROVE Apart(x[2], h)
      <3>1. CASE x \in Out BY <1>1, <1>8, <1>13, <2>2, <3>1 DEF WorkApart
      <3>2. CASE x \in Range(lanes) BY <1>5, <1>13, <2>2, <3>2
      <3>3. QED BY <1>11, <3>1, <3>2
    <2>3. ASSUME NEW p \in Reads PROVE Separate(todo'[p])
      <3>1. CASE p = r BY <1>5, <1>13, <3>1
      <3>2. CASE p # r BY <1>1, <1>13, <3>2 DEF WorkApart
      <3>3. QED BY <3>1, <3>2
    <2>4. QED BY <2>1, <2>2, <2>3 DEF WorkApart
  <1>16. RangesApart'
    <2>1. ASSUME NEW p \in Reads, p # r, Live(p) PROVE Apart(Want[p], Want[r])
      <3>1. p \in inflight /\ waiters[p] > 0 BY <1>1, <2>1 DEF Waited
      <3>2. ~Overlaps(Want[p], Want[r]) BY <1>2, <3>1 DEF Joinable
      <3>3. QED BY <3>2, SourceConstants DEF Overlaps, Apart
    <2>2. ASSUME NEW p \in Reads, NEW s \in Reads, p # s, Live(p)', Live(s)'
          PROVE Apart(Want[p], Want[s])
      <3>1. CASE p = r
        <4>1. Apart(Want[s], Want[r]) BY <1>12, <2>1, <2>2, <3>1
        <4>2. QED BY <3>1, <4>1 DEF Apart
      <3>2. CASE s = r BY <1>12, <2>1, <2>2, <3>2
      <3>3. CASE p # r /\ s # r BY <1>1, <1>12, <2>2, <3>3 DEF RangesApart
      <3>4. QED BY <3>1, <3>2, <3>3
    <2>3. QED BY <2>2 DEF RangesApart
  <1>17. RangesWork'
    <2> SUFFICES ASSUME NEW p \in Reads, Live(p)' PROVE \E x \in Out' : x[1] = p
      BY DEF RangesWork
    <2>1. CASE p = r
      <3>1. 1 \in 1..Len(lanes) BY <1>4, <1>5
      <3>2. lanes[1] \in Range(lanes) BY <1>5, <3>1, RangeSeq
      <3>3. QED BY <1>5, <1>11, <2>1, <3>2
    <2>2. CASE p # r
      <3>1. PICK x \in Out : x[1] = p BY <1>1, <1>12, <2>2 DEF RangesWork
      <3>2. QED BY <1>11, <3>1
    <2>3. QED BY <2>1, <2>2
  <1>18. ASSUME NEW p \in Reads PROVE waiters'[p] = Cardinality({s \in Reads : p \in joined'[s]})
    <2>1. CASE p = r
      <3>1. \A s \in Reads : r \notin joined[s] BY DEF Joins
      <3>2. {s \in Reads : p \in joined'[s]} = {r} BY <1>1, <1>2, <2>1, <3>1
      <3>3. Cardinality({r}) = 1 BY FS_Singleton
      <3>4. waiters'[p] = 1 BY <1>1, <1>2, <2>1 DEF Waited
      <3>5. QED BY <3>2, <3>3, <3>4
    <2>2. CASE p # r
      <3>1. {s \in Reads : p \in joined'[s]} = {s \in Reads : p \in joined[s]}
        BY <1>1, <1>2, <2>2
      <3>2. waiters'[p] = waiters[p] BY <1>1, <1>2, <2>2 DEF Waited
      <3>3. waiters[p] = Cardinality({s \in Reads : p \in joined[s]}) BY <1>1 DEF Waited
      <3>4. QED BY <3>1, <3>2, <3>3
    <2>3. QED BY <2>1, <2>2
  <1>19. Waited'
    <2>1. waiters \in [Reads -> Nat] /\ inflight = {p \in Reads : waiters[p] > 0}
      BY <1>1 DEF Waited
    <2>2. waiters' \in [Reads -> Nat] BY <1>2, <2>1
    <2>3. inflight' = {p \in Reads : waiters'[p] > 0} BY <1>2, <2>1
    <2>4. \A p \in Reads : Live(p)' => waiters'[p] > 0
      <3>1. \A p \in Reads : p # r => waiters'[p] = waiters[p] BY <1>2, <2>1
      <3>2. waiters'[r] = 1 BY <1>2, <2>1
      <3>3. \A p \in Reads : Live(p) => waiters[p] > 0 BY <1>1 DEF Waited
      <3>4. QED BY <1>12, <3>1, <3>2, <3>3
    <2>5. QED BY <1>18, <2>2, <2>3, <2>4 DEF Waited
  <1>20. FlowInv' BY <1>11, <1>14, <1>15, <1>16, <1>17, <1>19 DEF FlowInv
  <1>21. QED BY <1>2, <1>20

-----------------------------------------------------------------------------
(* The broker answers a hole.                                              *)
LEMMA LanesIn ==
  ASSUME NEW p, NEW asked, NEW E, NEW q \in Seq(E)
  PROVE  LanesOf(p, asked, q) = {x \in asked \cup Range(q) : x[1] = p}
  <1> DEFINE K == {q[k] : k \in {j \in 1..Len(q) : q[j][1] = p}}
  <1>1. \A x : x \in Range(q) <=> \E i \in 1..Len(q) : q[i] = x BY RangeSeq
  <1>2. K = {x \in Range(q) : x[1] = p} BY <1>1
  <1>3. LanesOf(p, asked, q) = {x \in asked : x[1] = p} \cup K BY DEF LanesOf
  <1>4. QED BY <1>2, <1>3

LEMMA SeparateTail ==
  ASSUME NEW E, NEW s \in Seq(E), s # <<>>, Separate(s)
  PROVE  /\ Tail(s) \in Seq(E) /\ Separate(Tail(s)) /\ Range(Tail(s)) \subseteq Range(s)
         /\ Head(s) \in Range(s) /\ \A h \in Range(Tail(s)) : Apart(Head(s), h)
  <1> DEFINE t == Tail(s)
             n == Len(t)
  <1>1. /\ t \in Seq(E) /\ n \in Nat /\ Len(s) = n + 1 /\ \A i \in 1..n : t[i] = s[i + 1]
        /\ Head(s) = s[1]
    OBVIOUS
  <1>2. \A i, j \in 1..(n + 1) : i # j => Apart(s[i], s[j]) BY <1>1 DEF Separate
  <1>3. \A x : x \in Range(s) <=> \E i \in 1..(n + 1) : s[i] = x
    <2>1. \A x : x \in Range(s) <=> \E i \in 1..Len(s) : s[i] = x BY RangeSeq
    <2>2. QED BY <1>1, <2>1
  <1>4. \A x : x \in Range(t) <=> \E i \in 1..n : t[i] = x BY <1>1, RangeSeq
  <1> HIDE DEF t, n
  <1>5. \A i \in 1..n : i + 1 \in 1..(n + 1) /\ i + 1 # 1 /\ 1 \in 1..(n + 1) BY <1>1
  <1>6. Separate(t)
    <2>1. \A i, j \in 1..n : i # j => i + 1 # j + 1 BY <1>1
    <2>2. \A i, j \in 1..n : i # j => Apart(t[i], t[j]) BY <1>1, <1>2, <1>5, <2>1
    <2>3. QED BY <2>2 DEF Separate, n
  <1>7. Range(t) \subseteq Range(s) BY <1>1, <1>3, <1>4, <1>5
  <1>8. s[1] \in Range(s)
    <2>1. 1 \in 1..(n + 1) BY <1>1
    <2>2. QED BY <1>3, <2>1
  <1>9. ASSUME NEW h \in Range(t) PROVE Apart(s[1], h)
    <2>1. PICK i \in 1..n : t[i] = h BY <1>4
    <2>2. t[i] = s[i + 1] BY <1>1
    <2>3. QED BY <1>2, <1>5, <2>1, <2>2
  <1>10. QED BY <1>1, <1>6, <1>7, <1>8, <1>9 DEF t

\* One hole of a range is answered; its lane may take another.
LEMMA HoleFlow ==
  ASSUME Types, FlowInv, NEW p \in Reads, NEW hole, <<p, hole>> \in requested,
         Issued(requested', queue', permits'), Full(queue', permits'),
         NEW more, \A x \in more : x[1] = p /\ x[2] \in Range(todo[p]),
         \A x, y \in more : x = y,
         Out' = (Out \ {<<p, hole>>}) \cup more,
         NEW rest \in Seq(Pieces), todo' = [todo EXCEPT ![p] = rest],
         Separate(rest), Range(rest) \subseteq Range(todo[p]),
         \A x \in more, h \in Range(rest) : Apart(x[2], h),
         UNCHANGED <<waiters, inflight, joined>>, \A q \in Reads : q # p => flight'[q] = flight[q],
         Live(p)' <=> \E x \in Out' : x[1] = p, ~Live(p)' => rest = <<>>
  PROVE  FlowInv'
  <1>1. WorkFits /\ WorkApart /\ RangesApart /\ RangesWork /\ Waited
    BY DEF FlowInv
  <1>2. <<p, hole>> \in Out /\ Live(p) BY <1>1 DEF Out, WorkFits
  <1>3. requested \subseteq Items /\ Range(queue) \subseteq Items
    <2>1. requested \subseteq Items /\ queue \in Seq(Items) BY DEF FlowInv, Issued
    <2>2. QED BY <2>1, RangeSeq
  <1>4. \A x \in Out : x[1] \in Reads BY <1>3 DEF Out, Items
  <1>5. \A x \in more : \A y \in Out : y[1] = p => Apart(y[2], x[2])
    BY <1>1 DEF WorkApart
  <1>6. \A x \in more : Inside(x[2], Want[p]) BY <1>1 DEF WorkFits
  <1>7. \A q \in Reads : Live(q)' => Live(q) BY <1>2 DEF Live
  <1>8. \A q \in Reads : q # p => (Live(q)' <=> Live(q)) BY DEF Live
  <1>9. /\ todo' \in [Reads -> Seq(Pieces)] /\ todo'[p] = rest
        /\ \A q \in Reads : q # p => todo'[q] = todo[q]
        /\ \A q \in Reads : Range(todo'[q]) \subseteq Range(todo[q])
    BY <1>1 DEF WorkFits
  <1>10. WorkFits'
    <2>1. ASSUME NEW x \in Out' PROVE Live(x[1])' /\ Inside(x[2], Want[x[1]])
      <3>1. CASE x \in Out
        <4>1. Live(x[1]) /\ Inside(x[2], Want[x[1]]) /\ x[1] \in Reads BY <1>1, <1>4, <3>1 DEF WorkFits
        <4>2. QED BY <1>8, <2>1, <4>1
      <3>2. CASE x \in more BY <1>6, <2>1, <3>2
      <3>3. QED BY <3>1, <3>2
    <2>2. ASSUME NEW q \in Reads, NEW h \in Range(todo'[q]) PROVE Live(q)' /\ Inside(h, Want[q])
      <3>1. Live(q) /\ Inside(h, Want[q]) BY <1>1, <1>9, <2>2 DEF WorkFits
      <3>2. CASE q = p
        <4>1. rest # <<>> BY <1>9, <2>2, <3>2, RangeEmpty
        <4>2. QED BY <3>1, <3>2, <4>1
      <3>3. CASE q # p BY <1>8, <3>1, <3>3
      <3>4. QED BY <3>2, <3>3
    <2>3. QED BY <1>9, <2>1, <2>2 DEF WorkFits
  <1>11. WorkApart'
    <2>1. ASSUME NEW x \in Out', NEW y \in Out', x # y, x[1] = y[1] PROVE Apart(x[2], y[2])
      <3>1. CASE x \in Out /\ y \in Out BY <1>1, <2>1, <3>1 DEF WorkApart
      <3>2. CASE x \in more /\ y \in Out
        <4>1. Apart(y[2], x[2]) BY <1>5, <2>1, <3>2
        <4>2. QED BY <4>1 DEF Apart
      <3>3. CASE x \in Out /\ y \in more BY <1>5, <2>1, <3>3
      <3>4. QED BY <2>1, <3>1, <3>2, <3>3
    <2>2. ASSUME NEW x \in Out', NEW h \in Range(todo'[x[1]]) PROVE Apart(x[2], h)
      <3>1. CASE x \in Out BY <1>1, <1>4, <1>9, <2>2, <3>1 DEF WorkApart
      <3>2. CASE x \in more BY <1>9, <2>2, <3>2
      <3>3. QED BY <3>1, <3>2
    <2>3. ASSUME NEW q \in Reads PROVE Separate(todo'[q])
      <3>1. CASE q = p BY <1>9, <3>1
      <3>2. CASE q # p BY <1>1, <1>9, <3>2 DEF WorkApart
      <3>3. QED BY <3>1, <3>2
    <2>4. QED BY <2>1, <2>2, <2>3 DEF WorkApart
  <1>12. RangesApart' BY <1>1, <1>7 DEF RangesApart
  <1>13. RangesWork'
    <2> SUFFICES ASSUME NEW q \in Reads, Live(q)' PROVE \E x \in Out' : x[1] = q
      BY DEF RangesWork
    <2>1. CASE q = p BY <2>1
    <2>2. CASE q # p
      <3>1. PICK x \in Out : x[1] = q BY <1>1, <1>7 DEF RangesWork
      <3>2. x # <<p, hole>> BY <2>2, <3>1
      <3>3. QED BY <3>1, <3>2
    <2>3. QED BY <2>1, <2>2
  <1>14. Waited' BY <1>1, <1>7 DEF Waited
  <1>15. QED BY <1>10, <1>11, <1>12, <1>13, <1>14 DEF FlowInv

\* The range of p goes on, or is settled and the reads that wait for it run.
Answered(p) ==
    /\ \A q \in Reads : q # p => flight'[q] = flight[q]
    /\ flight' \in [Reads -> {"none", "ok"} \cup Unsettled \cup Errors]
    /\ \/ Live(p)' /\ ready' = <<>>
       \/ flight'[p] \in {"ok"} \cup Errors /\ ready' \in SetToSeqs(Resumable(flight'))

LEMMA ArrivalFlow ==
  ASSUME Types, FlowInv, NEW p \in Reads, NEW hole, HoleArrives(p, hole)
  PROVE  /\ FlowInv' /\ Live(p) /\ Answered(p)
         /\ cache' \in Seq(Entries) /\ CacheBytes(cache') <= MaxCache
  <1> DEFINE dropped == {<<p, hole>>}
             w == Wake(dropped, queue)
             rest == IF todo[p] = <<>> THEN <<>> ELSE Tail(todo[p])
             lane == IF todo[p] = <<>> THEN <<>> ELSE <<(<<p, Head(todo[p])>>)>>
             q == w.later \o lane
             g == Grant(w.permits, q)
             asked == (requested \ dropped) \cup w.now
             got == Append(fetched[p], hole)
             c == Insert(cache, hole)
             last == LanesOf(p, asked \cup g.now, g.later) = {}
             result == Settlement(p, c, got)
  <1>1. /\ <<p, hole>> \in requested
        /\ requested' = asked \cup g.now
        /\ queue' = g.later
        /\ permits' = g.permits
        /\ todo' = [todo EXCEPT ![p] = rest]
        /\ cache' = c \/ cache' = Touch(c, Want[p])
        /\ flight' = IF last THEN [flight EXCEPT ![p] = result] ELSE flight
        /\ ready' \in IF last THEN SetToSeqs(Resumable(flight')) ELSE {<<>>}
        /\ UNCHANGED <<joined, inflight, waiters>>
    BY DEF HoleArrives
  <1>2. /\ Issued(requested, queue, permits) /\ WorkFits /\ WorkApart
        /\ flight \in [Reads -> {"none", "ok"} \cup Unsettled \cup Errors]
        /\ cache \in Seq(Entries) /\ CacheBytes(cache) <= MaxCache
    BY DEF FlowInv, Types
  <1>3. /\ requested \subseteq Items /\ queue \in Seq(Items) /\ Distinct(queue)
        /\ requested \cap Range(queue) = {}
    BY <1>2 DEF Issued
  <1>4. /\ hole \in Pieces /\ <<p, hole>> \in Out /\ Live(p) /\ Inside(hole, Want[p])
        /\ <<p, hole>> \notin Range(queue)
    BY <1>1, <1>2, <1>3 DEF Out, WorkFits, Items
  <1>5. result \in {"ok", "failed", "unavailable"} BY DEF Settlement
  <1>6. c \in Seq(Entries) /\ CacheBytes(c) <= MaxCache
    BY <1>2, <1>4, SourceConstants, InsertFacts DEF Inside
  <1> HIDE DEF c, result
  <1>7. cache' \in Seq(Entries) /\ CacheBytes(cache') <= MaxCache BY <1>1, <1>6, TouchFacts
  <1>8. /\ Issued(asked, w.later, w.permits)
        /\ asked \cup Range(w.later) = (requested \ dropped) \cup Range(queue)
    <2>1. dropped \subseteq requested BY <1>1
    <2> HIDE DEF w, dropped
    <2>2. w = Wake(dropped, queue) BY DEF w
    <2>3. Range(queue) \subseteq Range(queue) OBVIOUS
    <2>4. QED BY <1>2, <1>3, <2>1, <2>2, <2>3, WakeIssues DEF asked
  <1>9. (requested \ dropped) \cup Range(queue) = Out \ {<<p, hole>>} BY <1>4 DEF Out
  <1> HIDE DEF w, asked, dropped
  <1> DEFINE more == Range(lane)
  <1>10. todo[p] \in Seq(Pieces) /\ Separate(todo[p]) BY <1>2 DEF WorkFits, WorkApart
  <1>11. /\ lane \in Seq(Items) /\ Distinct(lane)
         /\ \A x \in more : x[1] = p /\ x[2] \in Range(todo[p]) /\ x \notin Out
         /\ \A x, y \in more : x = y
         /\ rest \in Seq(Pieces) /\ Separate(rest) /\ Range(rest) \subseteq Range(todo[p])
         /\ \A x \in more, h \in Range(rest) : Apart(x[2], h)
         /\ lane = <<>> => rest = <<>>
    <2>1. CASE todo[p] = <<>>
      <3>1. lane = <<>> /\ rest = <<>> BY <2>1
      <3>2. QED BY <3>1, RangeEmpty DEF Separate, Distinct
    <2>2. CASE todo[p] # <<>>
      <3> DEFINE h == Head(todo[p])
                 x == <<p, h>>
      <3>1. /\ rest \in Seq(Pieces) /\ Separate(rest) /\ Range(rest) \subseteq Range(todo[p])
            /\ h \in Range(todo[p]) /\ \A k \in Range(rest) : Apart(h, k)
        BY <1>10, <2>2, SeparateTail
      <3>2. lane = <<x>> BY <2>2
      <3>3. h \in Pieces BY <1>10, <3>1, RangeSeq
      <3>4. x \notin Out
        <4> SUFFICES ASSUME x \in Out PROVE FALSE OBVIOUS
        <4>1. Apart(h, h) BY <1>2, <3>1 DEF WorkApart
        <4>2. Inside(h, Want[p]) BY <1>2, <3>1 DEF WorkFits
        <4> HIDE DEF h
        <4>3. h.lo < h.hi /\ h.lo \in Nat /\ h.hi \in Nat BY <3>3, <4>2 DEF Inside, Pieces
        <4>4. QED BY <4>1, <4>3 DEF Apart
      <3> HIDE DEF h, rest, lane
      <3>5. x \in Items BY <3>3 DEF Items
      <3>6. x[1] = p /\ x[2] = h OBVIOUS
      <3> HIDE DEF x
      <3>7. lane \in Seq(Items) /\ Distinct(lane) BY <3>2, <3>5 DEF Distinct
      <3>8. Range(lane) = {x} BY <3>2 DEF Range
      <3>9. lane # <<>> BY <3>2
      <3>10. QED BY <3>1, <3>4, <3>6, <3>7, <3>8, <3>9
    <2>3. QED BY <2>1, <2>2
  <1> HIDE DEF lane, rest
  <1>12. /\ q \in Seq(Items) /\ Distinct(q) /\ Range(q) = Range(w.later) \cup more
         /\ asked \cap Range(q) = {}
    <2>1. w.later \in Seq(Items) /\ Distinct(w.later) /\ asked \cap Range(w.later) = {}
      BY <1>8 DEF Issued
    <2>2. asked \cup Range(w.later) \subseteq Out BY <1>8, <1>9
    <2>3. asked \cap more = {} /\ Range(w.later) \cap more = {} BY <1>11, <2>2
    <2>4. q \in Seq(Items) /\ Distinct(q) BY <1>11, <2>1, <2>3, DistinctConcat
    <2>5. Range(q) = Range(w.later) \cup more BY <1>11, <2>1, ConcatFacts
    <2>6. QED BY <2>1, <2>3, <2>4, <2>5
  <1> HIDE DEF q
  <1>13. Issued(asked, q, w.permits) BY <1>8, <1>12 DEF Issued
  <1>14. /\ Issued(requested', queue', permits') /\ Full(queue', permits')
         /\ Out' = (Out \ {<<p, hole>>}) \cup more
    <2> HIDE DEF g
    <2>1. g = Grant(w.permits, q) BY DEF g
    <2>2. /\ Issued(asked \cup g.now, g.later, g.permits) /\ Full(g.later, g.permits)
          /\ (asked \cup g.now) \cup Range(g.later) = asked \cup Range(q)
      <3>1. MaxConcurrency \in Nat BY SourceConstants
      <3> HIDE DEF asked, q, w
      <3>2. QED BY <1>13, <2>1, <3>1, GrantIssues
    <2>3. requested' \cup Range(queue') = asked \cup (Range(w.later) \cup more)
      <3>1. requested' = asked \cup g.now /\ queue' = g.later BY <1>1
      <3> HIDE DEF more
      <3>2. asked \cup Range(q) = asked \cup (Range(w.later) \cup more) BY <1>12
      <3>3. QED BY <2>2, <3>1, <3>2
    <2>4. QED BY <1>1, <1>8, <1>9, <2>2, <2>3 DEF Out
  <1>15. last <=> ~\E x \in Out' : x[1] = p
    <2>1. queue' \in Seq(Items) BY <1>14 DEF Issued
    <2>2. LanesOf(p, requested', queue') = {x \in Out' : x[1] = p} BY <2>1, LanesIn DEF Out
    <2>3. last <=> LanesOf(p, requested', queue') = {} BY <1>1
    <2>4. QED BY <2>2, <2>3
  <1> HIDE DEF g, last
  <1>16. /\ last => flight'[p] = result /\ ready' \in SetToSeqs(Resumable(flight'))
         /\ ~last => flight' = flight /\ ready' = <<>>
         /\ \A s \in Reads : s # p => flight'[s] = flight[s]
         /\ flight' \in [Reads -> {"none", "ok"} \cup Unsettled \cup Errors]
    BY <1>1, <1>2, <1>5 DEF Errors
  <1>17. Live(p)' <=> ~last BY <1>4, <1>5, <1>16 DEF Live, Unsettled
  <1>18. ~Live(p)' => rest = <<>>
    <2>1. ASSUME lane # <<>> PROVE more # {}
      <3>1. lane \in Seq(Items) BY <1>11
      <3>2. 1 \in 1..Len(lane) BY <2>1, <3>1
      <3>3. lane[1] \in Range(lane) BY <3>1, <3>2, RangeSeq
      <3>4. QED BY <3>3
    <2>2. \A x \in more : x \in Out' /\ x[1] = p BY <1>11, <1>14
    <2>3. QED BY <1>11, <1>15, <1>17, <2>1, <2>2
  <1> HIDE DEF more
  <1>19. FlowInv'
    <2>1. Live(p)' <=> \E x \in Out' : x[1] = p BY <1>15, <1>17
    <2>2. \A x \in more : x[1] = p /\ x[2] \in Range(todo[p]) BY <1>11 DEF more
    <2>3. \A x, y \in more : x = y BY <1>11 DEF more
    <2>4. \A x \in more, h \in Range(rest) : Apart(x[2], h) BY <1>11 DEF more
    <2>5. rest \in Seq(Pieces) /\ Separate(rest) /\ Range(rest) \subseteq Range(todo[p]) BY <1>11
    <2>6. UNCHANGED <<waiters, inflight, joined>> BY <1>1
    <2>7. \A s \in Reads : s # p => flight'[s] = flight[s] BY <1>16
    <2>8. todo' = [todo EXCEPT ![p] = rest] BY <1>1
    <2>9. QED BY <1>1, <1>14, <1>18, <2>1, <2>2, <2>3, <2>4, <2>5, <2>6, <2>7, <2>8, HoleFlow
  <1>20. Answered(p) BY <1>5, <1>16, <1>17 DEF Answered, Errors
  <1>21. QED BY <1>4, <1>7, <1>19, <1>20

LEMMA FailureFlow ==
  ASSUME Types, FlowInv, NEW p \in Reads, NEW hole, HoleFails(p, hole)
  PROVE  FlowInv' /\ Live(p) /\ Answered(p)
  <1> DEFINE dropped == {<<p, hole>>}
             w == Wake(dropped, queue)
             asked == (requested \ dropped) \cup w.now
             last == LanesOf(p, asked, w.later) = {}
             rest == <<>>
             more == {}
  <1>1. /\ <<p, hole>> \in requested
        /\ requested' = asked
        /\ queue' = w.later
        /\ permits' = w.permits
        /\ todo' = [todo EXCEPT ![p] = rest]
        /\ flight' = [flight EXCEPT ![p] = IF last THEN "failed" ELSE "failing"]
        /\ ready' \in IF last THEN SetToSeqs(Resumable(flight')) ELSE {<<>>}
        /\ UNCHANGED <<joined, inflight, waiters>>
    BY DEF HoleFails
  <1>2. /\ Issued(requested, queue, permits) /\ WorkFits
        /\ flight \in [Reads -> {"none", "ok"} \cup Unsettled \cup Errors]
    BY DEF FlowInv, Types
  <1>3. /\ requested \subseteq Items /\ queue \in Seq(Items) /\ Distinct(queue)
        /\ requested \cap Range(queue) = {}
    BY <1>2 DEF Issued
  <1>4. <<p, hole>> \in Out /\ Live(p) /\ <<p, hole>> \notin Range(queue)
    BY <1>1, <1>2, <1>3 DEF Out, WorkFits
  <1>5. /\ Issued(requested', queue', permits') /\ Full(queue', permits')
        /\ Out' = (requested \ dropped) \cup Range(queue)
    <2>1. dropped \subseteq requested BY <1>1
    <2> HIDE DEF w, dropped
    <2>2. w = Wake(dropped, queue) BY DEF w
    <2>3. Range(queue) \subseteq Range(queue) OBVIOUS
    <2>4. /\ Issued(asked, w.later, w.permits) /\ Full(w.later, w.permits)
          /\ asked \cup Range(w.later) = (requested \ dropped) \cup Range(queue)
      BY <1>2, <1>3, <2>1, <2>2, <2>3, WakeIssues DEF asked
    <2> HIDE DEF asked
    <2>5. QED BY <1>1, <2>4 DEF Out
  <1>6. Out' = (Out \ {<<p, hole>>}) \cup more BY <1>4, <1>5 DEF Out
  <1>7. last <=> ~\E x \in Out' : x[1] = p
    <2>1. queue' \in Seq(Items) BY <1>5 DEF Issued
    <2>2. LanesOf(p, requested', queue') = {x \in Out' : x[1] = p} BY <2>1, LanesIn DEF Out
    <2>3. last <=> LanesOf(p, requested', queue') = {} BY <1>1
    <2>4. QED BY <2>2, <2>3
  <1> HIDE DEF last, asked, w, dropped
  <1>8. /\ last => flight'[p] = "failed" /\ ready' \in SetToSeqs(Resumable(flight'))
        /\ ~last => flight'[p] = "failing" /\ ready' = <<>>
        /\ \A s \in Reads : s # p => flight'[s] = flight[s]
        /\ flight' \in [Reads -> {"none", "ok"} \cup Unsettled \cup Errors]
    BY <1>1, <1>2 DEF Errors, Unsettled
  <1>9. Live(p)' <=> ~last BY <1>8 DEF Live, Unsettled
  <1>10. FlowInv'
    <2>1. Live(p)' <=> \E x \in Out' : x[1] = p BY <1>7, <1>9
    <2>2. rest \in Seq(Pieces) /\ Separate(rest) /\ Range(rest) = {}
      BY RangeEmpty DEF Separate
    <2>3. todo' = [todo EXCEPT ![p] = rest] BY <1>1
    <2>4. UNCHANGED <<waiters, inflight, joined>> BY <1>1
    <2>5. \A s \in Reads : s # p => flight'[s] = flight[s] BY <1>8
    <2>6. rest = <<>> /\ Range(rest) \subseteq Range(todo[p]) BY <2>2
    <2>7. /\ \A x \in more : x[1] = p /\ x[2] \in Range(todo[p])
          /\ \A x, y \in more : x = y
          /\ \A x \in more, h \in Range(rest) : Apart(x[2], h)
      OBVIOUS
    <2>8. <<p, hole>> \in requested BY <1>1
    <2>9. Issued(requested', queue', permits') /\ Full(queue', permits') BY <1>5
    <2>10. ~Live(p)' => rest = <<>> BY <2>6
    <2>11. rest \in Seq(Pieces) /\ Separate(rest) /\ Range(rest) \subseteq Range(todo[p]) BY <2>2, <2>6
    <2> HIDE DEF rest, more
    <2>12. QED BY <1>6, <2>1, <2>3, <2>4, <2>5, <2>7, <2>8, <2>9, <2>10, <2>11, HoleFlow
  <1>11. Answered(p) BY <1>8, <1>9 DEF Answered, Errors
  <1>12. QED BY <1>4, <1>10, <1>11

-----------------------------------------------------------------------------
(* Who is woken.                                                           *)
LEMMA AnsweredKeeps ==
  ASSUME Types, Joins, Woken, Quiet, NEW p \in Reads, Live(p), Answered(p), UNCHANGED <<state, joined>>
  PROVE  Joins' /\ Woken' /\ ready' \in Seq(Reads)
  <1>1. /\ joined \in [Reads -> SUBSET Reads] /\ state' = state /\ joined' = joined
    BY DEF Types
  <1>2. flight[p] # "none" /\ flight'[p] # "none"
    BY DEF Answered, Live, Unsettled, Errors
  <1>3. \A s \in Reads : s # p => flight'[s] = flight[s] BY DEF Answered
  <1>4. \A s \in Reads : flight'[s] = "none" <=> flight[s] = "none" BY <1>2, <1>3
  <1>5. Joins' BY <1>1, <1>4 DEF Joins
  <1>6. CASE Live(p)' /\ ready' = <<>>
    <2>1. \A s \in Reads : /\ flight'[s] = "ok" <=> flight[s] = "ok"
                           /\ flight'[s] \in Errors <=> flight[s] \in Errors
      BY <1>3, <1>6 DEF Live, Unsettled, Errors
    <2>2. \A s \in Reads : Resolved(joined[s], flight') <=> Resolved(joined[s], flight)
      BY <1>1, <2>1 DEF Resolved
    <2>3. Range(ready) = {} /\ Range(ready') = {} BY <1>6, RangeEmpty DEF Quiet
    <2>4. Distinct(ready') BY <1>6 DEF Distinct
    <2>5. \A s \in Reads : state[s] = "waiting" => ~Resolved(joined[s], flight)
      BY <2>3 DEF Woken
    <2>6. Woken' BY <1>1, <2>2, <2>3, <2>4, <2>5 DEF Woken
    <2>7. QED BY <1>5, <1>6, <2>6
  <1>7. CASE ready' \in SetToSeqs(Resumable(flight'))
    <2> DEFINE S == Resumable(flight')
    <2>1. S \subseteq Reads /\ IsFiniteSet(S)
      <3>1. S \in SUBSET Reads BY DEF Resumable
      <3>2. QED BY <3>1, SourceConstants, FS_Subset
    <2>2. /\ \A s \in S : state[s] = "waiting"
          /\ \A s \in Reads : state[s] = "waiting" /\ s \notin S => ~Resolved(joined[s], flight')
      BY DEF Resumable
    <2> HIDE DEF S
    <2>3. ready' \in Seq(Reads) /\ Range(ready') = S /\ Distinct(ready')
      BY <1>7, <2>1, EveryOnce DEF S
    <2>4. Woken' BY <1>1, <2>2, <2>3 DEF Woken
    <2>5. QED BY <1>5, <2>3, <2>4
  <1>8. QED BY <1>6, <1>7 DEF Answered

\* A read that no longer waits changes nothing for the others.
LEMMA LeaveJoins ==
  ASSUME Types, Joins, NEW r \in Reads, joined' = [joined EXCEPT ![r] = {}],
         \A p \in Reads : flight'[p] = flight[p] \/ Settled(p),
         \A s \in Reads : s # r => state'[s] = state[s],
         state'[r] = "done" \/ (state'[r] = "waiting" /\ flight[r] = "none")
  PROVE  /\ Joins'
         /\ \A s \in Reads : s # r => (Resolved(joined'[s], flight') <=> Resolved(joined[s], flight))
  <1>1. joined \in [Reads -> SUBSET Reads] BY DEF Types
  <1>2. /\ joined'[r] = {} /\ \A s \in Reads : s # r => joined'[s] = joined[s]
        /\ \A s \in Reads : joined'[s] \subseteq joined[s] /\ joined'[s] \subseteq Reads
    BY <1>1
  <1>3. \A p \in Reads : flight'[p] = "none" <=> flight[p] = "none"
    BY DEF Settled, Live, Unsettled
  <1>4. \A s \in Reads : \A p \in joined'[s] : flight'[p] = flight[p]
    BY <1>2 DEF Settled
  <1>5. Joins' BY <1>2, <1>3, <1>4 DEF Joins
  <1>6. \A s \in Reads : s # r => (Resolved(joined'[s], flight') <=> Resolved(joined[s], flight))
    BY <1>2, <1>4 DEF Resolved
  <1>7. QED BY <1>5, <1>6

\* The loop of a read: it is refused, has its bytes, joins or fetches.
Round(r, segments) ==
    \/ ~open /\ Finish(r, "closed") /\ UNCHANGED <<cache, flights>>
    \/ open /\ Available(r, segments) /\ UseBytes(r) /\ UNCHANGED flights
    \/ open /\ ~Available(r, segments) /\ Join(r) /\ UNCHANGED inherited
    \/ open /\ ~Available(r, segments) /\ Fetch(r, segments) /\ UNCHANGED inherited

\* It is done, or waits for ranges that have been started.
LEMMA RoundFlow ==
  ASSUME IInv, NEW r \in Reads, joined[r] = {}, flight[r] = "none", state[r] \in {"idle", "waiting"},
         NEW segments \in SUBSET Wants, Round(r, segments)
  PROVE  /\ FlowInv' /\ Joins'
         /\ cache' \in Seq(Entries) /\ CacheBytes(cache') <= MaxCache
         /\ state' \in [Reads -> {"idle", "waiting", "done"}]
         /\ joined' \in [Reads -> SUBSET Reads] /\ inherited' \in [Reads -> SUBSET Wants]
         /\ flight' \in [Reads -> {"none", "ok"} \cup Unsettled \cup Errors]
         /\ \A s \in Reads : s # r => state'[s] = state[s] /\ joined'[s] = joined[s]
         /\ \A s \in Reads : s # r => (Resolved(joined[s], flight') <=> Resolved(joined[s], flight))
  <1>1. Types /\ FlowInv /\ Joins BY DEF IInv
  <1>2. /\ cache \in Seq(Entries) /\ CacheBytes(cache) <= MaxCache
        /\ state \in [Reads -> {"idle", "waiting", "done"}]
        /\ joined \in [Reads -> SUBSET Reads] /\ inherited \in [Reads -> SUBSET Wants]
        /\ flight \in [Reads -> {"none", "ok"} \cup Unsettled \cup Errors]
    BY <1>1 DEF Types
  <1>3. /\ Touch(cache, Want[r]) \in Seq(Entries)
        /\ CacheBytes(Touch(cache, Want[r])) <= MaxCache
    BY <1>2, TouchFacts
  <1>4. \A s \in Reads : \A p \in joined[s] : p \in Reads /\ flight[p] # "none" BY <1>1, <1>2 DEF Joins
  <1>5. CASE (\E o : Finish(r, o)) /\ UNCHANGED flights /\ cache' \in {cache, Touch(cache, Want[r])}
    <2>1. /\ joined' = joined /\ inherited' = [inherited EXCEPT ![r] = {}]
          /\ state' = [state EXCEPT ![r] = "done"]
      BY <1>2, <1>5 DEF Finish
    <2>2. FlowInv' /\ flight' = flight BY <1>1, <1>5, <2>1, IdleFlow DEF flights
    <2>3. Joins' BY <1>1, <1>2, <2>1, <2>2 DEF Joins
    <2>4. inherited' \in [Reads -> SUBSET Wants] BY <1>2, <2>1
    <2>5. state' \in [Reads -> {"idle", "waiting", "done"}] BY <1>2, <2>1
    <2>6. cache' \in Seq(Entries) /\ CacheBytes(cache') <= MaxCache BY <1>2, <1>3, <1>5
    <2>7. \A s \in Reads : s # r => state'[s] = state[s] BY <1>2, <2>1
    <2>8. QED BY <1>2, <2>1, <2>2, <2>3, <2>4, <2>5, <2>6, <2>7
  <1>6. CASE Join(r) /\ UNCHANGED inherited
    <2>1. /\ FlowInv' /\ flight' = flight /\ Joinable(r) \subseteq Reads
          /\ \A p \in Joinable(r) : flight[p] # "none"
      BY <1>1, <1>6, JoinFlow
    <2>2. /\ joined' = [joined EXCEPT ![r] = Joinable(r)] /\ cache' = Touch(cache, Want[r])
          /\ state' = [state EXCEPT ![r] = "waiting"] /\ inherited' = inherited
      BY <1>6 DEF Join
    <2> DEFINE J == Joinable(r)
    <2> HIDE DEF J
    <2>3. joined' = [joined EXCEPT ![r] = J] /\ J \subseteq Reads /\ \A p \in J : flight[p] # "none"
      BY <2>1, <2>2 DEF J
    <2>4. joined' \in [Reads -> SUBSET Reads] BY <1>2, <2>3
    <2>5. state' \in [Reads -> {"idle", "waiting", "done"}] BY <1>2, <2>2
    <2>6. \A s \in Reads : s # r => state'[s] = state[s] /\ joined'[s] = joined[s]
      BY <1>2, <2>2, <2>3
    <2>7. joined'[r] = J /\ state'[r] = "waiting" BY <1>2, <2>2, <2>3
    <2>8. Joins' BY <1>1, <2>1, <2>3, <2>6, <2>7 DEF Joins
    <2>9. QED BY <1>2, <1>3, <2>1, <2>2, <2>4, <2>5, <2>6, <2>8
  <1>7. CASE Fetch(r, segments) /\ ~Available(r, segments) /\ UNCHANGED inherited
    <2>1. FlowInv' /\ flight' = [flight EXCEPT ![r] = "running"]
      BY <1>1, <1>7, FetchFlow
    <2>2. /\ joined' = [joined EXCEPT ![r] = {r}] /\ cache' = Touch(cache, Want[r])
          /\ state' = [state EXCEPT ![r] = "waiting"] /\ inherited' = inherited
      BY <1>7 DEF Fetch
    <2>3. joined' \in [Reads -> SUBSET Reads] BY <1>2, <2>2
    <2>4. state' \in [Reads -> {"idle", "waiting", "done"}] BY <1>2, <2>2
    <2>5. flight' \in [Reads -> {"none", "ok"} \cup Unsettled \cup Errors]
      BY <1>2, <2>1 DEF Unsettled
    <2>6. \A s \in Reads : s # r =>
            state'[s] = state[s] /\ joined'[s] = joined[s] /\ flight'[s] = flight[s]
      BY <1>2, <2>1, <2>2
    <2>7. joined'[r] = {r} /\ state'[r] = "waiting" /\ flight'[r] = "running" BY <1>2, <2>1, <2>2
    <2>8. Joins'
      <3>1. \A s \in Reads : state'[s] # "waiting" => joined'[s] = {}
        BY <1>1, <2>6, <2>7 DEF Joins
      <3>2. \A s \in Reads : state'[s] = "idle" => flight'[s] = "none"
        BY <1>1, <2>6, <2>7 DEF Joins
      <3>3. \A s \in Reads : \A p \in joined'[s] : flight'[p] # "none"
        BY <1>4, <2>6, <2>7
      <3>4. \A s \in Reads : state'[s] = "waiting" /\ flight'[s] # "none" => joined'[s] = {s}
        BY <1>1, <2>6, <2>7 DEF Joins
      <3>5. QED BY <3>1, <3>2, <3>3, <3>4 DEF Joins
    <2>9. \A s \in Reads : \A p \in joined[s] : flight'[p] = flight[p]
      BY <1>4, <2>6
    <2>10. \A s \in Reads : Resolved(joined[s], flight') <=> Resolved(joined[s], flight)
      BY <2>9 DEF Resolved
    <2>11. QED BY <1>2, <1>3, <2>1, <2>2, <2>3, <2>4, <2>5, <2>6, <2>8, <2>10
  <1>8. \/ (\E o : Finish(r, o)) /\ UNCHANGED flights /\ cache' \in {cache, Touch(cache, Want[r])}
        \/ Join(r) /\ UNCHANGED inherited
        \/ Fetch(r, segments) /\ ~Available(r, segments) /\ UNCHANGED inherited
    BY DEF Round, UseBytes
  <1>9. QED BY <1>5, <1>6, <1>7, <1>8

LEMMA RoundKeeps ==
  ASSUME IInv, NEW r \in Reads, joined[r] = {}, flight[r] = "none", state[r] \in {"idle", "waiting"},
         NEW segments \in SUBSET Wants, Round(r, segments), UNCHANGED open,
         NEW q \in Seq(Reads), Distinct(q), r \notin Range(q), ready' = Rescheduled(r, q),
         \A s \in Range(q) : state[s] = "waiting",
         \A s \in Reads : s # r /\ state[s] = "waiting" /\ s \notin Range(q) => ~Resolved(joined[s], flight)
  PROVE  IInv'
  <1>1. /\ FlowInv' /\ Joins'
        /\ cache' \in Seq(Entries) /\ CacheBytes(cache') <= MaxCache
        /\ state' \in [Reads -> {"idle", "waiting", "done"}]
        /\ joined' \in [Reads -> SUBSET Reads] /\ inherited' \in [Reads -> SUBSET Wants]
        /\ flight' \in [Reads -> {"none", "ok"} \cup Unsettled \cup Errors]
        /\ \A s \in Reads : s # r => state'[s] = state[s] /\ joined'[s] = joined[s]
        /\ \A s \in Reads : s # r => (Resolved(joined[s], flight') <=> Resolved(joined[s], flight))
    BY RoundFlow
  <1> DEFINE runs == state'[r] = "waiting" /\ Resolved(joined'[r], flight')
  <1>2. ready' = IF runs THEN Append(q, r) ELSE q BY DEF Rescheduled
  <1>3. /\ ready' \in Seq(Reads) /\ Distinct(ready')
        /\ \A s \in Reads : s # r => (s \in Range(ready') <=> s \in Range(q))
        /\ r \in Range(ready') <=> runs
    <2> HIDE DEF runs
    <2>1. CASE runs
      <3> DEFINE t == Append(q, r)
      <3>1. t \in Seq(Reads) BY AppendProperties
      <3>2. Distinct(t) BY DistinctAppend
      <3>3. Range(t) = Range(q) \cup {r} BY RangeAppend
      <3> HIDE DEF t
      <3>4. ready' = t BY <1>2, <2>1 DEF t
      <3>5. QED BY <2>1, <3>1, <3>2, <3>3, <3>4
    <2>2. CASE ~runs BY <1>2, <2>2
    <2>3. QED BY <2>1, <2>2
  <1>4. Range(ready') \subseteq Reads BY <1>3, RangeSeq
  <1>5. Woken'
    <2>1. \A s \in Range(ready') : state'[s] = "waiting" BY <1>1, <1>3, <1>4
    <2>2. ASSUME NEW s \in Reads, state'[s] = "waiting", s \notin Range(ready')
          PROVE  ~Resolved(joined'[s], flight')
      <3>1. CASE s = r BY <1>3, <2>2, <3>1
      <3>2. CASE s # r
        <4>1. state[s] = "waiting" /\ s \notin Range(q) /\ joined'[s] = joined[s]
          BY <1>1, <1>3, <2>2, <3>2
        <4>2. ~Resolved(joined[s], flight) BY <3>2, <4>1
        <4>3. QED BY <1>1, <3>2, <4>1, <4>2
      <3>3. QED BY <3>1, <3>2
    <2>3. QED BY <1>3, <2>1, <2>2 DEF Woken
  <1>6. open' \in BOOLEAN BY DEF IInv, Types
  <1>7. Types' BY <1>1, <1>3, <1>6 DEF Types
  <1>8. QED BY <1>1, <1>5, <1>7 DEF IInv

-----------------------------------------------------------------------------
(* Every step keeps the invariant.                                         *)
LEMMA StartStep == ASSUME IInv, NEW r \in Reads, Start(r) PROVE IInv'
  <1>1. /\ Round(r, {}) /\ ready' = Rescheduled(r, ready) /\ UNCHANGED open
        /\ ready = <<>> /\ state[r] = "idle"
    BY DEF Start, Round, Quiet
  <1>2. joined[r] = {} /\ flight[r] = "none" BY <1>1 DEF IInv, Joins
  <1>3. /\ ready \in Seq(Reads) /\ Distinct(ready) /\ Range(ready) = {}
        /\ \A s \in Reads : state[s] = "waiting" => ~Resolved(joined[s], flight)
    BY <1>1, RangeEmpty DEF IInv, Types, Woken
  <1> DEFINE none == {}
  <1>4. none \in SUBSET Wants /\ Round(r, none) BY <1>1
  <1> HIDE DEF none
  <1>5. QED BY <1>1, <1>2, <1>3, <1>4, RoundKeeps

\* A read that runs is the first of the queue.
LEMMA RunsFacts ==
  ASSUME Types, Woken, NEW r \in Reads, Runs(r)
  PROVE  /\ Tail(ready) \in Seq(Reads) /\ Distinct(Tail(ready)) /\ r \notin Range(Tail(ready))
         /\ Range(ready) = {r} \cup Range(Tail(ready)) /\ state[r] = "waiting"
  <1>1. ready \in Seq(Reads) /\ ready # <<>> /\ Distinct(ready) /\ Head(ready) = r
    BY DEF Types, Woken, Runs, Quiet
  <1> DEFINE t == Tail(ready)
  <1>2. /\ t \in Seq(Reads) /\ Distinct(t) /\ Head(ready) \notin Range(t)
        /\ Range(ready) = {Head(ready)} \cup Range(t)
    BY <1>1, HeadAndTail
  <1> HIDE DEF t
  <1>3. state[r] = "waiting" BY <1>1, <1>2 DEF Woken
  <1>4. QED BY <1>1, <1>2, <1>3 DEF t

LEMMA LoopStep == ASSUME IInv, NEW r \in Reads, ResumeLoop(r) PROVE IInv'
  <1> DEFINE q == Tail(ready)
  <1>1. /\ Round(r, inherited[r]) /\ ready' = Rescheduled(r, q) /\ UNCHANGED open
        /\ joined[r] = {} /\ Runs(r)
    BY DEF ResumeLoop, Round
  <1>2. /\ q \in Seq(Reads) /\ Distinct(q) /\ r \notin Range(q)
        /\ Range(ready) = {r} \cup Range(q) /\ state[r] = "waiting"
    BY <1>1, RunsFacts DEF IInv
  <1>3. flight[r] = "none" BY <1>1, <1>2 DEF IInv, Joins
  <1>4. inherited[r] \in SUBSET Wants BY DEF IInv, Types
  <1>5. \A s \in Range(q) : state[s] = "waiting" BY <1>2 DEF IInv, Woken
  <1>6. \A s \in Reads : s # r /\ state[s] = "waiting" /\ s \notin Range(q) => ~Resolved(joined[s], flight)
    BY <1>2 DEF IInv, Woken
  <1> HIDE DEF q
  <1>7. state[r] \in {"idle", "waiting"} BY <1>2
  <1>8. QED BY <1>1, <1>2, <1>3, <1>4, <1>5, <1>6, <1>7, RoundKeeps

LEMMA EndStep ==
  ASSUME IInv, NEW r \in Reads, NEW o, Finish(r, o), Leave(r), UNCHANGED <<open, cache>>,
         ready' \in Seq(Reads), Distinct(ready'),
         \A s \in Range(ready') : s # r /\ state[s] = "waiting",
         \A s \in Reads : s # r /\ state[s] = "waiting" /\ s \notin Range(ready') => ~Resolved(joined'[s], flight')
  PROVE  IInv'
  <1>1. Types /\ FlowInv /\ Joins BY DEF IInv
  <1>2. /\ state \in [Reads -> {"idle", "waiting", "done"}]
        /\ joined \in [Reads -> SUBSET Reads] /\ inherited \in [Reads -> SUBSET Wants]
    BY <1>1 DEF Types
  <1>3. /\ state' = [state EXCEPT ![r] = "done"] /\ joined' = [joined EXCEPT ![r] = {}]
        /\ inherited' = [inherited EXCEPT ![r] = {}]
    BY DEF Finish
  <1>4. /\ FlowInv' /\ flight' \in [Reads -> {"none", "ok"} \cup Unsettled \cup Errors]
        /\ \A p \in Reads : flight'[p] = flight[p] \/ Settled(p)
    BY <1>1, <1>3, LeaveFlow
  <1>5. state'[r] = "done" /\ \A s \in Reads : s # r => state'[s] = state[s] BY <1>2, <1>3
  <1>6. Joins' BY <1>1, <1>3, <1>4, <1>5, LeaveJoins
  <1>7. /\ state' \in [Reads -> {"idle", "waiting", "done"}]
        /\ joined' \in [Reads -> SUBSET Reads] /\ inherited' \in [Reads -> SUBSET Wants]
    BY <1>2, <1>3
  <1>8. Types' BY <1>1, <1>4, <1>7 DEF Types
  <1>9. Range(ready') \subseteq Reads BY RangeSeq
  <1>10. Woken'
    <2>1. \A s \in Range(ready') : state'[s] = "waiting" BY <1>5, <1>9
    <2>2. \A s \in Reads : state'[s] = "waiting" /\ s \notin Range(ready') => ~Resolved(joined'[s], flight')
      BY <1>5
    <2>3. QED BY <2>1, <2>2 DEF Woken
  <1>11. QED BY <1>4, <1>6, <1>8, <1>10 DEF IInv

\* The others keep on waiting.
LEMMA OthersWait ==
  ASSUME IInv, NEW r \in Reads, NEW o, Finish(r, o), Leave(r)
  PROVE  \A s \in Reads : s # r => (Resolved(joined'[s], flight') <=> Resolved(joined[s], flight))
  <1>1. Types /\ FlowInv /\ Joins BY DEF IInv
  <1>2. /\ state' = [state EXCEPT ![r] = "done"] /\ joined' = [joined EXCEPT ![r] = {}]
    BY DEF Finish
  <1>3. state \in [Reads -> {"idle", "waiting", "done"}] BY <1>1 DEF Types
  <1>4. \A p \in Reads : flight'[p] = flight[p] \/ Settled(p) BY <1>1, <1>2, LeaveFlow
  <1>5. state'[r] = "done" /\ \A s \in Reads : s # r => state'[s] = state[s] BY <1>2, <1>3
  <1>6. QED BY <1>1, <1>2, <1>4, <1>5, LeaveJoins

LEMMA EndedStep ==
  ASSUME IInv, NEW r \in Reads, NEW o, Finish(r, o), Leave(r), Runs(r), ready' = Tail(ready),
         UNCHANGED <<open, cache>>
  PROVE  IInv'
  <1> DEFINE q == Tail(ready)
  <1>1. /\ q \in Seq(Reads) /\ Distinct(q) /\ r \notin Range(q)
        /\ Range(ready) = {r} \cup Range(q)
    BY RunsFacts DEF IInv
  <1>2. \A s \in Range(q) : s # r /\ state[s] = "waiting" BY <1>1 DEF IInv, Woken
  <1>3. \A s \in Reads : s # r /\ state[s] = "waiting" /\ s \notin Range(q) => ~Resolved(joined[s], flight)
    BY <1>1 DEF IInv, Woken
  <1>4. \A s \in Reads : s # r => (Resolved(joined'[s], flight') <=> Resolved(joined[s], flight))
    BY OthersWait
  <1>5. ready' = q OBVIOUS
  <1> HIDE DEF q
  <1>6. ready' \in Seq(Reads) /\ Distinct(ready') BY <1>1, <1>5
  <1>7. \A s \in Range(ready') : s # r /\ state[s] = "waiting" BY <1>2, <1>5
  <1>8. \A s \in Reads : s # r /\ state[s] = "waiting" /\ s \notin Range(ready') => ~Resolved(joined'[s], flight')
    BY <1>3, <1>4, <1>5
  <1>9. QED BY <1>6, <1>7, <1>8, EndStep

LEMMA CancelStep == ASSUME IInv, NEW r \in Reads, Cancel(r) PROVE IInv'
  <1> DEFINE S == Resumable(flight') \ {r}
  <1>1. Finish(r, "cancelled") /\ Leave(r) /\ UNCHANGED <<open, cache>> /\ ready' \in SetToSeqs(S)
    BY DEF Cancel
  <1>2. /\ joined' = [joined EXCEPT ![r] = {}] /\ joined \in [Reads -> SUBSET Reads]
    BY <1>1 DEF Finish, IInv, Types
  <1>3. S \subseteq Reads /\ IsFiniteSet(S)
    <2>1. S \in SUBSET Reads BY DEF Resumable
    <2>2. QED BY <2>1, SourceConstants, FS_Subset
  <1>4. /\ \A s \in S : s # r /\ state[s] = "waiting"
        /\ \A s \in Reads : s # r /\ state[s] = "waiting" /\ s \notin S => ~Resolved(joined'[s], flight')
    BY <1>2 DEF Resumable
  <1> HIDE DEF S
  <1>5. ready' \in Seq(Reads) /\ Range(ready') = S /\ Distinct(ready') BY <1>1, <1>3, EveryOnce
  <1>6. \A s \in Range(ready') : s # r /\ state[s] = "waiting" BY <1>4, <1>5
  <1>7. \A s \in Reads : s # r /\ state[s] = "waiting" /\ s \notin Range(ready') => ~Resolved(joined'[s], flight')
    BY <1>4, <1>5
  <1> DEFINE o == "cancelled"
  <1>8. Finish(r, o) BY <1>1
  <1> HIDE DEF o
  <1>9. QED BY <1>1, <1>5, <1>6, <1>7, <1>8, EndStep

LEMMA SharedStep == ASSUME IInv, NEW r \in Reads, ResumeShared(r) PROVE IInv'
  <1>1. Types /\ FlowInv /\ Joins /\ Woken BY DEF IInv
  <1>2. /\ Runs(r) /\ r \notin joined[r] /\ Leave(r)
        /\ inherited' = [inherited EXCEPT ![r] = @ \cup {Want[p] : p \in joined[r]}]
        /\ joined' = [joined EXCEPT ![r] = {}]
        /\ UNCHANGED <<open, cache, state, ready>>
    BY DEF ResumeShared
  <1>3. /\ joined \in [Reads -> SUBSET Reads] /\ inherited \in [Reads -> SUBSET Wants]
        /\ state \in [Reads -> {"idle", "waiting", "done"}] /\ ready \in Seq(Reads)
    BY <1>1 DEF Types
  <1>4. state[r] = "waiting" /\ r \in Range(ready) BY <1>1, <1>2, RunsFacts
  <1>5. flight[r] = "none" BY <1>1, <1>2, <1>4 DEF Joins
  <1>6. /\ FlowInv' /\ flight' \in [Reads -> {"none", "ok"} \cup Unsettled \cup Errors]
        /\ \A p \in Reads : flight'[p] = flight[p] \/ Settled(p)
    BY <1>1, <1>2, LeaveFlow
  <1>7. state'[r] = "waiting" /\ \A s \in Reads : s # r => state'[s] = state[s] BY <1>2, <1>4
  <1>8. /\ Joins'
        /\ \A s \in Reads : s # r => (Resolved(joined'[s], flight') <=> Resolved(joined[s], flight))
    BY <1>1, <1>2, <1>5, <1>6, <1>7, LeaveJoins
  <1>9. joined' \in [Reads -> SUBSET Reads] BY <1>2, <1>3
  <1>10. inherited' \in [Reads -> SUBSET Wants]
    <2> DEFINE more == {Want[p] : p \in joined[r]}
    <2>1. more \subseteq Wants BY <1>3 DEF Wants
    <2> HIDE DEF more
    <2>2. inherited' = [inherited EXCEPT ![r] = inherited[r] \cup more] BY <1>2 DEF more
    <2>3. QED BY <1>3, <2>1, <2>2
  <1>11. Types' BY <1>1, <1>2, <1>6, <1>9, <1>10 DEF Types
  <1>12. Woken' BY <1>1, <1>2, <1>4, <1>8 DEF Woken
  <1>13. QED BY <1>6, <1>8, <1>11, <1>12 DEF IInv

LEMMA HoleStep ==
  ASSUME IInv, NEW x \in requested, HoleArrives(x[1], x[2]) \/ HoleFails(x[1], x[2])
  PROVE  IInv'
  <1>1. Types /\ FlowInv /\ Joins /\ Woken BY DEF IInv
  <1>2. x \in Reads \X Pieces BY <1>1 DEF FlowInv, Issued, Items
  <1> DEFINE p == x[1]
             hole == x[2]
  <1>3. p \in Reads BY <1>2
  <1>4. HoleArrives(p, hole) \/ HoleFails(p, hole) OBVIOUS
  <1> HIDE DEF p, hole
  <1>5. HoleFails(p, hole) => UNCHANGED cache BY DEF HoleFails
  <1>6. Quiet /\ UNCHANGED <<open, state, joined, inherited>>
    <2>1. CASE HoleArrives(p, hole) BY <2>1, Zenon DEF HoleArrives
    <2>2. CASE HoleFails(p, hole) BY <2>2 DEF HoleFails
    <2>3. QED BY <1>4, <2>1, <2>2
  <1>7. /\ FlowInv' /\ Live(p) /\ Answered(p)
        /\ cache' \in Seq(Entries) /\ CacheBytes(cache') <= MaxCache
    <2>1. CASE HoleArrives(p, hole) BY <1>1, <1>3, <2>1, ArrivalFlow
    <2>2. CASE HoleFails(p, hole)
      <3>1. FlowInv' /\ Live(p) /\ Answered(p) BY <1>1, <1>3, <2>2, FailureFlow
      <3>2. QED BY <1>1, <1>5, <2>2, <3>1 DEF Types
    <2>3. QED BY <1>4, <2>1, <2>2
  <1>8. Joins' /\ Woken' /\ ready' \in Seq(Reads)
    BY <1>1, <1>3, <1>6, <1>7, AnsweredKeeps
  <1>9. Types' BY <1>1, <1>6, <1>7, <1>8 DEF Types, Answered
  <1>10. QED BY <1>7, <1>8, <1>9 DEF IInv

LEMMA CloseStep == ASSUME IInv, Close PROVE IInv'
  <1>1. Types /\ FlowInv /\ Joins /\ Woken BY DEF IInv
  <1>2. /\ open' = FALSE /\ cache' = <<>>
        /\ inflight' = {} /\ waiters' = [p \in Reads |-> 0]
        /\ flight' = [p \in Reads |-> IF flight[p] \in Unsettled THEN "closed" ELSE flight[p]]
        /\ todo' = [p \in Reads |-> <<>>]
        /\ queue' = <<>> /\ requested' = {} /\ permits' = 0
        /\ state' = [r \in Reads |-> IF state[r] = "waiting" THEN "done" ELSE state[r]]
        /\ joined' = [r \in Reads |-> {}] /\ inherited' = [r \in Reads |-> {}]
        /\ ready' = <<>>
    BY DEF Close, Quiet
  <1>3. Types'
    <2>1. cache' \in Seq(Entries) /\ CacheBytes(cache') <= MaxCache
      BY <1>2, CacheBytesFacts, SourceConstants
    <2>2. flight' \in [Reads -> {"none", "ok"} \cup Unsettled \cup Errors]
      BY <1>1, <1>2 DEF Types, Errors
    <2>3. state' \in [Reads -> {"idle", "waiting", "done"}] BY <1>1, <1>2 DEF Types
    <2>4. ready' \in Seq(Reads) BY <1>2
    <2>5. QED BY <1>2, <2>1, <2>2, <2>3, <2>4 DEF Types
  <1>4. Out' = {} /\ Range(queue') = {} BY <1>2, RangeEmpty DEF Out
  <1>5. \A p \in Reads : ~Live(p)' BY <1>2 DEF Live, Unsettled
  <1>6. Issued(requested', queue', permits') /\ Full(queue', permits')
    <2>1. IsFiniteSet({}) /\ Cardinality({}) = 0 BY FS_EmptySet
    <2>2. queue' \in Seq(Items) /\ Distinct(queue') BY <1>2 DEF Distinct
    <2>3. 0 <= MaxConcurrency BY SourceConstants
    <2>4. QED BY <1>2, <1>4, <2>1, <2>2, <2>3 DEF Issued, Full
  <1>7. \A p \in Reads : todo'[p] = <<>> BY <1>2
  <1>8. Range(<<>>) = {} /\ Separate(<<>>) BY RangeEmpty DEF Separate
  <1>9. todo' \in [Reads -> Seq(Pieces)] BY <1>2
  <1>10. WorkFits' /\ WorkApart' BY <1>4, <1>7, <1>8, <1>9 DEF WorkFits, WorkApart
  <1>11. RangesApart' /\ RangesWork' BY <1>5 DEF RangesApart, RangesWork
  <1>12. Waited'
    <2>1. \A p \in Reads : {r \in Reads : p \in joined'[r]} = {} BY <1>2
    <2>2. Cardinality({}) = 0 BY FS_EmptySet
    <2>3. \A p \in Reads : waiters'[p] = 0 BY <1>2
    <2>4. inflight' = {p \in Reads : waiters'[p] > 0} BY <1>2, <2>3
    <2>5. waiters' \in [Reads -> Nat] BY <1>2
    <2>6. QED BY <1>5, <2>1, <2>2, <2>3, <2>4, <2>5 DEF Waited
  <1>13. \A s \in Reads : state'[s] # "waiting" /\ joined'[s] = {}
    BY <1>2
  <1>14. Joins'
    <2>1. \A s \in Reads : state'[s] = "idle" => flight'[s] = "none"
      BY <1>1, <1>2 DEF Joins, Unsettled
    <2>2. QED BY <1>13, <2>1 DEF Joins
  <1>15. Woken' BY <1>2, <1>13, RangeEmpty DEF Woken, Distinct
  <1>16. QED BY <1>3, <1>6, <1>10, <1>11, <1>12, <1>14, <1>15 DEF IInv, FlowInv

LEMMA IdleStep == ASSUME IInv, UNCHANGED vars PROVE IInv'
  <1>1. UNCHANGED flights /\ UNCHANGED <<open, cache, state, joined, inherited, ready, flight>>
    BY DEF vars, flights
  <1>2. FlowInv' BY <1>1, IdleFlow DEF IInv
  <1>3. Types' /\ Joins' /\ Woken' BY <1>1 DEF IInv, Types, Joins, Woken
  <1>4. QED BY <1>2, <1>3 DEF IInv

LEMMA StepKeeps == IInv /\ [Next]_vars => IInv'
  <1> SUFFICES ASSUME IInv, [Next]_vars PROVE IInv' OBVIOUS
  <1>1. ASSUME NEW r \in Reads, Start(r) PROVE IInv' BY <1>1, StartStep
  <1>2. ASSUME NEW r \in Reads, ResumeOwner(r) PROVE IInv'
    <2> DEFINE o == IF flight[r] = "ok" THEN "bytes" ELSE flight[r]
    <2>1. /\ Finish(r, o) /\ Leave(r) /\ Runs(r) /\ ready' = Tail(ready)
          /\ UNCHANGED <<open, cache>>
      BY <1>2 DEF ResumeOwner
    <2> HIDE DEF o
    <2>2. QED BY <2>1, EndedStep
  <1>3. ASSUME NEW r \in Reads, ResumeFailed(r) PROVE IInv'
    <2>1. PICK o : Finish(r, o) BY <1>3 DEF ResumeFailed
    <2>2. Leave(r) /\ Runs(r) /\ ready' = Tail(ready) /\ UNCHANGED <<open, cache>>
      BY <1>3 DEF ResumeFailed
    <2>3. QED BY <2>1, <2>2, EndedStep
  <1>4. ASSUME NEW r \in Reads, ResumeShared(r) PROVE IInv' BY <1>4, SharedStep
  <1>5. ASSUME NEW r \in Reads, ResumeLoop(r) PROVE IInv' BY <1>5, LoopStep
  <1>6. ASSUME NEW r \in Reads, Cancel(r) PROVE IInv' BY <1>6, CancelStep
  <1>7. ASSUME NEW x \in requested, HoleArrives(x[1], x[2]) \/ HoleFails(x[1], x[2]) PROVE IInv'
    BY <1>7, HoleStep
  <1>8. ASSUME Close PROVE IInv' BY <1>8, CloseStep
  <1>9. ASSUME UNCHANGED vars PROVE IInv' BY <1>9, IdleStep
  <1>10. QED
    BY <1>1, <1>2, <1>3, <1>4, <1>5, <1>6, <1>7, <1>8, <1>9 DEF Next, Microtask

-----------------------------------------------------------------------------
\* In every state a run can reach the work that is asked for, queued or
\* still to do is disjoint parts of the ranges somebody waits for, a permit
\* is out for each request, and whoever waits is woken or waits for work
\* that goes on: what #readInternal, #fetchMissing and
\* #releasePendingWaiter keep up together.
THEOREM SourceIsSound == SafetySpec => []IInv
  <1>1. Init => IInv BY StartsRight
  <1>2. IInv /\ [Next]_vars => IInv' BY StepKeeps
  <1>3. QED BY <1>1, <1>2, PTL DEF SafetySpec

\* The cache never exceeds its bytes (the eviction of #insertCache), a
\* provider permit is out for each outstanding request and none is free
\* while a hole waits (#releaseProviderPermit), and a range in flight has as
\* many waiters as reads that joined it, one at least.
THEOREM SourceAccounts == SafetySpec => []SourceInv
  <1>1. ASSUME IInv PROVE SourceInv
    <2>1. Types /\ Issued(requested, queue, permits) /\ Full(queue, permits) /\ Waited
      BY <1>1 DEF IInv, FlowInv
    <2>2. CacheBounded BY <2>1 DEF Types, CacheBounded
    <2>3. PermitsExact BY <2>1 DEF PermitsExact, Issued, Full
    <2>4. FetchesAreWanted BY <2>1 DEF Waited, FetchesAreWanted
    <2>5. TypeOK
      <3>1. permits \in 0..MaxConcurrency
        <4>1. IsFiniteSet(requested) /\ permits = Cardinality(requested) /\ permits <= MaxConcurrency
          BY <2>1 DEF Issued
        <4>2. permits \in Nat BY <4>1, FS_CardinalityType
        <4>3. QED BY <4>1, <4>2, SourceConstants
      <3>2. waiters \in [Reads -> 0..Cardinality(Reads)]
        <4>1. ASSUME NEW p \in Reads PROVE waiters[p] \in 0..Cardinality(Reads)
          <5> DEFINE S == {r \in Reads : p \in joined[r]}
          <5>1. S \in SUBSET Reads OBVIOUS
          <5>2. waiters[p] = Cardinality(S) BY <2>1 DEF Waited
          <5> HIDE DEF S
          <5>3. Cardinality(S) <= Cardinality(Reads) /\ Cardinality(S) \in Nat /\ Cardinality(Reads) \in Nat
            BY <5>1, SourceConstants, FS_Subset, FS_CardinalityType
          <5>4. QED BY <5>2, <5>3
        <4>2. waiters \in [Reads -> Nat] BY <2>1 DEF Waited
        <4>3. QED BY <4>1, <4>2
      <3>3. inflight \subseteq Reads BY <2>1 DEF Waited
      <3>4. QED BY <2>1, <3>1, <3>2, <3>3 DEF TypeOK, Types
    <2>6. QED BY <2>2, <2>3, <2>4, <2>5 DEF SourceInv
  <1>2. QED BY <1>1, SourceIsSound, PTL

\* Two provider requests that are out at the same time never share a byte:
\* a read joins the ranges in flight before it computes what is missing, and
\* what is missing is fetched in parts that do not overlap.
THEOREM NoByteTwice == SafetySpec => []NoByteFetchedTwice
  <1>1. ASSUME IInv PROVE NoByteFetchedTwice
    <2> SUFFICES ASSUME NEW x \in requested, NEW y \in requested, x # y
                 PROVE  Bytes(x[2]) \cap Bytes(y[2]) = {}
      BY DEF NoByteFetchedTwice
    <2>1. FlowInv BY <1>1 DEF IInv
    <2>2. x \in Reads \X Pieces /\ y \in Reads \X Pieces BY <2>1 DEF FlowInv, Issued, Items
    <2>3. x \in Out /\ y \in Out BY DEF Out
    <2> DEFINE p == x[1]
               q == y[1]
               g == x[2]
               h == y[2]
    <2>4. /\ p \in Reads /\ q \in Reads
          /\ g.lo \in Nat /\ g.hi \in Nat /\ h.lo \in Nat /\ h.hi \in Nat
      BY <2>2 DEF Pieces
    <2>5. Live(p) /\ Live(q) /\ Inside(g, Want[p]) /\ Inside(h, Want[q])
      BY <2>1, <2>3 DEF FlowInv, WorkFits
    <2>6. p = q => Apart(g, h) BY <2>1, <2>3 DEF FlowInv, WorkApart
    <2>7. p # q => Apart(Want[p], Want[q]) BY <2>1, <2>4, <2>5 DEF FlowInv, RangesApart
    <2> HIDE DEF p, q, g, h
    <2>8. Apart(g, h) BY <2>4, <2>5, <2>6, <2>7, SourceConstants DEF Apart, Inside
    <2>9. Bytes(g) \cap Bytes(h) = {} BY <2>4, <2>8 DEF Apart, Bytes
    <2>10. QED BY <2>9 DEF g, h
  <1>2. QED BY <1>1, SourceIsSound, PTL

\* No read of a remote source is left behind: between two tasks a read that
\* waits has joined a range in flight with a request out or a hole queued,
\* whatever was cancelled, has failed or was closed before.
THEOREM NobodyIsStranded == SafetySpec => []NoStrandedRead
  <1>1. ASSUME IInv PROVE NoStrandedRead
    <2> SUFFICES ASSUME Quiet, NEW r \in Reads, state[r] = "waiting"
                 PROVE  \E p \in joined[r] : flight[p] \in Unsettled /\ LanesOf(p, requested, queue) # {}
      BY DEF NoStrandedRead
    <2>1. Types /\ FlowInv /\ Joins /\ Woken BY <1>1 DEF IInv
    <2>2. r \notin Range(ready) BY RangeEmpty DEF Quiet
    <2>3. ~Resolved(joined[r], flight) BY <2>1, <2>2 DEF Woken
    <2>4. \A p \in joined[r] : p \in Reads /\ flight[p] # "none"
      BY <2>1 DEF Joins, Types
    <2>5. \A p \in joined[r] : flight[p] \in {"ok"} \cup Unsettled \cup Errors
      BY <2>1, <2>4 DEF Types
    <2>6. PICK p \in joined[r] : flight[p] \in Unsettled BY <2>3, <2>5 DEF Resolved
    <2>7. PICK x \in Out : x[1] = p BY <2>1, <2>4, <2>6 DEF FlowInv, RangesWork, Live
    <2>8. queue \in Seq(Items) BY <2>1 DEF FlowInv, Issued
    <2>9. LanesOf(p, requested, queue) = {y \in Out : y[1] = p} BY <2>8, LanesIn DEF Out
    <2>10. QED BY <2>6, <2>7, <2>9
  <1>2. QED BY <1>1, SourceIsSound, PTL
=============================================================================
