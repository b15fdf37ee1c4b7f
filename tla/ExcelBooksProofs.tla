-------------------------- MODULE ExcelBooksProofs --------------------------
(***************************************************************************)
(* The Excel adapter keeps its books: the documents its registry holds and *)
(* the bytes counted for them agree with the handles the host has,         *)
(* whatever the documents are and in whatever order operations begin,      *)
(* continue, are cancelled and end. First come the operators: what a fold  *)
(* over a sequence computes (as a run of its steps), what an insert into   *)
(* indexed ranges keeps, and what each reader of ExcelPackage, ExcelSheets *)
(* and ExcelRuntime returns; then what the registry holds after an open    *)
(* and after a close; then one lemma for each action.                      *)
(***************************************************************************)
EXTENDS ExcelBooks, FoldTheorems

\* A finite set of numbers has a greatest one, a set of naturals a least.
LEMMA Greatest ==
  ASSUME NEW U \in SUBSET Int, IsFiniteSet(U), U # {}
  PROVE  Max(U) \in U /\ \A k \in U : k <= Max(U)
  <1> DEFINE P == {s \in SUBSET U : s = {} \/ \E m \in s : \A k \in s : m >= k}
  <1>1. ASSUME NEW s \in SUBSET U, \A t \in SUBSET s : t # s => t \in P PROVE s \in P
    <2> SUFFICES ASSUME s # {} PROVE \E m \in s : \A k \in s : m >= k OBVIOUS
    <2>1. PICK x \in s : TRUE OBVIOUS
    <2>2. s \ {x} \in P BY <1>1, <2>1
    <2>3. CASE s \ {x} = {}
      <3>1. \A k \in s : k = x BY <2>1, <2>3
      <3>2. QED BY <2>1, <3>1
    <2>4. CASE s \ {x} # {}
      <3>1. PICK m \in s \ {x} : \A k \in s \ {x} : m >= k BY <2>2, <2>4
      <3>2. x \in Int /\ m \in Int /\ \A k \in s : k \in Int /\ (k # x => m >= k)
        BY <2>1, <3>1
      <3>3. CASE m >= x
        <4>1. \A k \in s : m >= k BY <3>2, <3>3
        <4>2. QED BY <3>1, <4>1
      <3>4. CASE ~(m >= x)
        <4>1. \A k \in s : x >= k BY <3>2, <3>4
        <4>2. QED BY <2>1, <4>1
      <3>5. QED BY <3>3, <3>4
    <2>5. QED BY <2>3, <2>4
  <1>2. P \in SUBSET SUBSET U OBVIOUS
  <1> HIDE DEF P
  <1>3. U \in P
    <2>1. SUBSET U \subseteq P BY <1>1, <1>2, InductSize
    <2>2. QED BY <2>1
  <1>4. PICK m \in U : \A k \in U : m >= k BY <1>3 DEF P
  <1>5. Max(U) \in U /\ \A k \in U : Max(U) >= k BY <1>4, Zenon DEF Max
  <1>6. QED BY <1>5

\* The least element of a set of naturals.
LEMMA Smallest ==
  ASSUME NEW U \in SUBSET Nat, U # {}
  PROVE  Min(U) \in U /\ \A k \in U : Min(U) <= k
  <1>1. PICK m \in U : \A k \in U : m <= k BY Least
  <1>2. QED BY <1>1, Zenon DEF Min

-----------------------------------------------------------------------------
\* Keep, as a run.
Kept(set, v, e) == IF e \in set THEN Append(v, e) ELSE v
KeepStep(E, set) == [p \in E \X Seq(E \cap set) |-> Kept(set, p[2], p[1])]

\* The elements of a sequence that are in a set are kept one by one.
LEMMA KeepSteps ==
  ASSUME NEW E, NEW set
  PROVE  Stepwise(KeepStep(E, set), E, Seq(E \cap set), <<>>)
  <1>1. \A e \in E, v \in Seq(E \cap set) : Kept(set, v, e) \in Seq(E \cap set)
    BY DEF Kept
  <1>2. QED BY <1>1 DEF Stepwise, KeepStep

Plus(v, e) == v + e
AddStep == [p \in Nat \X Nat |-> Plus(p[2], p[1])]

\* The fold is that run.
LEMMA KeepIsRun ==
  ASSUME NEW E, NEW set, NEW s \in Seq(E)
  PROVE  Keep(s, set) = Run(KeepStep(E, set), <<>>, s)
  <1> DEFINE n == Len(s)
             h == KeepStep(E, set)
             W == CHOOSE w : w = [u \in SUBSET (1..n) |->
                    IF u = {} THEN <<>> ELSE Kept(set, w[u \ {Max(u)}], s[Max(u)])]
  <1>1. s \in Seq(E) /\ DOMAIN s = 1..n /\ \A i \in 1..n : s[i] \in E OBVIOUS
  <1>2. Keep(s, set) = W[1..n]
    BY <1>1 DEF Keep, FoldLeft, MapThenFoldSet, Kept
  <1>3. Stepwise(h, E, Seq(E \cap set), <<>>) BY KeepSteps
  <1>4. \A e \in E, v \in Seq(E \cap set) : h[<<e, v>>] = Kept(set, v, e)
    BY DEF KeepStep
  <1> HIDE DEF h
  <1>g. PICK g : Solution(g, Seq(E \cap set), h, <<>>, s) BY <1>1, <1>3, FoldSolved
  <1>5. /\ g \in [SUBSET (1..n) -> Seq(E \cap set)] /\ g[{}] = <<>>
        /\ \A u \in SUBSET (1..n) : u # {} =>
             /\ Max(u) \in 1..n /\ u \ {Max(u)} \in SUBSET (1..n)
             /\ g[u] = h[<<s[Max(u)], g[u \ {Max(u)}]>>]
    BY <1>g, Zenon DEF Solution
  <1> HIDE DEF n
  <1>6. \A u \in SUBSET (1..n) : u # {} => g[u] = Kept(set, g[u \ {Max(u)}], s[Max(u)])
    <2> SUFFICES ASSUME NEW u \in SUBSET (1..n), u # {}
                 PROVE  g[u] = Kept(set, g[u \ {Max(u)}], s[Max(u)])
      OBVIOUS
    <2>1. /\ s[Max(u)] \in E /\ g[u \ {Max(u)}] \in Seq(E \cap set)
          /\ g[u] = h[<<s[Max(u)], g[u \ {Max(u)}]>>]
      BY <1>1, <1>5
    <2>2. QED BY <1>4, <2>1, Zenon
  <1>7. g = [u \in SUBSET (1..n) |->
               IF u = {} THEN <<>> ELSE Kept(set, g[u \ {Max(u)}], s[Max(u)])]
    BY <1>5, <1>6
  <1>8. W = [u \in SUBSET (1..n) |->
               IF u = {} THEN <<>> ELSE Kept(set, W[u \ {Max(u)}], s[Max(u)])]
    BY <1>7, Zenon
  <1> HIDE DEF W
  <1>9. W[{}] = <<>> BY <1>8
  <1>10. \A u \in SUBSET (1..n) : u # {} /\ W[u \ {Max(u)}] \in Seq(E \cap set) =>
            W[u] = h[<<s[Max(u)], W[u \ {Max(u)}]>>]
    <2> SUFFICES ASSUME NEW u \in SUBSET (1..n), u # {}, W[u \ {Max(u)}] \in Seq(E \cap set)
                 PROVE  W[u] = h[<<s[Max(u)], W[u \ {Max(u)}]>>]
      OBVIOUS
    <2>1. W[u] = Kept(set, W[u \ {Max(u)}], s[Max(u)]) BY <1>8
    <2>2. s[Max(u)] \in E BY <1>1, <1>5
    <2>3. QED BY <1>4, <2>1, <2>2, Zenon
  <1>11. Recurs(W, Seq(E \cap set), h, <<>>, s) BY <1>9, <1>10 DEF Recurs, n
  <1>12. W[1..Len(s)] = Run(h, <<>>, s) BY <1>1, <1>3, <1>11, FoldIsRun
  <1>13. QED BY <1>2, <1>12 DEF h, n

\* What is kept is in the set, and nothing is kept only if nothing was in it.
LEMMA KeepIs ==
  ASSUME NEW E, NEW set, NEW s \in Seq(E)
  PROVE  /\ Keep(s, set) \in Seq(E \cap set)
         /\ Keep(s, set) = <<>> => \A i \in 1..Len(s) : s[i] \notin set
  <1> DEFINE h == KeepStep(E, set)
             V == Seq(E \cap set)
             f == RunOf(h, <<>>, s)
             n == Len(s)
  <1>1. Stepwise(h, E, V, <<>>) BY KeepSteps
  <1>2. \A e \in E, v \in V : h[<<e, v>>] = Kept(set, v, e) BY DEF KeepStep
  <1>3. n \in Nat /\ \A i \in 1..n : s[i] \in E OBVIOUS
  <1> HIDE DEF h
  <1>4. Run(h, <<>>, s) \in V /\ Follows(f, h, <<>>, s) BY <1>1, RunFollows
  <1>5. f[0] = <<>> /\ \A i \in 1..n : f[i] = h[<<s[i], f[i - 1]>>] BY <1>4 DEF Follows
  <1>6. Keep(s, set) = f[n] BY KeepIsRun DEF Run, h
  <1> HIDE DEF f, n, V
  <1> DEFINE T == {i \in 0..n : f[i] \in V /\ (f[i] = <<>> => \A j \in 1..i : s[j] \notin set)}
  <1>7. 0 \in T
    <2>1. <<>> \in V /\ 0 \in 0..n /\ \A j \in 1..0 : FALSE BY <1>3 DEF V
    <2>2. QED BY <1>5, <2>1
  <1>8. ASSUME NEW i \in 1..n, i - 1 \in T PROVE i \in T
    <2>1. f[i - 1] \in V /\ (f[i - 1] = <<>> => \A j \in 1..(i - 1) : s[j] \notin set) BY <1>8
    <2>2. f[i] = Kept(set, f[i - 1], s[i]) BY <1>2, <1>3, <1>5, <2>1
    <2>3. f[i] \in V BY <1>3, <2>1, <2>2 DEF Kept, V
    <2>4. ASSUME f[i] = <<>>, NEW j \in 1..i PROVE s[j] \notin set
      <3>1. s[i] \notin set /\ f[i - 1] = <<>>
        <4>1. Append(f[i - 1], s[i]) # <<>> BY <2>1 DEF V
        <4>2. QED BY <2>2, <2>4, <4>1 DEF Kept
      <3>2. j = i \/ j \in 1..(i - 1) BY <1>3
      <3>3. QED BY <2>1, <3>1, <3>2
    <2>5. i \in 0..n BY <1>3
    <2>6. QED BY <2>3, <2>4, <2>5
  <1>9. T \in SUBSET (0..n) OBVIOUS
  <1> HIDE DEF T
  <1>10. T = 0..n BY <1>3, <1>7, <1>8, <1>9, InductUpto
  <1>11. n \in T BY <1>3, <1>10
  <1>12. QED BY <1>6, <1>11 DEF T, V, n

-----------------------------------------------------------------------------
\* TotalOf, as a run.
LEMMA AddSteps == Stepwise(AddStep, Nat, Nat, 0)
  BY DEF Stepwise, AddStep, Plus

\* The fold is that run.
LEMMA TotalIsRun ==
  ASSUME NEW s \in Seq(Nat)
  PROVE  TotalOf(s) = Run(AddStep, 0, s)
  <1> DEFINE n == Len(s)
             h == AddStep
             W == CHOOSE w : w = [u \in SUBSET (1..n) |->
                    IF u = {} THEN 0 ELSE Plus(w[u \ {Max(u)}], s[Max(u)])]
  <1>1. s \in Seq(Nat) /\ DOMAIN s = 1..n /\ \A i \in 1..n : s[i] \in Nat OBVIOUS
  <1>2. TotalOf(s) = W[1..n]
    BY <1>1 DEF TotalOf, FoldLeft, MapThenFoldSet, Plus
  <1>3. Stepwise(h, Nat, Nat, 0) BY AddSteps
  <1>4. \A e \in Nat, v \in Nat : h[<<e, v>>] = Plus(v, e)
    BY DEF AddStep
  <1> HIDE DEF h
  <1>g. PICK g : Solution(g, Nat, h, 0, s) BY <1>1, <1>3, FoldSolved
  <1>5. /\ g \in [SUBSET (1..n) -> Nat] /\ g[{}] = 0
        /\ \A u \in SUBSET (1..n) : u # {} =>
             /\ Max(u) \in 1..n /\ u \ {Max(u)} \in SUBSET (1..n)
             /\ g[u] = h[<<s[Max(u)], g[u \ {Max(u)}]>>]
    BY <1>g, Zenon DEF Solution
  <1> HIDE DEF n
  <1>6. \A u \in SUBSET (1..n) : u # {} => g[u] = Plus(g[u \ {Max(u)}], s[Max(u)])
    <2> SUFFICES ASSUME NEW u \in SUBSET (1..n), u # {}
                 PROVE  g[u] = Plus(g[u \ {Max(u)}], s[Max(u)])
      OBVIOUS
    <2>1. /\ s[Max(u)] \in Nat /\ g[u \ {Max(u)}] \in Nat
          /\ g[u] = h[<<s[Max(u)], g[u \ {Max(u)}]>>]
      BY <1>1, <1>5
    <2>2. QED BY <1>4, <2>1, Zenon
  <1>7. g = [u \in SUBSET (1..n) |->
               IF u = {} THEN 0 ELSE Plus(g[u \ {Max(u)}], s[Max(u)])]
    BY <1>5, <1>6
  <1>8. W = [u \in SUBSET (1..n) |->
               IF u = {} THEN 0 ELSE Plus(W[u \ {Max(u)}], s[Max(u)])]
    BY <1>7, Zenon
  <1> HIDE DEF W
  <1>9. W[{}] = 0 BY <1>8
  <1>10. \A u \in SUBSET (1..n) : u # {} /\ W[u \ {Max(u)}] \in Nat =>
            W[u] = h[<<s[Max(u)], W[u \ {Max(u)}]>>]
    <2> SUFFICES ASSUME NEW u \in SUBSET (1..n), u # {}, W[u \ {Max(u)}] \in Nat
                 PROVE  W[u] = h[<<s[Max(u)], W[u \ {Max(u)}]>>]
      OBVIOUS
    <2>1. W[u] = Plus(W[u \ {Max(u)}], s[Max(u)]) BY <1>8
    <2>2. s[Max(u)] \in Nat BY <1>1, <1>5
    <2>3. QED BY <1>4, <2>1, <2>2, Zenon
  <1>11. Recurs(W, Nat, h, 0, s) BY <1>9, <1>10 DEF Recurs, n
  <1>12. W[1..Len(s)] = Run(h, 0, s) BY <1>1, <1>3, <1>11, FoldIsRun
  <1>13. QED BY <1>2, <1>12 DEF h, n

\* The total of a sequence of numbers is a number.
LEMMA TotalOfType == ASSUME NEW s \in Seq(Nat) PROVE TotalOf(s) \in Nat
  BY TotalIsRun, AddSteps, RunFollows

\* The sum of a finite function is the total of its values.
LEMMA SumIsTotal ==
  ASSUME NEW f
  PROVE  SumOf(f) = Total(f, DOMAIN f)
  BY DEF SumOf, MapThenSumSet, MapThenFoldSet, Total, SumOver, Pick

\* The sum of a finite function to the naturals is a natural.
LEMMA SumType ==
  ASSUME NEW f, IsFiniteSet(DOMAIN f), \A x \in DOMAIN f : f[x] \in Nat
  PROVE  SumOf(f) \in Nat
  BY SumIsTotal, TotalType DEF NatOn

\* The ranges of a source that have been fetched, and those still to fetch.
HostRanges == [offset : Nat, length : Nat \ {0}]
RangeMaps == UNION {[S -> Seq(Int)] : S \in SUBSET Nat}
Stores == [length : Nat, ranges : RangeMaps, retained : Nat]

StoreOK(ix) ==
    /\ ix \in Stores /\ IsFiniteSet(DOMAIN ix.ranges)
    /\ IndexedSound(ix)

Missing(ix) == {r \in HostRanges : ~(Positions(r) \subseteq Indexed(ix))}

\* The fields of a store of ranges, and where a range of it ends.
LEMMA StoreType ==
  ASSUME NEW ix \in Stores
  PROVE  /\ ix.length \in Nat /\ ix.retained \in Nat
         /\ DOMAIN ix.ranges \subseteq Nat
         /\ \A s \in DOMAIN ix.ranges :
              /\ ix.ranges[s] \in Seq(Int) /\ Len(ix.ranges[s]) \in Nat
              /\ EndOf(ix, s) = s + Len(ix.ranges[s]) /\ EndOf(ix, s) \in Nat /\ s \in Nat
  <1>1. PICK S \in SUBSET Nat : ix.ranges \in [S -> Seq(Int)] BY DEF Stores, RangeMaps
  <1>2. ix.length \in Nat /\ ix.retained \in Nat BY DEF Stores
  <1>3. DOMAIN ix.ranges = S BY <1>1
  <1>4. ASSUME NEW s \in S
        PROVE  /\ ix.ranges[s] \in Seq(Int) /\ Len(ix.ranges[s]) \in Nat
               /\ EndOf(ix, s) = s + Len(ix.ranges[s]) /\ EndOf(ix, s) \in Nat /\ s \in Nat
    <2>1. s \in Nat /\ ix.ranges[s] \in Seq(Int) BY <1>1
    <2>2. Len(ix.ranges[s]) \in Nat BY <2>1
    <2>3. QED BY <2>1, <2>2 DEF EndOf
  <1>5. QED BY <1>2, <1>3, <1>4

\* A position is indexed when some range holds it.
LEMMA IndexedIs ==
  ASSUME NEW ix \in Stores, NEW p
  PROVE  p \in Indexed(ix) <=> p \in Int /\ \E s \in DOMAIN ix.ranges : s <= p /\ p < EndOf(ix, s)
  <1>1. \A s \in DOMAIN ix.ranges : s \in Nat /\ EndOf(ix, s) \in Nat BY StoreType
  <1>2. p \in Indexed(ix) <=> \E s \in DOMAIN ix.ranges : p \in s .. EndOf(ix, s) - 1
    BY Zenon DEF Indexed
  <1>3. \A s \in DOMAIN ix.ranges :
           p \in s .. EndOf(ix, s) - 1 <=> p \in Int /\ s <= p /\ p < EndOf(ix, s)
    BY <1>1
  <1>4. QED BY <1>2, <1>3

\* The positions of a host range run from its offset to its end.
LEMMA PositionsAre ==
  ASSUME NEW r \in HostRanges
  PROVE  /\ r.offset \in Nat /\ r.length \in Nat /\ r.length > 0
         /\ RangeEnd(r) = r.offset + r.length /\ RangeEnd(r) \in Nat
         /\ \A p : p \in Positions(r) <=> p \in Int /\ r.offset <= p /\ p < RangeEnd(r)
  <1>1. r.offset \in Nat /\ r.length \in Nat /\ r.length > 0 BY DEF HostRanges
  <1>2. QED BY <1>1 DEF RangeEnd, Positions

\* The last range that starts at or before a position.
LEMMA BeforeIs ==
  ASSUME NEW ix, StoreOK(ix), NEW p \in Nat
  PROVE  LET b == StartBefore(ix, p)
         IN  \/ b = None /\ \A s \in DOMAIN ix.ranges : ~(s <= p)
             \/ /\ b # None /\ b \in DOMAIN ix.ranges /\ b <= p
                /\ \A s \in DOMAIN ix.ranges : s <= p => s <= b
  <1> DEFINE U == {s \in DOMAIN ix.ranges : s <= p}
  <1>1. DOMAIN ix.ranges \subseteq Nat /\ IsFiniteSet(DOMAIN ix.ranges)
    BY StoreType DEF StoreOK
  <1>2. U \in SUBSET Int /\ IsFiniteSet(U) /\ U \in SUBSET Nat BY <1>1, FS_Subset
  <1>3. CASE U = {} BY <1>3 DEF StartBefore
  <1>4. CASE U # {}
    <2>1. StartBefore(ix, p) = Max(U) BY <1>4 DEF StartBefore
    <2> HIDE DEF U
    <2>2. Max(U) \in U /\ \A k \in U : k <= Max(U) BY <1>2, <1>4, Greatest
    <2>3. Max(U) # None BY <1>2, <2>2, PackageAssumption
    <2>4. QED BY <2>1, <2>2, <2>3 DEF U
  <1>5. QED BY <1>3, <1>4

-----------------------------------------------------------------------------
\* The bytes of a range whose positions are all there.
LEMMA BytesThere ==
  ASSUME NEW ix, StoreOK(ix), NEW r \in HostRanges
  PROVE  /\ Bytes(ix, r) \in Seq(Int) \cup {None}
         /\ Positions(r) \subseteq Indexed(ix) => Bytes(ix, r) \in Seq(Int)
  <1> DEFINE b == StartBefore(ix, r.offset)
             R == ix.ranges
             e == RangeEnd(r)
  <1>1. /\ r.offset \in Nat /\ e \in Nat /\ r.offset < e /\ e = r.offset + r.length
        /\ \A p : p \in Positions(r) <=> p \in Int /\ r.offset <= p /\ p < e
    BY PositionsAre
  <1>2. \/ b = None /\ \A s \in DOMAIN R : ~(s <= r.offset)
        \/ /\ b # None /\ b \in DOMAIN R /\ b <= r.offset
           /\ \A s \in DOMAIN R : s <= r.offset => s <= b
    BY <1>1, BeforeIs
  <1>3. ix \in Stores /\ \A s, t \in DOMAIN R : t > s => t > EndOf(ix, s)
    BY DEF StoreOK, IndexedSound
  <1>4. \A s \in DOMAIN R : s \in Nat /\ EndOf(ix, s) \in Nat /\ R[s] \in Seq(Int)
                            /\ EndOf(ix, s) = s + Len(R[s])
    BY <1>3, StoreType
  <1>5. \A p : p \in Indexed(ix) <=> p \in Int /\ \E s \in DOMAIN R : s <= p /\ p < EndOf(ix, s)
    BY <1>3, IndexedIs
  <1>6. Bytes(ix, r) = IF b = None \/ e > EndOf(ix, b) THEN None
                       ELSE SubSeq(R[b], r.offset - b + 1, e - b)
    BY DEF Bytes
  <1> HIDE DEF b, e, R
  <1>7. ASSUME b # None, e <= EndOf(ix, b)
        PROVE  SubSeq(R[b], r.offset - b + 1, e - b) \in Seq(Int)
    <2>1. b \in DOMAIN R /\ b <= r.offset /\ b \in Nat /\ R[b] \in Seq(Int) /\ e - b <= Len(R[b])
      BY <1>1, <1>2, <1>4, <1>7
    <2>2. r.offset - b + 1 \in 1..(Len(R[b]) + 1) /\ e - b \in 0..Len(R[b])
      BY <1>1, <2>1
    <2> DEFINE s == R[b]
               m == r.offset - b + 1
               n == e - b
    <2>3. s \in Seq(Int) /\ m \in 1..(Len(s) + 1) /\ n \in (m - 1)..Len(s) BY <1>1, <2>1, <2>2
    <2> HIDE DEF s, m, n
    <2>4. SubSeq(s, m, n) \in Seq(Int) BY <2>3, SubSeqProperties
    <2>5. QED BY <2>4 DEF s, m, n
  <1>8. ASSUME Positions(r) \subseteq Indexed(ix) PROVE b # None /\ e <= EndOf(ix, b)
    <2>1. r.offset \in Indexed(ix) BY <1>1, <1>8
    <2>2. PICK s \in DOMAIN R : s <= r.offset /\ r.offset < EndOf(ix, s) BY <1>5, <2>1
    <2>3. b # None /\ b \in DOMAIN R /\ s <= b /\ b <= r.offset BY <1>2, <2>2
    <2>4. b = s BY <1>1, <1>3, <1>4, <2>2, <2>3
    <2>5. ASSUME e > EndOf(ix, b) PROVE FALSE
      <3> DEFINE p == EndOf(ix, b)
      <3>1. p \in Nat /\ r.offset <= p /\ p < e BY <1>4, <2>2, <2>4, <2>3, <2>5, <1>1
      <3>2. p \in Indexed(ix) BY <1>1, <1>8, <3>1
      <3>3. PICK u \in DOMAIN R : u <= p /\ p < EndOf(ix, u) BY <1>5, <3>2
      <3>4. u # b BY <3>1, <3>3
      <3>5. CASE u > b
        <4>1. u > p BY <1>3, <2>3, <3>5
        <4>2. QED BY <1>4, <3>1, <3>3, <4>1
      <3>6. CASE b > u
        <4>1. b > EndOf(ix, u) BY <1>3, <2>3, <3>6
        <4>2. QED BY <1>1, <1>4, <2>3, <3>1, <3>3, <4>1
      <3>7. QED BY <1>4, <2>3, <3>4, <3>5, <3>6
    <2>6. QED BY <1>1, <1>4, <2>3, <2>5
  <1>9. CASE b # None /\ ~(e > EndOf(ix, b))
    <2>1. e <= EndOf(ix, b) BY <1>1, <1>2, <1>4, <1>9
    <2>2. QED BY <1>6, <1>7, <1>9, <2>1
  <1>10. CASE ~(b # None /\ ~(e > EndOf(ix, b)))
    <2>1. ~(Positions(r) \subseteq Indexed(ix))
      <3>1. ASSUME Positions(r) \subseteq Indexed(ix) PROVE FALSE
        <4>1. b # None /\ e <= EndOf(ix, b) BY <1>8, <3>1
        <4>2. b \in DOMAIN R BY <1>2, <4>1
        <4>3. QED BY <1>1, <1>4, <1>10, <4>1, <4>2
      <3>2. QED BY <3>1
    <2>2. QED BY <1>6, <1>10, <2>1
  <1>11. QED BY <1>9, <1>10

\* The first gap of a range is a range of its own, none of it fetched where
\* it begins.
LEMMA FirstMissingIs ==
  ASSUME NEW ix, StoreOK(ix), NEW r \in HostRanges
  PROVE  IF Positions(r) \subseteq Indexed(ix) THEN FirstMissing(ix, r) = None
         ELSE FirstMissing(ix, r) \in Missing(ix) /\ FirstMissing(ix, r) # None
  <1> DEFINE gaps == Positions(r) \ Indexed(ix)
             from == Min(gaps)
             later == {start \in DOMAIN ix.ranges : start > from}
             ends == {RangeEnd(r)} \cup later
             upTo == Min(ends)
  <1>1. CASE gaps = {}
    <2>1. Positions(r) \subseteq Indexed(ix) BY <1>1
    <2>2. FirstMissing(ix, r) = None BY <1>1 DEF FirstMissing
    <2>3. QED BY <2>1, <2>2
  <1>2. CASE gaps # {}
    <2>1. FirstMissing(ix, r) = HostRange(from, upTo - from) BY <1>2 DEF FirstMissing
    <2>2. gaps \in SUBSET Nat BY PositionsAre
    <2>3. from \in gaps BY <1>2, <2>2, Smallest
    <2>4. from \in Nat /\ from < RangeEnd(r) /\ RangeEnd(r) \in Nat BY <2>2, <2>3, PositionsAre
    <2>5. DOMAIN ix.ranges \subseteq Nat BY StoreType DEF StoreOK
    <2> HIDE DEF from
    <2>6. ends \in SUBSET Nat /\ ends # {} /\ \A k \in ends : k > from BY <2>4, <2>5
    <2> HIDE DEF ends
    <2>7. upTo \in ends BY <2>6, Smallest
    <2> HIDE DEF upTo
    <2>8. upTo \in Nat /\ upTo > from BY <2>6, <2>7
    <2>9. upTo - from \in Nat \ {0} BY <2>4, <2>8
    <2> DEFINE q == HostRange(from, upTo - from)
    <2>10. q \in HostRanges /\ q.offset = from BY <2>4, <2>9 DEF HostRange, HostRanges
    <2>11. from \in Positions(q) BY <2>4, <2>10, PositionsAre
    <2>12. from \notin Indexed(ix) /\ from \in Positions(r) BY <2>3
    <2>13. q \in Missing(ix) BY <2>10, <2>11, <2>12 DEF Missing
    <2>14. q # None
      <3>1. q \in [offset : Nat, length : Nat] BY <2>10 DEF HostRanges
      <3>2. QED BY <3>1, PackageAssumption
    <2>15. QED BY <2>1, <2>12, <2>13, <2>14
  <1>3. QED BY <1>1, <1>2

\* A range that is needed is there, or some of it is asked for.
LEMMA NeedIs ==
  ASSUME NEW ix, StoreOK(ix), NEW r \in HostRanges
  PROVE  \/ Need(ix, r).error = "ok" /\ Need(ix, r).value \in Seq(Int)
         \/ Need(ix, r).error = "more" /\ Need(ix, r).value \in Missing(ix)
  <1>1. CASE Positions(r) \subseteq Indexed(ix)
    <2>1. FirstMissing(ix, r) = None BY <1>1, FirstMissingIs
    <2>2. Bytes(ix, r) \in Seq(Int) /\ Bytes(ix, r) # None
      BY <1>1, BytesThere, PackageAssumption
    <2>3. QED BY <2>1, <2>2 DEF Need, Found
  <1>2. CASE ~(Positions(r) \subseteq Indexed(ix))
    <2>1. FirstMissing(ix, r) # None /\ FirstMissing(ix, r) \in Missing(ix) BY <1>2, FirstMissingIs
    <2>2. QED BY <2>1 DEF Need
  <1>3. QED BY <1>1, <1>2

-----------------------------------------------------------------------------
\* The bytes of consecutive places, from a first one.
From(s, m) == s \in Seq(Int) /\ \A k \in 1..Len(s) : s[k] = m + k - 1

\* Bytes of the source that follow each other, put together.
LEMMA FromTwo ==
  ASSUME NEW m \in Nat, NEW s, From(s, m), NEW t, From(t, m + Len(s))
  PROVE  From(s \o t, m) /\ Len(s \o t) = Len(s) + Len(t)
  <1>1. s \in Seq(Int) /\ t \in Seq(Int) /\ Len(s) \in Nat /\ Len(t) \in Nat BY DEF From
  <1>2. s \o t \in Seq(Int) /\ Len(s \o t) = Len(s) + Len(t) BY <1>1
  <1>3. ASSUME NEW k \in 1..Len(s) + Len(t) PROVE (s \o t)[k] = m + k - 1
    <2>1. CASE k <= Len(s)
      <3>1. (s \o t)[k] = s[k] /\ k \in 1..Len(s) BY <1>1, <2>1
      <3>2. QED BY <3>1 DEF From
    <2>2. CASE ~(k <= Len(s))
      <3>1. (s \o t)[k] = t[k - Len(s)] /\ k - Len(s) \in 1..Len(t) BY <1>1, <2>2
      <3>2. t[k - Len(s)] = (m + Len(s)) + (k - Len(s)) - 1 BY <3>1 DEF From
      <3>3. QED BY <1>1, <3>1, <3>2
    <2>3. QED BY <2>1, <2>2
  <1>4. QED BY <1>2, <1>3 DEF From

\* What the host answers for a range are the bytes of that range.
LEMMA HostBytesAre ==
  ASSUME NEW r \in HostRanges
  PROVE  From(HostBytes(r), r.offset) /\ Len(HostBytes(r)) = r.length
  <1>1. r.offset \in Nat /\ r.length \in Nat BY PositionsAre
  <1>2. \A k \in 1..r.length : r.offset + k - 1 \in Int BY <1>1
  <1>3. [k \in 1..r.length |-> r.offset + k - 1] \in [1..r.length -> Int] BY <1>2
  <1>4. HostBytes(r) \in Seq(Int) BY <1>1, <1>3 DEF HostBytes
  <1>5. DOMAIN HostBytes(r) = 1..r.length BY DEF HostBytes
  <1>6. Len(HostBytes(r)) = r.length BY <1>1, <1>4, <1>5
  <1>7. \A k \in 1..r.length : HostBytes(r)[k] = r.offset + k - 1 BY DEF HostBytes
  <1>8. QED BY <1>4, <1>6, <1>7 DEF From

\* What a store comes to with a range that meets none of it, at its left and
\* right neighbours joined.
LEMMA JoinedIs ==
  ASSUME NEW ix, StoreOK(ix), NEW r \in HostRanges,
         RangeEnd(r) <= ix.length, ~Overlaps(ix, r)
  PROVE  \E start, end \in Nat :
           LET R == ix.ranges
               J == Joined(ix, r, HostBytes(r))
           IN  /\ J \in RangeMaps /\ DOMAIN J = (DOMAIN R \ {start, RangeEnd(r)}) \cup {start}
               /\ \A s \in DOMAIN J : s # start => J[s] = R[s]
               /\ start + Len(J[start]) = end
               /\ From(J[start], start)
               /\ end <= ix.length /\ start <= r.offset /\ RangeEnd(r) <= end
               /\ \A s \in DOMAIN R : s < start => EndOf(ix, s) < start
               /\ \A s \in DOMAIN R : s > start => s = RangeEnd(r) \/ s > end
               /\ \A p \in Int : start <= p /\ p < end =>
                     p \in Positions(r) \/ p \in Indexed(ix)
               /\ start \in DOMAIN R => start < r.offset /\ EndOf(ix, start) = r.offset
               /\ RangeEnd(r) \in DOMAIN R => EndOf(ix, RangeEnd(r)) = end
  <1> DEFINE R == ix.ranges
             bytes == HostBytes(r)
             b == StartBefore(ix, r.offset)
             e == RangeEnd(r)
             joins == b # None /\ EndOf(ix, b) = r.offset
             start == IF joins THEN b ELSE r.offset
             left == IF joins THEN R[b] \o bytes ELSE bytes
             whole == IF e \in DOMAIN R THEN left \o R[e] ELSE left
             end == IF e \in DOMAIN R THEN EndOf(ix, e) ELSE e
             J == Joined(ix, r, bytes)
             D == (DOMAIN R \ {start, e}) \cup {start}
  <1>1. /\ r.offset \in Nat /\ r.length \in Nat /\ e \in Nat /\ r.offset < e /\ e = r.offset + r.length
        /\ \A p : p \in Positions(r) <=> p \in Int /\ r.offset <= p /\ p < e
    BY PositionsAre
  <1>2. \/ b = None /\ \A s \in DOMAIN R : ~(s <= r.offset)
        \/ /\ b # None /\ b \in DOMAIN R /\ b <= r.offset
           /\ \A s \in DOMAIN R : s <= r.offset => s <= b
    BY <1>1, BeforeIs
  <1>3. /\ ix \in Stores /\ ix.length \in Nat
        /\ \A s \in DOMAIN R : EndOf(ix, s) <= ix.length
        /\ \A s \in DOMAIN R : \A k \in 1..Len(R[s]) : R[s][k] = s + k - 1
        /\ \A s, t \in DOMAIN R : t > s => t > EndOf(ix, s)
    BY StoreType DEF StoreOK, IndexedSound
  <1>4. \A s \in DOMAIN R : s \in Nat /\ EndOf(ix, s) \in Nat /\ R[s] \in Seq(Int)
                            /\ EndOf(ix, s) = s + Len(R[s]) /\ Len(R[s]) \in Nat
    BY <1>3, StoreType
  <1>5. \A p : p \in Indexed(ix) <=> p \in Int /\ \E s \in DOMAIN R : s <= p /\ p < EndOf(ix, s)
    BY <1>3, IndexedIs
  <1>6. /\ b # None => EndOf(ix, b) <= r.offset
        /\ \A s \in DOMAIN R : ~(r.offset <= s /\ s < e)
    <2>1. ~(b # None /\ EndOf(ix, b) > r.offset)
      BY DEF Overlaps
    <2>2. \A s \in DOMAIN R : ~(r.offset <= s /\ s < e)
      BY DEF Overlaps
    <2>3. QED BY <1>1, <1>2, <1>4, <2>1, <2>2
  <1>7. From(bytes, r.offset) /\ Len(bytes) = r.length BY HostBytesAre
  <1>8. J = With(Without(R, {start, e}), start, whole) BY DEF Joined
  <1>s. \A s \in DOMAIN R : From(R[s], s) BY <1>3, <1>4 DEF From
  <1> HIDE DEF b, e, bytes, R, J
  <1>9. start \in Nat /\ start <= r.offset /\ (joins => start = b /\ b \in DOMAIN R /\ b < r.offset)
    <2>1. CASE ~joins BY <1>1, <2>1
    <2>2. CASE joins
      <3>1. b \in DOMAIN R /\ b <= r.offset BY <1>2, <2>2
      <3>2. b \in Nat /\ EndOf(ix, b) = b + Len(R[b]) /\ Len(R[b]) \in Nat BY <1>4, <3>1
      <3>3. b # r.offset BY <1>1, <1>6, <3>1
      <3>4. QED BY <1>1, <2>2, <3>1, <3>2, <3>3
    <2>3. QED BY <2>1, <2>2
  <1> HIDE DEF start
  <1>10. From(left, start) /\ start + Len(left) = e
    <2>1. CASE ~joins BY <1>1, <1>7, <2>1 DEF start
    <2>2. CASE joins
      <3>1. b \in Nat /\ b + Len(R[b]) = r.offset /\ Len(R[b]) \in Nat /\ From(R[b], b)
        BY <1>4, <1>9, <1>s, <2>2
      <3>2. From(R[b] \o bytes, b) /\ Len(R[b] \o bytes) = Len(R[b]) + Len(bytes)
        BY <1>7, <3>1, FromTwo
      <3>3. left = R[b] \o bytes /\ start = b BY <2>2 DEF start
      <3>4. b + (Len(R[b]) + Len(bytes)) = e BY <1>1, <1>7, <3>1
      <3>5. QED BY <3>2, <3>3, <3>4
    <2>3. QED BY <2>1, <2>2
  <1> HIDE DEF left
  <1>11. /\ From(whole, start) /\ start + Len(whole) = end /\ end \in Nat
         /\ end <= ix.length /\ e <= end
    <2>1. CASE e \notin DOMAIN R
      <3>1. whole = left /\ end = e BY <2>1
      <3>2. e <= ix.length BY DEF e
      <3> HIDE DEF end, whole
      <3>3. From(whole, start) /\ start + Len(whole) = end BY <1>10, <3>1
      <3>4. QED BY <1>1, <3>1, <3>2, <3>3
    <2>2. CASE e \in DOMAIN R
      <3>1. /\ end = e + Len(R[e]) /\ Len(R[e]) \in Nat /\ end <= ix.length /\ From(R[e], e)
        BY <1>3, <1>4, <1>s, <2>2
      <3>2. From(left \o R[e], start) /\ Len(left \o R[e]) = Len(left) + Len(R[e])
        BY <1>9, <1>10, <3>1, FromTwo
      <3>3. whole = left \o R[e] BY <2>2
      <3>4. Len(left) \in Nat BY <1>10 DEF From
      <3>5. start + (Len(left) + Len(R[e])) = e + Len(R[e]) BY <1>1, <1>9, <1>10, <3>1, <3>4
      <3> HIDE DEF end, whole
      <3>6. end \in Nat /\ e <= end BY <1>1, <3>1
      <3>7. QED BY <3>1, <3>2, <3>3, <3>5, <3>6
    <2>3. QED BY <2>1, <2>2
  <1> HIDE DEF whole
  <1>12. DOMAIN J = D /\ J[start] = whole /\ \A s \in D : s # start => J[s] = R[s]
    BY <1>8 DEF With, Without
  <1>13. J \in RangeMaps
    <2>1. D \in SUBSET Nat BY <1>4, <1>9
    <2>2. J = [s \in D |-> J[s]] BY <1>8, <1>12 DEF With, Without
    <2>3. \A s \in D : J[s] \in Seq(Int) BY <1>4, <1>11, <1>12 DEF From
    <2> HIDE DEF D
    <2>4. J \in [D -> Seq(Int)] BY <2>2, <2>3
    <2>5. QED BY <2>1, <2>4 DEF RangeMaps
  <1>14. \A s \in DOMAIN R : s < start => EndOf(ix, s) < start
    <2> SUFFICES ASSUME NEW s \in DOMAIN R, s < start PROVE EndOf(ix, s) < start OBVIOUS
    <2>1. s \in Nat /\ s <= r.offset BY <1>1, <1>4, <1>9
    <2>2. b # None /\ b \in DOMAIN R /\ b <= r.offset /\ s <= b /\ b \in Nat BY <1>2, <1>4, <2>1
    <2>3. CASE joins BY <1>3, <1>9, <2>2, <2>3
    <2>4. CASE ~joins
      <3>1. start = r.offset BY <2>4 DEF start
      <3>2. EndOf(ix, b) <= r.offset /\ EndOf(ix, b) # r.offset /\ EndOf(ix, b) \in Nat
        BY <1>4, <1>6, <2>2, <2>4
      <3>3. s = b \/ (b > s /\ b > EndOf(ix, s)) BY <1>3, <2>1, <2>2
      <3>4. EndOf(ix, s) \in Nat BY <1>4
      <3>5. b <= EndOf(ix, b) BY <1>4, <2>2
      <3>6. QED BY <1>1, <2>2, <3>1, <3>2, <3>3, <3>4, <3>5
    <2>5. QED BY <2>3, <2>4
  <1>15. \A s \in DOMAIN R : s > start => s = e \/ s > end
    <2> SUFFICES ASSUME NEW s \in DOMAIN R, s > start, s # e PROVE s > end OBVIOUS
    <2>1. s \in Nat BY <1>4
    <2>2. ~(s <= r.offset)
      <3>1. ASSUME s <= r.offset PROVE FALSE
        <4>1. b # None /\ s <= b /\ b \in Nat BY <1>2, <1>4, <3>1
        <4>2. ~joins BY <1>9, <2>1, <4>1
        <4>3. start = r.offset BY <4>2 DEF start
        <4>4. QED BY <1>1, <2>1, <3>1, <4>3
      <3>2. QED BY <3>1
    <2>3. s > e BY <1>1, <1>6, <2>1, <2>2
    <2>4. CASE e \in DOMAIN R BY <1>3, <2>3, <2>4
    <2>5. CASE e \notin DOMAIN R BY <2>3, <2>5
    <2>6. QED BY <2>4, <2>5
  <1>16. \A p \in Int : start <= p /\ p < end => p \in Positions(r) \/ p \in Indexed(ix)
    <2> SUFFICES ASSUME NEW p \in Int, start <= p, p < end, p \notin Positions(r) PROVE p \in Indexed(ix)
      OBVIOUS
    <2>1. CASE p < r.offset
      <3>1. joins BY <1>1, <2>1 DEF start
      <3>2. b \in DOMAIN R /\ b <= p /\ p < EndOf(ix, b) BY <1>9, <2>1, <3>1
      <3>3. QED BY <1>5, <3>2
    <2>2. CASE ~(p < r.offset)
      <3>1. p >= e BY <1>1, <2>2
      <3>2. e \in DOMAIN R /\ p < EndOf(ix, e) BY <1>1, <3>1
      <3>3. QED BY <1>1, <1>5, <3>1, <3>2
    <2>3. QED BY <2>1, <2>2
  <1>17. start \in DOMAIN R => start < r.offset /\ EndOf(ix, start) = r.offset
    <2> SUFFICES ASSUME start \in DOMAIN R PROVE start < r.offset /\ EndOf(ix, start) = r.offset OBVIOUS
    <2>1. CASE joins BY <1>9, <2>1
    <2>2. CASE ~joins
      <3>1. start = r.offset BY <2>2 DEF start
      <3>2. QED BY <1>1, <1>6, <3>1
    <2>3. QED BY <2>1, <2>2
  <1>18. e \in DOMAIN R => EndOf(ix, e) = end OBVIOUS
  <1> HIDE DEF end
  <1>19. QED
    BY <1>9, <1>11, <1>12, <1>13, <1>14, <1>15, <1>16, <1>17, <1>18 DEF R, J, bytes, e

\* An answer of the host leaves a store of the same source.
LEMMA InsertKeeps ==
  ASSUME NEW ix, StoreOK(ix), NEW r \in HostRanges
  PROVE  /\ Insert(ix, r, HostBytes(r)).error \in {"ok", "overlap", "argument"}
         /\ StoreOK(Insert(ix, r, HostBytes(r)).indexed)
         /\ Insert(ix, r, HostBytes(r)).indexed.length = ix.length
  <1> DEFINE J == Joined(ix, r, HostBytes(r))
             R == ix.ranges
             e == RangeEnd(r)
             I == Insert(ix, r, HostBytes(r))
             grown == [ix EXCEPT !.ranges = J, !.retained = @ + r.length]
  <1>1. CASE I.indexed = ix /\ I.error \in {"ok", "overlap", "argument"} BY <1>1
  <1>2. CASE ~(I.indexed = ix /\ I.error \in {"ok", "overlap", "argument"})
    <2>1. I.error = "ok" /\ I.indexed = grown /\ e <= ix.length /\ ~Overlaps(ix, r)
      <3>1. ~(e > ix.length \/ Len(HostBytes(r)) # r.length) BY <1>2 DEF Insert
      <3>2. e \in Nat /\ ix.length \in Nat BY PositionsAre, StoreType DEF StoreOK
      <3>3. ~Overlaps(ix, r) BY <1>2 DEF Insert
      <3>4. I = [error |-> "ok", indexed |-> grown] BY <1>2 DEF Insert
      <3>5. QED BY <3>1, <3>2, <3>3, <3>4
    <2>2. PICK start, end \in Nat :
            /\ J \in RangeMaps /\ DOMAIN J = (DOMAIN R \ {start, e}) \cup {start}
            /\ \A s \in DOMAIN J : s # start => J[s] = R[s]
            /\ start + Len(J[start]) = end
            /\ From(J[start], start)
            /\ end <= ix.length /\ start <= r.offset /\ e <= end
            /\ \A s \in DOMAIN R : s < start => EndOf(ix, s) < start
            /\ \A s \in DOMAIN R : s > start => s = e \/ s > end
            /\ \A p \in Int : start <= p /\ p < end =>
                  p \in Positions(r) \/ p \in Indexed(ix)
            /\ start \in DOMAIN R => start < r.offset /\ EndOf(ix, start) = r.offset
            /\ e \in DOMAIN R => EndOf(ix, e) = end
      <3>1. e <= ix.length /\ ~Overlaps(ix, r) BY <2>1
      <3> HIDE DEF J, R
      <3>2. QED BY <3>1, JoinedIs DEF J, R
    <2>3. /\ r.offset \in Nat /\ r.length \in Nat /\ e \in Nat /\ r.offset < e /\ e = r.offset + r.length
          /\ \A p : p \in Positions(r) <=> p \in Int /\ r.offset <= p /\ p < e
      BY PositionsAre
    <2>4. /\ ix \in Stores /\ ix.length \in Nat /\ ix.retained \in Nat
          /\ \A s \in DOMAIN R : EndOf(ix, s) <= ix.length
          /\ \A s \in DOMAIN R : \A k \in 1..Len(R[s]) : R[s][k] = s + k - 1
          /\ \A s, t \in DOMAIN R : t > s => t > EndOf(ix, s)
          /\ ix.retained = Cardinality(Indexed(ix)) /\ IsFiniteSet(DOMAIN R)
      BY StoreType DEF StoreOK, IndexedSound
    <2>5. \A s \in DOMAIN R : s \in Nat /\ EndOf(ix, s) \in Nat /\ R[s] \in Seq(Int)
                              /\ EndOf(ix, s) = s + Len(R[s]) /\ Len(R[s]) \in Nat
      BY <2>4, StoreType
    <2> HIDE DEF J, e
    <2> DEFINE g == grown
    <2>6. /\ g.ranges = J /\ g.length = ix.length /\ g.retained = ix.retained + r.length
          /\ g \in Stores
      <3>1. ix \in [length : Nat, ranges : RangeMaps, retained : Nat] BY <2>4 DEF Stores
      <3>2. ix.retained + r.length \in Nat BY <2>3, <2>4
      <3>3. QED BY <2>2, <3>1, <3>2 DEF Stores
    <2> HIDE DEF g, R
    <2>7. \A s \in DOMAIN J : EndOf(g, s) = IF s = start THEN end ELSE EndOf(ix, s)
      BY <2>2, <2>6 DEF EndOf, R
    <2>8. \A s \in DOMAIN J : s \in Nat /\ (s # start => s \in DOMAIN R /\ s # e)
      BY <2>2, <2>5
    <2>9. \A s \in DOMAIN J : EndOf(g, s) <= g.length /\ EndOf(g, s) \in Nat
      BY <2>2, <2>4, <2>5, <2>6, <2>7, <2>8
    <2>10. \A s \in DOMAIN J : \A k \in 1..Len(J[s]) : J[s][k] = s + k - 1
      BY <2>2, <2>4, <2>8 DEF From
    <2>11. ASSUME NEW s \in DOMAIN J, NEW t \in DOMAIN J, t > s PROVE t > EndOf(g, s)
      <3>1. CASE s = start
        <4>1. t \in DOMAIN R /\ t # e /\ t \in Nat BY <2>8, <2>11, <3>1
        <4>2. QED BY <2>2, <2>7, <2>11, <3>1, <4>1
      <3>2. CASE s # start /\ t = start BY <2>2, <2>7, <2>8, <2>11, <3>2, <2>5
      <3>3. CASE s # start /\ t # start BY <2>4, <2>7, <2>8, <2>11, <3>3
      <3>4. QED BY <3>1, <3>2, <3>3
    <2>12. \A p : p \in Indexed(g) <=> p \in Indexed(ix) \/ p \in Positions(r)
      <3>1. \A p : p \in Indexed(g) <=> p \in Int /\ \E s \in DOMAIN J : s <= p /\ p < EndOf(g, s)
        BY <2>6, IndexedIs
      <3>2. \A p : p \in Indexed(ix) <=> p \in Int /\ \E s \in DOMAIN R : s <= p /\ p < EndOf(ix, s)
        BY <2>4, IndexedIs DEF R
      <3>3. ASSUME NEW p \in Indexed(g) PROVE p \in Indexed(ix) \/ p \in Positions(r)
        <4>1. PICK s \in DOMAIN J : p \in Int /\ s <= p /\ p < EndOf(g, s) BY <3>1
        <4>2. CASE s = start BY <2>2, <2>7, <4>1, <4>2
        <4>3. CASE s # start BY <2>7, <2>8, <3>2, <4>1, <4>3
        <4>4. QED BY <4>2, <4>3
      <3>4. ASSUME NEW p \in Positions(r) PROVE p \in Indexed(g)
        <4>1. p \in Int /\ start <= p /\ p < end /\ start \in DOMAIN J BY <2>2, <2>3
        <4>2. QED BY <2>7, <3>1, <4>1
      <3>5. ASSUME NEW p \in Indexed(ix) PROVE p \in Indexed(g)
        <4>1. PICK s \in DOMAIN R : p \in Int /\ s <= p /\ p < EndOf(ix, s) BY <3>2
        <4>2. CASE s \in DOMAIN J /\ s # start BY <2>7, <3>1, <4>1, <4>2
        <4>3. CASE s = start
          <5>1. start <= p /\ p < end /\ start \in DOMAIN J BY <2>2, <2>3, <4>1, <4>3
          <5>2. QED BY <2>7, <3>1, <4>1, <5>1
        <4>4. CASE s = e
          <5>1. start <= p /\ p < end /\ start \in DOMAIN J BY <2>2, <2>3, <4>1, <4>4
          <5>2. QED BY <2>7, <3>1, <4>1, <5>1
        <4>5. QED BY <2>2, <4>2, <4>3, <4>4
      <3>6. QED BY <3>3, <3>4, <3>5
    <2>13. \A p \in Indexed(ix) : p \notin Positions(r)
      <3>1. ASSUME NEW p \in Indexed(ix), p \in Positions(r) PROVE FALSE
        <4>1. PICK s \in DOMAIN R : p \in Int /\ s <= p /\ p < EndOf(ix, s)
          BY <2>4, IndexedIs DEF R
        <4>2. r.offset <= p /\ p < e BY <2>3, <3>1
        <4>3. ~(r.offset <= s /\ s < e)
          BY <2>1 DEF Overlaps, R, e
        <4>4. s < r.offset BY <2>3, <2>5, <4>1, <4>2, <4>3
        <4> DEFINE b == StartBefore(ix, r.offset)
        <4>5. b # None /\ b \in DOMAIN R /\ s <= b /\ b <= r.offset
          BY <2>3, <2>5, <4>4, BeforeIs DEF R
        <4>6. ~(b # None /\ EndOf(ix, b) > r.offset) BY <2>1 DEF Overlaps
        <4> HIDE DEF b
        <4>7. s = b \/ b > EndOf(ix, s) BY <2>4, <2>5, <4>5
        <4>8. b \in Nat /\ EndOf(ix, b) \in Nat /\ EndOf(ix, b) <= r.offset
          BY <2>3, <2>5, <4>5, <4>6
        <4>9. EndOf(ix, s) \in Nat /\ s \in Nat BY <2>5
        <4>10. EndOf(ix, s) <= r.offset
          <5>1. CASE s = b BY <4>8, <5>1
          <5>2. CASE b > EndOf(ix, s) BY <2>3, <4>5, <4>8, <4>9, <5>2
          <5>3. QED BY <4>7, <5>1, <5>2
        <4>11. QED BY <2>3, <4>1, <4>2, <4>9, <4>10
      <3>2. QED BY <3>1
    <2>14. g.retained = Cardinality(Indexed(g))
      <3>1. Indexed(g) = Indexed(ix) \cup Positions(r) BY <2>12
      <3>2. IsFiniteSet(Indexed(ix))
        <4>1. Indexed(ix) \subseteq 0..ix.length
          <5>1. ASSUME NEW p \in Indexed(ix) PROVE p \in 0..ix.length
            <6>1. PICK s \in DOMAIN R : p \in Int /\ s <= p /\ p < EndOf(ix, s)
              BY <2>4, IndexedIs DEF R
            <6>2. QED BY <2>4, <2>5, <6>1
          <5>2. QED BY <5>1
        <4>2. 0 \in Int /\ ix.length \in Int BY <2>4
        <4>3. IsFiniteSet(0..ix.length) BY <4>2, FS_Interval
        <4>4. QED BY <4>1, <4>3, FS_Subset
      <3>3. Positions(r) = r.offset..(e - 1) BY DEF Positions, e
      <3>4. IsFiniteSet(Positions(r)) /\ Cardinality(Positions(r)) = r.length
        <4> DEFINE last == e - 1
        <4>1. r.offset \in Int /\ last \in Int /\ ~(r.offset > last) /\ last - r.offset + 1 = r.length
          BY <2>3
        <4>2. Positions(r) = r.offset..last BY <3>3
        <4> HIDE DEF last
        <4>3. IsFiniteSet(r.offset..last) /\ Cardinality(r.offset..last) =
                 IF r.offset > last THEN 0 ELSE last - r.offset + 1
          BY <4>1, FS_Interval
        <4>4. QED BY <4>1, <4>2, <4>3
      <3>5. Indexed(ix) \cap Positions(r) = {} BY <2>13
      <3>6. Cardinality({}) = 0 BY FS_EmptySet
      <3>7. Cardinality(Indexed(ix) \cup Positions(r)) =
              Cardinality(Indexed(ix)) + Cardinality(Positions(r)) - Cardinality(Indexed(ix) \cap Positions(r))
        BY <3>2, <3>4, FS_Union, Zenon
      <3>8. Cardinality(Indexed(ix)) \in Nat BY <3>2, FS_CardinalityType
      <3>9. Cardinality(Indexed(g)) = Cardinality(Indexed(ix)) + r.length
        <4>1. Cardinality(Indexed(g)) = Cardinality(Indexed(ix)) + Cardinality(Positions(r)) - Cardinality({})
          BY <3>1, <3>5, <3>7
        <4>2. QED BY <2>3, <3>4, <3>6, <3>8, <4>1
      <3>10. QED BY <2>4, <2>6, <3>9
    <2>15. IsFiniteSet(DOMAIN J)
      <3>1. IsFiniteSet(DOMAIN R \ {start, e}) BY <2>4, FS_Subset DEF R
      <3>2. IsFiniteSet((DOMAIN R \ {start, e}) \cup {start}) BY <3>1, FS_AddElement
      <3>3. QED BY <2>2, <3>2
    <2>16. StoreOK(g)
      BY <2>6, <2>9, <2>10, <2>11, <2>14, <2>15 DEF StoreOK, IndexedSound
    <2>17. QED BY <2>1, <2>6, <2>16 DEF g
  <1>3. QED BY <1>1, <1>2

\* An empty store of a source.
LEMMA NewStore ==
  ASSUME NEW n \in Nat
  PROVE  StoreOK(NewIndexed(n)) /\ Indexed(NewIndexed(n)) = {} /\ NewIndexed(n).length = n
  <1> DEFINE ix == NewIndexed(n)
  <1>1. ix = [length |-> n, ranges |-> <<>>, retained |-> 0] BY DEF NewIndexed
  <1>2. DOMAIN ix.ranges = {} BY <1>1
  <1>3. ix.ranges \in [{} -> Seq(Int)] BY <1>1
  <1>4. ix.ranges \in RangeMaps BY <1>3 DEF RangeMaps
  <1>5. ix \in Stores BY <1>1, <1>4 DEF Stores
  <1>6. Indexed(ix) = {} BY <1>2 DEF Indexed
  <1>7. IsFiniteSet({}) /\ Cardinality({}) = 0 BY FS_EmptySet
  <1>8. ix.retained = 0 /\ ix.length = n BY <1>1
  <1> HIDE DEF ix
  <1>9. IndexedSound(ix) BY <1>2, <1>6, <1>7, <1>8 DEF IndexedSound
  <1>10. QED BY <1>2, <1>5, <1>6, <1>7, <1>8, <1>9 DEF StoreOK, ix

\* A read of a byte that is not there wants a range that begins with it.
LEMMA WindowMissing ==
  ASSUME NEW ix, StoreOK(ix), NEW p \in 0..(ix.length - 1), p \notin Indexed(ix)
  PROVE  WantedWindow(ix, p) \in Missing(ix)
  <1> DEFINE U == {ChunkBytes, ix.length - p}
             n == Min(U)
             q == HostRange(p, n)
  <1>1. ix.length \in Nat BY StoreType DEF StoreOK
  <1>2. U \in SUBSET Nat /\ U # {} /\ \A k \in U : k > 0 BY <1>1, PackageAssumption
  <1> HIDE DEF U
  <1>3. n \in U BY <1>2, Smallest
  <1> HIDE DEF n
  <1>4. n \in Nat \ {0}
    <2>1. n \in Nat /\ n > 0 BY <1>2, <1>3
    <2>2. QED BY <2>1
  <1>5. q \in HostRanges /\ q.offset = p BY <1>1, <1>4 DEF HostRange, HostRanges
  <1>6. p \in Positions(q) BY <1>1, <1>5, PositionsAre
  <1>7. WantedWindow(ix, p) = q BY DEF WantedWindow, n, U
  <1>8. QED BY <1>5, <1>6, <1>7 DEF Missing

-----------------------------------------------------------------------------
\* The entries that have been fetched, and where a directory says they are.
PartPaths == Paths \cup {Workbook, RelationshipsPath(Workbook)}
Entries == [name : PartPaths, bytes : Seq(Int)]
Fetches == [wanted : Seq(PartPaths), entries : Seq(Entries)]
IsIndex(index) == \A path \in DOMAIN index : index[path].header \in Nat /\ index[path].compressed \in Nat

\* How far an entry fetch has come.
FetchRecords(ix) == [error : {"ok", "more", "parse", "argument"}, value : {None} \cup Missing(ix), fetch : Fetches]
FetchStates(ix) == {s \in FetchRecords(ix) : s.error = "more" => s.value \in Missing(ix)}
FetchStep(f, ix, index) ==
    [p \in PartPaths \X FetchStates(ix) |-> FetchNext(f, ix, index, p[2], p[1])]

\* The length of a local header.
LEMMA HeaderIs == HeaderBytes \in Nat \ {0} /\ HeaderBytes \in Nat
  BY PackageAssumption

\* A range of at least one byte is one the host can be asked for.
LEMMA RangeIs ==
  ASSUME NEW a \in Nat, NEW b \in Nat \ {0}
  PROVE  HostRange(a, b) \in HostRanges
  BY DEF HostRange, HostRanges

\* What the local header of an entry says of its data.
LEMMA DataRangeIs ==
  ASSUME NEW f, IsPackage(f), NEW entry, entry.header \in Nat, entry.compressed \in Nat, NEW header
  PROVE  LET d == DataRange(f, entry, header)
         IN  \/ d.error = "ok" /\ d.value \in HostRanges
             \/ d.error \in {"parse", "argument"} /\ d.value = None
  <1> DEFINE local == f.headers[header[1]]
             range == HostRange(entry.header + HeaderBytes + local.names, entry.compressed)
             d == DataRange(f, entry, header)
  <1>1. CASE header[1] \notin DOMAIN f.headers BY <1>1 DEF DataRange, Refused
  <1>2. CASE header[1] \in DOMAIN f.headers
    <2>1. local \in LocalHeaders BY <1>2 DEF IsPackage
    <2>2. local.names \in Nat BY <2>1 DEF LocalHeaders
    <2>3. entry.header + HeaderBytes + local.names \in Nat BY <2>2, HeaderIs
    <2> DEFINE a == entry.header + HeaderBytes + local.names
    <2>4. d = IF local.encrypted \/ local.method # entry.method THEN Refused("parse")
              ELSE IF ~ValidRange(range, f.length) THEN Refused("argument") ELSE Found(range)
      BY <1>2 DEF DataRange
    <2> HIDE DEF d
    <2>5. ValidRange(range, f.length) => range \in HostRanges
      <3>1. range = HostRange(a, entry.compressed) OBVIOUS
      <3> HIDE DEF a, range
      <3>2. range.length = entry.compressed BY <3>1 DEF HostRange
      <3>3. ValidRange(range, f.length) => entry.compressed \in Nat \ {0}
        BY <3>2 DEF ValidRange
      <3>4. QED BY <2>3, <3>1, <3>3, RangeIs DEF a
    <2> HIDE DEF local, range
    <2>6. CASE local.encrypted \/ local.method # entry.method BY <2>4, <2>6 DEF Refused, d
    <2>7. CASE ~(local.encrypted \/ local.method # entry.method) /\ ~ValidRange(range, f.length)
      BY <2>4, <2>7 DEF Refused, d
    <2>8. CASE ~(local.encrypted \/ local.method # entry.method) /\ ValidRange(range, f.length)
      BY <2>4, <2>5, <2>8 DEF Found, d
    <2>9. QED BY <2>6, <2>7, <2>8
  <1>3. QED BY <1>1, <1>2

\* An entry is there, or a range that is missing is asked for.
LEMMA FetchEntryIs ==
  ASSUME NEW f, IsPackage(f), NEW ix, StoreOK(ix), NEW index, IsIndex(index), NEW path
  PROVE  LET g == FetchEntry(f, ix, index, path)
         IN  \/ g.error = "ok" /\ g.value \in Seq(Int)
             \/ g.error = "more" /\ g.value \in Missing(ix)
             \/ g.error \in {"parse", "argument"} /\ g.value = None
  <1> DEFINE entry == index[path]
             header == Need(ix, HostRange(entry.header, HeaderBytes))
             range == DataRange(f, entry, header.value)
             g == FetchEntry(f, ix, index, path)
  <1>1. g = IF path \notin DOMAIN index THEN Refused("parse")
            ELSE IF header.error # "ok" THEN header
            ELSE IF range.error # "ok" THEN range ELSE Need(ix, range.value)
    BY DEF FetchEntry
  <1>2. CASE path \notin DOMAIN index BY <1>1, <1>2 DEF Refused
  <1>3. CASE path \in DOMAIN index
    <2>1. entry.header \in Nat /\ entry.compressed \in Nat BY <1>3 DEF IsIndex
    <2>2. HostRange(entry.header, HeaderBytes) \in HostRanges BY <2>1, RangeIs, HeaderIs
    <2>3. \/ header.error = "ok" /\ header.value \in Seq(Int)
          \/ header.error = "more" /\ header.value \in Missing(ix)
      BY <2>2, NeedIs
    <2> HIDE DEF entry
    <2>4. \/ range.error = "ok" /\ range.value \in HostRanges
          \/ range.error \in {"parse", "argument"} /\ range.value = None
      BY <2>1, DataRangeIs
    <2> HIDE DEF header, range, g
    <2>5. CASE header.error # "ok" BY <1>1, <1>3, <2>3, <2>5 DEF g
    <2>6. CASE header.error = "ok" /\ range.error # "ok" BY <1>1, <1>3, <2>4, <2>6 DEF g
    <2>7. CASE header.error = "ok" /\ range.error = "ok"
      <3>1. range.value \in HostRanges BY <2>4, <2>7
      <3>2. \/ Need(ix, range.value).error = "ok" /\ Need(ix, range.value).value \in Seq(Int)
            \/ Need(ix, range.value).error = "more" /\ Need(ix, range.value).value \in Missing(ix)
        BY <3>1, NeedIs
      <3>3. QED BY <1>1, <1>3, <2>7, <3>2 DEF g
    <2>8. QED BY <2>5, <2>6, <2>7
  <1>4. QED BY <1>2, <1>3

\* What is left of a sequence after its first element.
LEMMA RestType ==
  ASSUME NEW S, NEW s \in Seq(S)
  PROVE  Rest(s) \in Seq(S)
  <1>1. CASE Len(s) = 0
    <2>1. SubSeq(s, 2, Len(s)) = <<>>
      <3>1. 2..Len(s) = {} BY <1>1
      <3>2. SubSeq(s, 2, 0) = <<>> OBVIOUS
      <3>3. QED BY <1>1, <3>2
    <2>2. QED BY <2>1 DEF Rest
  <1>2. CASE Len(s) # 0
    <2>1. 2 \in 1..(Len(s) + 1) /\ Len(s) \in (2 - 1)..Len(s) BY <1>2
    <2> DEFINE n == Len(s)
    <2>2. n \in (2 - 1)..Len(s) BY <2>1
    <2> HIDE DEF n
    <2>3. SubSeq(s, 2, n) \in Seq(S) BY <2>1, <2>2, SubSeqProperties
    <2>4. QED BY <2>3 DEF Rest, n
  <1>3. QED BY <1>1, <1>2

\* An entry fetch goes through the paths it wants and stops at the first range it lacks.
LEMMA FetchSteps ==
  ASSUME NEW f, IsPackage(f), NEW ix, StoreOK(ix), NEW index, IsIndex(index), NEW fetch \in Fetches
  PROVE  Stepwise(FetchStep(f, ix, index), PartPaths, FetchStates(ix), [error |-> "ok", value |-> None, fetch |-> fetch])
  <1> DEFINE V == FetchStates(ix)
             base == [error |-> "ok", value |-> None, fetch |-> fetch]
  <1>1. base \in V
    <2>1. base \in FetchRecords(ix) BY DEF FetchRecords
    <2>2. base.error # "more" OBVIOUS
    <2> HIDE DEF base
    <2>3. QED BY <2>1, <2>2 DEF FetchStates
  <1>2. ASSUME NEW path \in PartPaths, NEW s \in V PROVE FetchNext(f, ix, index, s, path) \in V
    <2> DEFINE g == FetchEntry(f, ix, index, path)
               n == FetchNext(f, ix, index, s, path)
    <2>1. /\ s \in FetchRecords(ix)
          /\ s.error = "more" => s.value \in Missing(ix)
      BY DEF FetchStates
    <2>2. s.fetch.wanted \in Seq(PartPaths) /\ s.fetch.entries \in Seq(Entries)
      BY <2>1 DEF FetchRecords, Fetches
    <2>3. Rest(s.fetch.wanted) \in Seq(PartPaths) BY <2>2, RestType
    <2>4. n = IF s.error # "ok" THEN s
              ELSE IF path \in Names(s.fetch.entries)
              THEN [s EXCEPT !.fetch = NewFetch(Rest(@.wanted), @.entries)]
              ELSE Taken(s, path, g)
      BY DEF FetchNext
    <2> SUFFICES n \in FetchRecords(ix) /\ (n.error = "more" => n.value \in Missing(ix))
      BY DEF FetchStates
    <2> HIDE DEF n, V, g
    <2>5. CASE s.error # "ok" BY <2>1, <2>4, <2>5
    <2>6. CASE s.error = "ok" /\ path \in Names(s.fetch.entries)
      <3>1. NewFetch(Rest(s.fetch.wanted), s.fetch.entries) \in Fetches
        BY <2>2, <2>3 DEF NewFetch, Fetches
      <3>2. n = [s EXCEPT !.fetch = NewFetch(Rest(s.fetch.wanted), s.fetch.entries)] BY <2>4, <2>6
      <3>3. n.error = "ok" BY <2>1, <2>6, <3>2 DEF FetchRecords
      <3>4. n \in FetchRecords(ix) BY <2>1, <3>1, <3>2 DEF FetchRecords
      <3>5. QED BY <3>3, <3>4
    <2>7. CASE s.error = "ok" /\ path \notin Names(s.fetch.entries)
      <3>1. n = Taken(s, path, g) BY <2>4, <2>7
      <3>2. \/ g.error = "ok" /\ g.value \in Seq(Int)
            \/ g.error = "more" /\ g.value \in Missing(ix)
            \/ g.error \in {"parse", "argument"} /\ g.value = None
        BY FetchEntryIs DEF g
      <3>3. CASE g.error = "ok"
        <4> DEFINE a == Append(s.fetch.entries, [name |-> path, bytes |-> g.value])
        <4>1. [name |-> path, bytes |-> g.value] \in Entries BY <3>2, <3>3 DEF Entries
        <4>2. a \in Seq(Entries) BY <2>2, <4>1
        <4> HIDE DEF a
        <4>3. NewFetch(Rest(s.fetch.wanted), a) \in Fetches BY <2>3, <4>2 DEF NewFetch, Fetches
        <4>4. n = [s EXCEPT !.fetch = NewFetch(Rest(s.fetch.wanted), a)] BY <3>1, <3>3 DEF Taken, a
        <4>5. n.error = "ok" BY <2>1, <2>7, <4>4 DEF FetchRecords
        <4>6. n \in FetchRecords(ix) BY <2>1, <4>3, <4>4 DEF FetchRecords
        <4>7. QED BY <4>5, <4>6
      <3>4. CASE g.error # "ok"
        <4>1. n = [s EXCEPT !.error = g.error, !.value = g.value] BY <3>1, <3>4 DEF Taken
        <4>2. g.error \in {"ok", "more", "parse", "argument"} /\ g.value \in {None} \cup Missing(ix) /\ (g.error = "more" => g.value \in Missing(ix))
          BY <3>2, <3>4
        <4>3. n \in FetchRecords(ix) /\ n.error = g.error /\ n.value = g.value
          BY <2>1, <4>1, <4>2 DEF FetchRecords
        <4>4. QED BY <4>2, <4>3
      <3>5. QED BY <3>3, <3>4
    <2>8. QED BY <2>5, <2>6, <2>7
  <1> HIDE DEF V, base
  <1>3. QED BY <1>1, <1>2 DEF Stepwise, FetchStep, V, base

\* The fold is that run.
LEMMA FetchIsRun ==
  ASSUME NEW f, IsPackage(f), NEW ix, StoreOK(ix), NEW index, IsIndex(index), NEW fetch \in Fetches,
         NEW s \in Seq(PartPaths), s = fetch.wanted
  PROVE  AdvanceFetch(f, ix, index, fetch) = Run(FetchStep(f, ix, index), [error |-> "ok", value |-> None, fetch |-> fetch], s)
  <1> DEFINE n == Len(s)
             h == FetchStep(f, ix, index)
             W == CHOOSE w : w = [u \in SUBSET (1..n) |->
                    IF u = {} THEN [error |-> "ok", value |-> None, fetch |-> fetch] ELSE FetchNext(f, ix, index, w[u \ {Max(u)}], s[Max(u)])]
  <1>1. s \in Seq(PartPaths) /\ DOMAIN s = 1..n /\ \A i \in 1..n : s[i] \in PartPaths OBVIOUS
  <1>2. AdvanceFetch(f, ix, index, fetch) = W[1..n]
    BY <1>1 DEF AdvanceFetch, FoldLeft, MapThenFoldSet
  <1>3. Stepwise(h, PartPaths, FetchStates(ix), [error |-> "ok", value |-> None, fetch |-> fetch])
    BY FetchSteps
  <1>4. \A e \in PartPaths, v \in FetchStates(ix) : h[<<e, v>>] = FetchNext(f, ix, index, v, e)
    BY DEF FetchStep
  <1> HIDE DEF h
  <1>g. PICK g : Solution(g, FetchStates(ix), h, [error |-> "ok", value |-> None, fetch |-> fetch], s)
    BY <1>1, <1>3, FoldSolved
  <1>5. /\ g \in [SUBSET (1..n) -> FetchStates(ix)] /\ g[{}] = [error |-> "ok", value |-> None, fetch |-> fetch]
        /\ \A u \in SUBSET (1..n) : u # {} =>
             /\ Max(u) \in 1..n /\ u \ {Max(u)} \in SUBSET (1..n)
             /\ g[u] = h[<<s[Max(u)], g[u \ {Max(u)}]>>]
    BY <1>g, Zenon DEF Solution
  <1> HIDE DEF n
  <1>6. \A u \in SUBSET (1..n) : u # {} => g[u] = FetchNext(f, ix, index, g[u \ {Max(u)}], s[Max(u)])
    <2> SUFFICES ASSUME NEW u \in SUBSET (1..n), u # {}
                 PROVE  g[u] = FetchNext(f, ix, index, g[u \ {Max(u)}], s[Max(u)])
      OBVIOUS
    <2>1. /\ s[Max(u)] \in PartPaths /\ g[u \ {Max(u)}] \in FetchStates(ix)
          /\ g[u] = h[<<s[Max(u)], g[u \ {Max(u)}]>>]
      BY <1>1, <1>5
    <2>2. QED BY <1>4, <2>1, Zenon
  <1>7. g = [u \in SUBSET (1..n) |->
               IF u = {} THEN [error |-> "ok", value |-> None, fetch |-> fetch] ELSE FetchNext(f, ix, index, g[u \ {Max(u)}], s[Max(u)])]
    BY <1>5, <1>6
  <1>8. W = [u \in SUBSET (1..n) |->
               IF u = {} THEN [error |-> "ok", value |-> None, fetch |-> fetch] ELSE FetchNext(f, ix, index, W[u \ {Max(u)}], s[Max(u)])]
    BY <1>7, Zenon
  <1> HIDE DEF W
  <1>9. W[{}] = [error |-> "ok", value |-> None, fetch |-> fetch] BY <1>8
  <1>10. \A u \in SUBSET (1..n) : u # {} /\ W[u \ {Max(u)}] \in FetchStates(ix) =>
            W[u] = h[<<s[Max(u)], W[u \ {Max(u)}]>>]
    <2> SUFFICES ASSUME NEW u \in SUBSET (1..n), u # {}, W[u \ {Max(u)}] \in FetchStates(ix)
                 PROVE  W[u] = h[<<s[Max(u)], W[u \ {Max(u)}]>>]
      OBVIOUS
    <2>1. W[u] = FetchNext(f, ix, index, W[u \ {Max(u)}], s[Max(u)]) BY <1>8
    <2>2. s[Max(u)] \in PartPaths BY <1>1, <1>5
    <2>3. QED BY <1>4, <2>1, <2>2, Zenon
  <1>11. Recurs(W, FetchStates(ix), h, [error |-> "ok", value |-> None, fetch |-> fetch], s)
    BY <1>9, <1>10 DEF Recurs, n
  <1>12. W[1..Len(s)] = Run(h, [error |-> "ok", value |-> None, fetch |-> fetch], s)
    BY <1>1, <1>3, <1>11, FoldIsRun
  <1>13. QED BY <1>2, <1>12 DEF h, n

\* An entry fetch asks for a range that is missing, or has what it wanted.
LEMMA AdvanceIs ==
  ASSUME NEW f, IsPackage(f), NEW ix, StoreOK(ix), NEW index, IsIndex(index), NEW fetch \in Fetches
  PROVE  /\ AdvanceFetch(f, ix, index, fetch).fetch \in Fetches
         /\ AdvanceFetch(f, ix, index, fetch).error = "more"
               => AdvanceFetch(f, ix, index, fetch).value \in Missing(ix)
  <1> DEFINE s == fetch.wanted
             base == [error |-> "ok", value |-> None, fetch |-> fetch]
             h == FetchStep(f, ix, index)
             V == FetchStates(ix)
  <1>1. s \in Seq(PartPaths) BY DEF Fetches
  <1>2. AdvanceFetch(f, ix, index, fetch) = Run(h, base, s) BY <1>1, FetchIsRun
  <1>3. Stepwise(h, PartPaths, V, base) BY FetchSteps
  <1> HIDE DEF h, base, s, V
  <1>4. Run(h, base, s) \in V BY <1>1, <1>3, RunFollows
  <1>5. QED BY <1>2, <1>4 DEF V, FetchStates, FetchRecords

-----------------------------------------------------------------------------
(* What an open does next. *)
Failures == {"parse", "limit", "unsupported", "argument", "unindexed", "closed"}

\* The phase that takes the range, and what a source is that was opened.
PhaseOK(f, phase, fetch) ==
    /\ phase \in {"detect", "central", "workbook", "xls"}
    /\ phase \in {"central", "workbook"} => f.kind = "xlsx"
    /\ phase = "xls" => f.kind = "xls"
    /\ phase = "workbook" => IsIndex(fetch.index) /\ fetch.fetch \in Fetches
SourceOK(f, s) ==
    /\ s.kind \in {"xls", "xlsx"} /\ s.kind = f.kind
    /\ s.kind = "xlsx" => IsIndex(s.index) /\ s.entries \in Seq(Entries) /\ s.tables \in Seq(Range(s.tables))
    /\ s.kind = "xls" => s.compact \in Seq(Int)
StepOK(f, ix, step) ==
    \/ step.end = "more" /\ step.range \in Missing(ix) /\ PhaseOK(f, step.phase, step.fetch)
    \/ step.end = "ok" /\ SourceOK(f, step)
    \/ step.end \notin {"more", "ok"}

\* A step that ends the open with an error is a lawful step.
LEMMA StopsIs == ASSUME NEW f, NEW ix, NEW error, error \notin {"more", "ok"} PROVE StepOK(f, ix, Stops(error))
  BY DEF StepOK, Stops

\* So is one that asks for a range that is not indexed.
LEMMA AsksIs ==
  ASSUME NEW f, NEW ix, NEW range \in Missing(ix), NEW phase, NEW fetch, PhaseOK(f, phase, fetch)
  PROVE  StepOK(f, ix, Asks(range, phase, fetch))
  BY DEF StepOK, Asks

\* What is assumed of a file, by its kind.
LEMMA DocumentIs ==
  ASSUME NEW f \in Files
  PROVE  /\ f.length \in Nat
         /\ f.kind = "xlsx" => IsPackage(f) /\ \A p \in DOMAIN f.parts : IsPart(f.parts[p])
         /\ f.kind = "xls" =>
              /\ f.reads \in Seq(0 .. f.length - 1)
              /\ f.streamBytes \in Nat /\ f.records \in Seq(Elements)
              /\ f.bound \in Seq(Range(f.bound)) /\ \A sheet \in Range(f.bound) : IsBound(sheet)
  BY FilesAssumption DEF IsDocument

\* The central directory, as its end record or the ZIP64 record says it lies.
LEMMA LocationIs ==
  ASSUME NEW f, NEW end, end.offset \in Nat, end.size \in Nat
  PROVE  LET c == CentralLocation(f, end)
         IN  \/ c.error = "ok" /\ c.value.range \in HostRanges
             \/ c.error \in Failures
  <1> DEFINE range == HostRange(end.offset, end.size)
             c == CentralLocation(f, end)
  <1>1. ValidRange(range, f.length) => range \in HostRanges
    <2>1. range.length = end.size BY DEF HostRange
    <2>2. ValidRange(range, f.length) => end.size \in Nat \ {0} BY <2>1 DEF ValidRange
    <2>3. QED BY <2>2, RangeIs
  <1>2. \/ c = Refused("limit")
        \/ c = Refused("argument")
        \/ ValidRange(range, f.length) /\ c = Found([range |-> range, entries |-> end.entries])
    BY Zenon DEF CentralLocation
  <1> HIDE DEF c, range
  <1>3. CASE c = Refused("limit") BY <1>3 DEF Refused, Failures, c
  <1>4. CASE c = Refused("argument") BY <1>4 DEF Refused, Failures, c
  <1>5. CASE ValidRange(range, f.length) /\ c = Found([range |-> range, entries |-> end.entries])
    BY <1>1, <1>5 DEF Found, c
  <1>6. QED BY <1>2, <1>3, <1>4, <1>5

\* CentralLocation answers, whatever the end record holds.
LEMMA LocationEnds ==
  ASSUME NEW f, NEW end
  PROVE  CentralLocation(f, end).error \in Failures \cup {"ok"}
  <1> DEFINE c == CentralLocation(f, end)
  <1>1. \/ c = Refused("limit") \/ c = Refused("argument")
        \/ c = Found([range |-> HostRange(end.offset, end.size), entries |-> end.entries])
    BY Zenon DEF CentralLocation
  <1>2. QED BY <1>1 DEF Refused, Found, Failures

\* A ZIP64 end record is read only when there is one, and read like any other.
LEMMA Zip64Is ==
  ASSUME NEW f, NEW tail, NEW at, NEW end
  PROVE  \/ Zip64End(f, tail, at, end).error \in Failures
         \/ end.zip64 # None /\ Zip64End(f, tail, at, end) = CentralLocation(f, end.zip64)
  <1> DEFINE z == Zip64End(f, tail, at, end)
  <1>1. \/ z = Refused("parse") \/ z = Refused("unsupported")
        \/ end.zip64 # None /\ z = CentralLocation(f, end.zip64)
    BY Zenon DEF Zip64End
  <1>2. QED BY <1>1 DEF Refused, Failures

\* Whatever the tail holds, the search of the end record ends.
LEMMA FindEndEnds ==
  ASSUME NEW f, NEW tail, NEW at
  PROVE  FindEnd(f, tail, at).error \in Failures \cup {"ok"}
  <1> DEFINE ending == {k \in 1 .. Len(tail) - EndBytes + 1 :
                          /\ tail[k] \in DOMAIN f.ends
                          /\ k - 1 + EndBytes + f.ends[tail[k]].comment = Len(tail)}
             end == f.ends[tail[Max(ending)]]
             r == FindEnd(f, tail, at)
  <1>1. \/ r = Refused("parse") \/ r = Refused("unsupported")
        \/ r = Zip64End(f, tail, at, end) \/ r = CentralLocation(f, end)
    BY Zenon DEF FindEnd
  <1> HIDE DEF r, end
  <1>2. CASE r = Refused("parse") \/ r = Refused("unsupported") BY <1>2 DEF Refused, Failures, r
  <1>3. CASE r = CentralLocation(f, end) BY <1>3, LocationEnds DEF r
  <1>4. CASE r = Zip64End(f, tail, at, end)
    <2>1. Zip64End(f, tail, at, end).error \in Failures \cup {"ok"} BY Zip64Is, LocationEnds
    <2>2. QED BY <1>4, <2>1 DEF r
  <1>5. QED BY <1>1, <1>2, <1>3, <1>4

\* An end record that is found gives a range of the central directory to ask for.
LEMMA FindEndIs ==
  ASSUME NEW f, IsPackage(f), NEW tail \in Seq(Int), NEW at
  PROVE  \/ FindEnd(f, tail, at).error = "ok" /\ FindEnd(f, tail, at).value.range \in HostRanges
         \/ FindEnd(f, tail, at).error \in Failures
  <1> DEFINE n == Len(tail) - EndBytes + 1
             ending == {k \in 1 .. n :
                          /\ tail[k] \in DOMAIN f.ends
                          /\ k - 1 + EndBytes + f.ends[tail[k]].comment = Len(tail)}
             end == f.ends[tail[Max(ending)]]
             r == FindEnd(f, tail, at)
  <1>1. \/ r = Refused("parse") \/ r = Refused("unsupported")
        \/ ending # {} /\ r = Zip64End(f, tail, at, end)
        \/ ending # {} /\ r = CentralLocation(f, end)
    BY Zenon DEF FindEnd
  <1>2. ASSUME ending # {}
        PROVE  /\ end.offset \in Nat /\ end.size \in Nat
               /\ end.zip64 # None => end.zip64.offset \in Nat /\ end.zip64.size \in Nat
    <2>1. n \in Int
      <3>1. EndBytes \in Nat BY PackageAssumption
      <3>2. QED BY <3>1
    <2> HIDE DEF n
    <2>2. 1 \in Int /\ IsFiniteSet(1..n) BY <2>1, FS_Interval
    <2>3. ending \in SUBSET (1..n) /\ ending \in SUBSET Int BY <2>1
    <2>4. \A m \in ending : tail[m] \in DOMAIN f.ends OBVIOUS
    <2> HIDE DEF ending
    <2>5. IsFiniteSet(ending) BY <2>2, <2>3, FS_Subset
    <2> DEFINE k == Max(ending)
    <2>6. k \in ending BY <1>2, <2>3, <2>5, Greatest
    <2> HIDE DEF k
    <2>7. end \in EndRecords BY <2>4, <2>6 DEF IsPackage, k
    <2> HIDE DEF end
    <2>8. end.offset \in Nat /\ end.size \in Nat /\ end.zip64 \in Zip64Records \cup {None}
      BY <2>7 DEF EndRecords
    <2>9. QED BY <2>8 DEF Zip64Records
  <1> HIDE DEF r, end, ending
  <1>3. CASE r = Refused("parse") \/ r = Refused("unsupported") BY <1>3 DEF Refused, Failures, r
  <1>4. CASE ending # {} /\ r = CentralLocation(f, end) BY <1>2, <1>4, LocationIs DEF r
  <1>5. CASE ending # {} /\ r = Zip64End(f, tail, at, end)
    <2>1. CASE r.error \in Failures BY <2>1 DEF r
    <2>2. CASE r.error \notin Failures
      <3>1. end.zip64 # None /\ r = CentralLocation(f, end.zip64) BY <1>5, <2>2, Zip64Is
      <3>2. QED BY <1>2, <1>5, <3>1, LocationIs DEF r
    <2>3. QED BY <2>1, <2>2
  <1>6. QED BY <1>1, <1>3, <1>4, <1>5

\* A central directory that was read says where its entries are.
LEMMA EntryEnds ==
  ASSUME NEW f, NEW entry
  PROVE  /\ EntryError(f, entry) \in Failures \cup {"ok"}
         /\ EntryError(f, entry) = "ok" => Sizes(entry) # None
  <1>1. \/ EntryError(f, entry) \in Failures
        \/ EntryError(f, entry) = "ok" /\ Sizes(entry) # None
    BY DEF EntryError, Failures
  <1>2. QED BY <1>1 DEF Failures

\* ParseCentral gives an index with a header and a size for every path, or refuses.
LEMMA CentralIs ==
  ASSUME NEW f, IsPackage(f), NEW bytes, NEW expected
  PROVE  LET c == ParseCentral(f, bytes, expected)
         IN  \/ c.error = "ok" /\ IsIndex(c.value)
             \/ c.error \in Failures
  <1> DEFINE records == IF bytes[1] \in DOMAIN f.central THEN f.central[bytes[1]] ELSE <<>>
             names == {records[k].name : k \in 1 .. Len(records)}
             wrong == {k \in 1 .. Len(records) :
                          \/ EntryError(f, records[k]) # "ok"
                          \/ \E j \in 1 .. k - 1 : records[j].name = records[k].name}
             first == EntryError(f, records[Min(wrong)])
             named(name) == CHOOSE k \in 1 .. Len(records) : records[k].name = name
             index == [name \in names |->
                 [compressed |-> Sizes(records[named(name)]).compressed,
                  expanded |-> Sizes(records[named(name)]).expanded,
                  header |-> Sizes(records[named(name)]).header,
                  method |-> records[named(name)].method]]
             c == ParseCentral(f, bytes, expected)
  <1>1. \/ c = Refused("parse")
        \/ first # "ok" /\ c = Refused(first)
        \/ wrong = {} /\ c = Found(index)
    BY Zenon DEF ParseCentral
  <1>2. records \in Seq(CentralEntries) BY DEF IsPackage
  <1> HIDE DEF records
  <1>3. Len(records) \in Nat /\ \A k \in 1..Len(records) : records[k] \in CentralEntries BY <1>2
  <1>4. CASE first # "ok" /\ c = Refused(first)
    <2>1. first \in Failures \cup {"ok"} BY EntryEnds
    <2> HIDE DEF first
    <2>2. c.error = first BY <1>4 DEF Refused
    <2> HIDE DEF c
    <2>3. c.error \in Failures BY <1>4, <2>1, <2>2
    <2>4. QED BY <2>3 DEF c
  <1>5. CASE wrong = {} /\ c = Found(index)
    <2>1. ASSUME NEW k \in 1..Len(records)
          PROVE  Sizes(records[k]).header \in Nat /\ Sizes(records[k]).compressed \in Nat
      <3>1. EntryError(f, records[k]) = "ok" BY <1>5
      <3>2. Sizes(records[k]) # None BY <3>1, EntryEnds
      <3>3. records[k] \in CentralEntries BY <1>3
      <3>4. /\ records[k].header \in Nat /\ records[k].compressed \in Nat
            /\ records[k].extra \in EntrySizes \cup {None}
        BY <3>3 DEF CentralEntries
      <3>5. QED BY <3>2, <3>4 DEF Sizes, EntrySizes
    <2>2. ASSUME NEW name \in names PROVE named(name) \in 1..Len(records)
      <3>1. \E k \in 1..Len(records) : records[k].name = name OBVIOUS
      <3>2. QED BY <3>1
    <2> HIDE DEF named
    <2>3. \A name \in names : index[name].header \in Nat /\ index[name].compressed \in Nat
      BY <2>1, <2>2
    <2>4. DOMAIN index = names OBVIOUS
    <2> HIDE DEF index
    <2>5. IsIndex(index) BY <2>3, <2>4 DEF IsIndex
    <2>6. QED BY <1>5, <2>5 DEF Found
  <1>6. CASE c = Refused("parse") BY <1>6 DEF Refused, Failures
  <1>7. QED BY <1>1, <1>4, <1>5, <1>6

-----------------------------------------------------------------------------
(* The layouts of the sheets, and what they are counted to hold. *)

\* The values of a finite function, and the products of numbers.
LEMMA ImageFinite ==
  ASSUME NEW f, IsFiniteSet(DOMAIN f)
  PROVE  IsFiniteSet({f[x] : x \in DOMAIN f})
  <1> DEFINE S == DOMAIN f
             T == {f[x] : x \in S}
             g == [x \in S |-> f[x]]
  <1>1. g \in [S -> T] /\ \A t \in T : \E x \in S : g[x] = t OBVIOUS
  <1>2. g \in Surjection(S, T) BY <1>1 DEF Surjection
  <1> HIDE DEF g
  <1>3. QED BY <1>2, FS_Surjection

\* The product of two numbers is a number.
LEMMA Product == ASSUME NEW a \in Nat, NEW b \in Nat PROVE a * b \in Nat
  OBVIOUS

\* The greater of two numbers.
LEMMA GreaterOf ==
  ASSUME NEW a \in Nat, NEW b \in Nat
  PROVE  Max({a, b}) \in Nat /\ Max({a, b}) >= a /\ Max({a, b}) >= b
  <1> DEFINE U == {a, b}
  <1>1. IsFiniteSet({a}) BY FS_Singleton
  <1>2. IsFiniteSet({a} \cup {b}) BY <1>1, FS_AddElement
  <1>3. {a} \cup {b} = U OBVIOUS
  <1>4. IsFiniteSet(U) BY <1>2, <1>3
  <1>5. U \in SUBSET Int /\ U # {} /\ U \in SUBSET Nat /\ a \in U /\ b \in U OBVIOUS
  <1> HIDE DEF U
  <1>6. Max(U) \in U /\ \A k \in U : k <= Max(U) BY <1>4, <1>5, Greatest
  <1>7. QED BY <1>5, <1>6 DEF U

SheetLayouts ==
    {l \in [rows : Nat, columns : Nat, axisRows : SUBSET Nat, axisColumns : SUBSET Nat,
            styles : SUBSET (Nat \X Nat), merged : Seq(Regions), frozen : Nat \X Nat] :
        IsFiniteSet(l.axisRows) /\ IsFiniteSet(l.axisColumns) /\ IsFiniteSet(l.styles)}
LayoutResults == [error : {"ok"}, value : SheetLayouts] \cup [error : {"parse", "limit"}, value : {None}]

\* The fields of a sheet layout: finite axes, finite styles.
LEMMA LayoutType ==
  ASSUME NEW l \in SheetLayouts
  PROVE  /\ l.rows \in Nat /\ l.columns \in Nat
         /\ l.axisRows \in SUBSET Nat /\ IsFiniteSet(l.axisRows)
         /\ l.axisColumns \in SUBSET Nat /\ IsFiniteSet(l.axisColumns)
         /\ l.styles \in SUBSET (Nat \X Nat) /\ IsFiniteSet(l.styles)
         /\ l.merged \in Seq(Regions) /\ l.frozen \in Nat \X Nat
  BY DEF SheetLayouts

\* A found layout and the two refusals are results.
LEMMA ResultIs ==
  /\ \A l \in SheetLayouts : Found(l) \in LayoutResults
  /\ Refused("parse") \in LayoutResults /\ Refused("limit") \in LayoutResults
  BY DEF LayoutResults, Found, Refused

\* A result is a layout or one of the refusals.
LEMMA ResultType ==
  ASSUME NEW r \in LayoutResults
  PROVE  (r.error = "ok" /\ r.value \in SheetLayouts) \/ r.error \in {"parse", "limit"}
  BY DEF LayoutResults

\* The layout a sheet starts with.
LEMMA NewLayoutType == NewLayout \in SheetLayouts
  <1>1. IsFiniteSet({}) BY FS_EmptySet
  <1>2. <<>> \in Seq(Regions) OBVIOUS
  <1>3. QED BY <1>1, <1>2 DEF NewLayout, SheetLayouts

\* Extend grows a layout within the limits of the sheet, or refuses.
LEMMA ExtendIs ==
  ASSUME NEW l \in SheetLayouts, NEW rows \in Nat, NEW columns \in Nat
  PROVE  Extend(l, rows, columns) \in LayoutResults
  <1> DEFINE a == Max({l.rows, rows})
             b == Max({l.columns, columns})
             wide == [l EXCEPT !.rows = Max({@, rows}), !.columns = Max({@, columns})]
  <1>1. a \in Nat /\ b \in Nat BY LayoutType, GreaterOf
  <1>2. wide = [l EXCEPT !.rows = a, !.columns = b] OBVIOUS
  <1> HIDE DEF a, b
  <1>3. wide \in SheetLayouts BY <1>1, <1>2 DEF SheetLayouts
  <1>4. Extend(l, rows, columns) \in {Refused("limit"), Found(wide)} BY DEF Extend
  <1> HIDE DEF wide
  <1>5. QED BY <1>3, <1>4, ResultIs

\* The fields of an element of a worksheet part.
LEMMA ElementType ==
  ASSUME NEW e \in Elements
  PROVE  /\ e.row \in Nat /\ e.first \in Nat /\ e.last \in Nat /\ e.declared \in Nat
         /\ e.regions \in Seq(Regions) /\ e.of \in STRING /\ e.row + 1 \in Nat /\ e.last + 1 \in Nat
  BY DEF Elements

\* A run of cells leaves a layout of finite sets, or refuses.
LEMMA ApplyCellsIs ==
  ASSUME NEW l \in SheetLayouts, NEW e \in Elements
  PROVE  ApplyCells(l, e) \in LayoutResults
  <1> DEFINE wide == Extend(l, e.row + 1, e.last + 1)
             styled == IF e.active THEN {<<e.row, c>> : c \in e.first .. e.last} ELSE {}
             styles == l.styles \cup styled
             grown == [wide.value EXCEPT !.styles = styles]
             r == ApplyCells(l, e)
  <1>1. wide \in LayoutResults BY ElementType, ExtendIs
  <1>2. r \in {Refused("parse"), wide, Refused("limit")} \/ (wide.error = "ok" /\ r = Found(grown))
    BY Zenon DEF ApplyCells
  <1>3. ASSUME wide.error = "ok" PROVE grown \in SheetLayouts
    <2>1. wide.value \in SheetLayouts BY <1>1, <1>3, ResultType
    <2>2. styled \in SUBSET (Nat \X Nat) BY ElementType
    <2>3. IsFiniteSet(styled)
      <3>1. CASE e.active
        <4> DEFINE f == [c \in e.first .. e.last |-> <<e.row, c>>]
        <4>1. e.first \in Int /\ e.last \in Int BY ElementType
        <4>2. IsFiniteSet(e.first .. e.last) BY <4>1, FS_Interval
        <4>3. DOMAIN f = e.first .. e.last /\ styled = {f[c] : c \in DOMAIN f} BY <3>1
        <4> HIDE DEF f
        <4>4. QED BY <4>2, <4>3, ImageFinite
      <3>2. CASE ~e.active BY <3>2, FS_EmptySet
      <3>3. QED BY <3>1, <3>2
    <2> HIDE DEF styled
    <2>4. IsFiniteSet(styles) /\ styles \in SUBSET (Nat \X Nat) BY <2>2, <2>3, LayoutType, FS_Union
    <2> HIDE DEF styles, wide
    <2> DEFINE w == wide.value
    <2>5. w \in SheetLayouts BY <2>1
    <2> HIDE DEF w
    <2>6. [w EXCEPT !.styles = styles] \in SheetLayouts BY <2>4, <2>5 DEF SheetLayouts
    <2>7. QED BY <2>6 DEF w
  <1> HIDE DEF r, wide, grown
  <1>4. QED BY <1>1, <1>2, <1>3, ResultIs DEF r

\* So does a row element.
LEMMA ApplyRowIs ==
  ASSUME NEW l \in SheetLayouts, NEW e \in Elements
  PROVE  ApplyRow(l, e) \in LayoutResults
  <1> DEFINE added == IF e.active THEN {e.row} ELSE {}
             rows == l.axisRows \cup added
             grown == [l EXCEPT !.axisRows = rows]
  <1>1. IsFiniteSet(added) BY FS_EmptySet, FS_Singleton
  <1>2. added \in SUBSET Nat BY ElementType
  <1>3. ApplyRow(l, e) \in {Refused("limit"), Found(grown)} BY Zenon DEF ApplyRow
  <1> HIDE DEF added
  <1>4. IsFiniteSet(rows) /\ rows \in SUBSET Nat BY <1>1, <1>2, LayoutType, FS_Union
  <1> HIDE DEF rows
  <1>5. grown \in SheetLayouts BY <1>4 DEF SheetLayouts
  <1> HIDE DEF grown
  <1>6. QED BY <1>3, <1>5, ResultIs

\* So does a column element, which may stand for many columns.
LEMMA ApplyColumnsIs ==
  ASSUME NEW l \in SheetLayouts, NEW e \in Elements, NEW format
  PROVE  ApplyColumns(l, e, format) \in LayoutResults
  <1> DEFINE added == IF e.active THEN e.first .. e.last ELSE {}
             columns == l.axisColumns \cup added
             grown == [l EXCEPT !.axisColumns = columns]
  <1>1. e.first \in Int /\ e.last \in Int /\ e.first \in Nat BY ElementType
  <1>2. IsFiniteSet(added) BY <1>1, FS_EmptySet, FS_Interval
  <1>3. added \in SUBSET Nat BY <1>1
  <1>4. ApplyColumns(l, e, format) \in {Refused("limit"), Refused("parse"), Found(grown)}
    BY Zenon DEF ApplyColumns
  <1> HIDE DEF added
  <1>5. IsFiniteSet(columns) /\ columns \in SUBSET Nat BY <1>2, <1>3, LayoutType, FS_Union
  <1> HIDE DEF columns
  <1>6. grown \in SheetLayouts BY <1>5 DEF SheetLayouts
  <1> HIDE DEF grown
  <1>7. QED BY <1>4, <1>6, ResultIs

\* So does one merged region.
LEMMA ApplyRegionIs ==
  ASSUME NEW l \in SheetLayouts, NEW region \in Regions
  PROVE  ApplyRegion(l, region) \in LayoutResults
  <1> DEFINE wide == Extend(l, region.bottom, region.right)
             grown == [wide.value EXCEPT !.merged = Append(@, region)]
             r == ApplyRegion(l, region)
  <1>1. region.bottom \in Nat /\ region.right \in Nat BY DEF Regions
  <1>2. wide \in LayoutResults BY <1>1, ExtendIs
  <1>3. r \in {Refused("limit"), wide, Found(l)} \/ (wide.error = "ok" /\ r = Found(grown))
    BY Zenon DEF ApplyRegion
  <1> HIDE DEF wide
  <1>4. ASSUME wide.error = "ok" PROVE grown \in SheetLayouts
    <2> DEFINE w == wide.value
    <2>1. w \in SheetLayouts BY <1>2, <1>4, ResultType
    <2> HIDE DEF w
    <2>2. Append(w.merged, region) \in Seq(Regions) BY <2>1, LayoutType
    <2> DEFINE m == Append(w.merged, region)
    <2> HIDE DEF m
    <2>3. [w EXCEPT !.merged = m] \in SheetLayouts BY <2>1, <2>2 DEF SheetLayouts, m
    <2>4. QED BY <2>3 DEF w, m
  <1> HIDE DEF r, grown
  <1>5. QED BY <1>2, <1>3, <1>4, ResultIs DEF r

MergeStep == [p \in Regions \X LayoutResults |-> ApplyMerge(p[2], p[1])]

\* The merged regions of an element are applied one by one.
LEMMA MergeSteps == ASSUME NEW base \in LayoutResults PROVE Stepwise(MergeStep, Regions, LayoutResults, base)
  <1>1. ASSUME NEW region \in Regions, NEW r \in LayoutResults PROVE ApplyMerge(r, region) \in LayoutResults
    <2>1. CASE r.error = "ok"
      <3>1. r.value \in SheetLayouts BY <2>1, ResultType
      <3>2. QED BY <2>1, <3>1, ApplyRegionIs DEF ApplyMerge
    <2>2. CASE r.error # "ok" BY <2>2 DEF ApplyMerge
    <2>3. QED BY <2>1, <2>2
  <1>2. QED BY <1>1 DEF Stepwise, MergeStep

\* The fold is that run.
LEMMA MergeIsRun ==
  ASSUME NEW base \in LayoutResults, NEW s \in Seq(Regions)
  PROVE  FoldLeft(ApplyMerge, base, s) = Run(MergeStep, base, s)
  <1> DEFINE n == Len(s)
             h == MergeStep
             W == CHOOSE w : w = [u \in SUBSET (1..n) |->
                    IF u = {} THEN base ELSE ApplyMerge(w[u \ {Max(u)}], s[Max(u)])]
  <1>1. s \in Seq(Regions) /\ DOMAIN s = 1..n /\ \A i \in 1..n : s[i] \in Regions OBVIOUS
  <1>2. FoldLeft(ApplyMerge, base, s) = W[1..n]
    BY <1>1 DEF FoldLeft, MapThenFoldSet
  <1>3. Stepwise(h, Regions, LayoutResults, base) BY MergeSteps
  <1>4. \A e \in Regions, v \in LayoutResults : h[<<e, v>>] = ApplyMerge(v, e)
    BY DEF MergeStep
  <1> HIDE DEF h
  <1>g. PICK g : Solution(g, LayoutResults, h, base, s) BY <1>1, <1>3, FoldSolved
  <1>5. /\ g \in [SUBSET (1..n) -> LayoutResults] /\ g[{}] = base
        /\ \A u \in SUBSET (1..n) : u # {} =>
             /\ Max(u) \in 1..n /\ u \ {Max(u)} \in SUBSET (1..n)
             /\ g[u] = h[<<s[Max(u)], g[u \ {Max(u)}]>>]
    BY <1>g, Zenon DEF Solution
  <1> HIDE DEF n
  <1>6. \A u \in SUBSET (1..n) : u # {} => g[u] = ApplyMerge(g[u \ {Max(u)}], s[Max(u)])
    <2> SUFFICES ASSUME NEW u \in SUBSET (1..n), u # {}
                 PROVE  g[u] = ApplyMerge(g[u \ {Max(u)}], s[Max(u)])
      OBVIOUS
    <2>1. /\ s[Max(u)] \in Regions /\ g[u \ {Max(u)}] \in LayoutResults
          /\ g[u] = h[<<s[Max(u)], g[u \ {Max(u)}]>>]
      BY <1>1, <1>5
    <2>2. QED BY <1>4, <2>1, Zenon
  <1>7. g = [u \in SUBSET (1..n) |->
               IF u = {} THEN base ELSE ApplyMerge(g[u \ {Max(u)}], s[Max(u)])]
    BY <1>5, <1>6
  <1>8. W = [u \in SUBSET (1..n) |->
               IF u = {} THEN base ELSE ApplyMerge(W[u \ {Max(u)}], s[Max(u)])]
    BY <1>7, Zenon
  <1> HIDE DEF W
  <1>9. W[{}] = base BY <1>8
  <1>10. \A u \in SUBSET (1..n) : u # {} /\ W[u \ {Max(u)}] \in LayoutResults =>
            W[u] = h[<<s[Max(u)], W[u \ {Max(u)}]>>]
    <2> SUFFICES ASSUME NEW u \in SUBSET (1..n), u # {}, W[u \ {Max(u)}] \in LayoutResults
                 PROVE  W[u] = h[<<s[Max(u)], W[u \ {Max(u)}]>>]
      OBVIOUS
    <2>1. W[u] = ApplyMerge(W[u \ {Max(u)}], s[Max(u)]) BY <1>8
    <2>2. s[Max(u)] \in Regions BY <1>1, <1>5
    <2>3. QED BY <1>4, <2>1, <2>2, Zenon
  <1>11. Recurs(W, LayoutResults, h, base, s) BY <1>9, <1>10 DEF Recurs, n
  <1>12. W[1..Len(s)] = Run(h, base, s) BY <1>1, <1>3, <1>11, FoldIsRun
  <1>13. QED BY <1>2, <1>12 DEF h, n

\* Every kind of element leaves a layout, or refuses.
LEMMA ApplyElementIs ==
  ASSUME NEW l \in SheetLayouts, NEW e \in Elements, NEW format
  PROVE  ApplyElement(l, e, format) \in LayoutResults
  <1> DEFINE n == Min({e.declared, Len(e.regions)})
             regions == SubSeq(e.regions, 1, n)
             framed == IF format = "xls" \/ e.active
                       THEN [l EXCEPT !.frozen = <<e.row, e.first>>] ELSE l
             r == ApplyElement(l, e, format)
  <1>1. /\ e.row \in Nat /\ e.first \in Nat /\ e.last \in Nat /\ e.declared \in Nat
        /\ e.regions \in Seq(Regions)
    BY ElementType
  <1>2. regions \in Seq(Regions)
    <2> DEFINE U == {e.declared, Len(e.regions)}
    <2>1. U \in SUBSET Nat /\ U # {} /\ Len(e.regions) \in U BY <1>1
    <2> HIDE DEF U
    <2>2. Min(U) \in U /\ Min(U) <= Len(e.regions) BY <2>1, Smallest
    <2>3. n \in Nat /\ n <= Len(e.regions) BY <2>1, <2>2 DEF U
    <2> HIDE DEF n
    <2> DEFINE s == e.regions
    <2>4. s \in Seq(Regions) /\ 1 \in 1..(Len(s) + 1) /\ n \in (1 - 1)..Len(s) BY <1>1, <2>3
    <2> HIDE DEF s
    <2>5. SubSeq(s, 1, n) \in Seq(Regions) BY <2>4, SubSeqProperties
    <2>6. QED BY <2>5 DEF s
  <1>3. ApplyRegions(l, e) \in LayoutResults
    <2> DEFINE base == Found(l)
    <2>1. base \in LayoutResults BY ResultIs
    <2>2. ApplyRegions(l, e) = FoldLeft(ApplyMerge, base, regions) BY DEF ApplyRegions
    <2> HIDE DEF base, regions
    <2>3. FoldLeft(ApplyMerge, base, regions) = Run(MergeStep, base, regions)
      BY <1>2, <2>1, MergeIsRun
    <2>4. Stepwise(MergeStep, Regions, LayoutResults, base) BY <2>1, MergeSteps
    <2>5. Run(MergeStep, base, regions) \in LayoutResults BY <1>2, <2>4, RunFollows
    <2>6. QED BY <2>2, <2>3, <2>5
  <1>4. framed \in SheetLayouts
    <2>1. <<e.row, e.first>> \in Nat \X Nat BY <1>1
    <2>2. [l EXCEPT !.frozen = <<e.row, e.first>>] \in SheetLayouts BY <2>1 DEF SheetLayouts
    <2>3. QED BY <2>2
  <1> HIDE DEF framed, r
  <1>5. CASE e.kind = "dimension" BY <1>1, <1>5, ExtendIs DEF ApplyElement
  <1>6. CASE e.kind = "cells" BY <1>6, ApplyCellsIs DEF ApplyElement
  <1>7. CASE e.kind = "row" BY <1>7, ApplyRowIs DEF ApplyElement
  <1>8. CASE e.kind = "columns" BY <1>8, ApplyColumnsIs DEF ApplyElement
  <1>9. CASE e.kind = "merge" BY <1>3, <1>9 DEF ApplyElement
  <1>10. CASE e.kind = "pane"
    <2>1. ApplyElement(l, e, format) = Found(framed) BY <1>10 DEF ApplyElement, framed
    <2>2. QED BY <1>4, <2>1, ResultIs
  <1>11. CASE e.kind = "truncated" BY <1>11, ResultIs DEF ApplyElement
  <1>12. CASE e.kind \notin {"dimension", "cells", "row", "columns", "merge", "pane", "truncated"}
    <2>1. ApplyElement(l, e, format) = Found(l) BY <1>12 DEF ApplyElement
    <2>2. QED BY <2>1, ResultIs
  <1>13. QED BY <1>5, <1>6, <1>7, <1>8, <1>9, <1>10, <1>11, <1>12

LayoutStep(format) == [p \in Elements \X LayoutResults |-> LayoutNext(p[2], p[1], format)]

\* The elements of a part are applied one by one.
LEMMA LayoutSteps == ASSUME NEW format PROVE Stepwise(LayoutStep(format), Elements, LayoutResults, Found(NewLayout))
  <1>1. ASSUME NEW e \in Elements, NEW r \in LayoutResults PROVE LayoutNext(r, e, format) \in LayoutResults
    <2>1. CASE r.error = "ok"
      <3>1. r.value \in SheetLayouts BY <2>1, ResultType
      <3>2. QED BY <2>1, <3>1, ApplyElementIs DEF LayoutNext
    <2>2. CASE r.error # "ok" BY <2>2 DEF LayoutNext
    <2>3. QED BY <2>1, <2>2
  <1>2. Found(NewLayout) \in LayoutResults BY NewLayoutType, ResultIs
  <1>3. QED BY <1>1, <1>2 DEF Stepwise, LayoutStep

\* The fold is that run.
LEMMA LayoutIsRun ==
  ASSUME NEW s \in Seq(Elements), NEW format
  PROVE  SheetLayout(s, format) = Run(LayoutStep(format), Found(NewLayout), s)
  <1> DEFINE n == Len(s)
             h == LayoutStep(format)
             W == CHOOSE w : w = [u \in SUBSET (1..n) |->
                    IF u = {} THEN Found(NewLayout) ELSE LayoutNext(w[u \ {Max(u)}], s[Max(u)], format)]
  <1>1. s \in Seq(Elements) /\ DOMAIN s = 1..n /\ \A i \in 1..n : s[i] \in Elements OBVIOUS
  <1>2. SheetLayout(s, format) = W[1..n]
    BY <1>1 DEF SheetLayout, FoldLeft, MapThenFoldSet
  <1>3. Stepwise(h, Elements, LayoutResults, Found(NewLayout)) BY LayoutSteps
  <1>4. \A e \in Elements, v \in LayoutResults : h[<<e, v>>] = LayoutNext(v, e, format)
    BY DEF LayoutStep
  <1> HIDE DEF h
  <1>g. PICK g : Solution(g, LayoutResults, h, Found(NewLayout), s) BY <1>1, <1>3, FoldSolved
  <1>5. /\ g \in [SUBSET (1..n) -> LayoutResults] /\ g[{}] = Found(NewLayout)
        /\ \A u \in SUBSET (1..n) : u # {} =>
             /\ Max(u) \in 1..n /\ u \ {Max(u)} \in SUBSET (1..n)
             /\ g[u] = h[<<s[Max(u)], g[u \ {Max(u)}]>>]
    BY <1>g, Zenon DEF Solution
  <1> HIDE DEF n
  <1>6. \A u \in SUBSET (1..n) : u # {} => g[u] = LayoutNext(g[u \ {Max(u)}], s[Max(u)], format)
    <2> SUFFICES ASSUME NEW u \in SUBSET (1..n), u # {}
                 PROVE  g[u] = LayoutNext(g[u \ {Max(u)}], s[Max(u)], format)
      OBVIOUS
    <2>1. /\ s[Max(u)] \in Elements /\ g[u \ {Max(u)}] \in LayoutResults
          /\ g[u] = h[<<s[Max(u)], g[u \ {Max(u)}]>>]
      BY <1>1, <1>5
    <2>2. QED BY <1>4, <2>1, Zenon
  <1>7. g = [u \in SUBSET (1..n) |->
               IF u = {} THEN Found(NewLayout) ELSE LayoutNext(g[u \ {Max(u)}], s[Max(u)], format)]
    BY <1>5, <1>6
  <1>8. W = [u \in SUBSET (1..n) |->
               IF u = {} THEN Found(NewLayout) ELSE LayoutNext(W[u \ {Max(u)}], s[Max(u)], format)]
    BY <1>7, Zenon
  <1> HIDE DEF W
  <1>9. W[{}] = Found(NewLayout) BY <1>8
  <1>10. \A u \in SUBSET (1..n) : u # {} /\ W[u \ {Max(u)}] \in LayoutResults =>
            W[u] = h[<<s[Max(u)], W[u \ {Max(u)}]>>]
    <2> SUFFICES ASSUME NEW u \in SUBSET (1..n), u # {}, W[u \ {Max(u)}] \in LayoutResults
                 PROVE  W[u] = h[<<s[Max(u)], W[u \ {Max(u)}]>>]
      OBVIOUS
    <2>1. W[u] = LayoutNext(W[u \ {Max(u)}], s[Max(u)], format) BY <1>8
    <2>2. s[Max(u)] \in Elements BY <1>1, <1>5
    <2>3. QED BY <1>4, <2>1, <2>2, Zenon
  <1>11. Recurs(W, LayoutResults, h, Found(NewLayout), s) BY <1>9, <1>10 DEF Recurs, n
  <1>12. W[1..Len(s)] = Run(h, Found(NewLayout), s) BY <1>1, <1>3, <1>11, FoldIsRun
  <1>13. QED BY <1>2, <1>12 DEF h, n

\* The layout of a whole part is a layout, or a refusal.
LEMMA SheetLayoutIs == ASSUME NEW s \in Seq(Elements), NEW format PROVE SheetLayout(s, format) \in LayoutResults
  BY LayoutIsRun, LayoutSteps, RunFollows

\* So is the layout of a legacy sheet, read from its offset.
LEMMA BiffLayoutIs ==
  ASSUME NEW s \in Seq(Elements), NEW offset \in Nat \ {0}
  PROVE  BiffLayout(s, offset) \in LayoutResults
  <1>1. CASE offset > Len(s) BY <1>1, ResultIs DEF BiffLayout
  <1>2. CASE ~(offset > Len(s))
    <2> DEFINE ends == {k \in offset .. Len(s) : s[k].kind = "eof"}
               last == IF ends = {} THEN Len(s) ELSE Min(ends) - 1
    <2>1. Len(s) \in Nat /\ ends \in SUBSET Nat /\ \A k \in ends : offset <= k /\ k <= Len(s) OBVIOUS
    <2>2. Substream(s, offset) = SubSeq(s, offset, last) BY DEF Substream
    <2> HIDE DEF ends
    <2>3. ends # {} => Min(ends) \in ends BY <2>1, Smallest
    <2>4. last \in (offset - 1)..Len(s)
      <3> DEFINE m == Min(ends)
                 n == Len(s)
      <3>1. ends # {} => m \in Nat /\ offset <= m /\ m <= n BY <2>1, <2>3
      <3>2. n \in Nat /\ ~(offset > n) /\ offset \in Nat BY <1>2, <2>1
      <3>3. last = IF ends = {} THEN n ELSE m - 1 OBVIOUS
      <3> HIDE DEF m, n, last
      <3>4. last \in (offset - 1)..n BY <3>1, <3>2, <3>3
      <3>5. QED BY <3>4 DEF n
    <2> HIDE DEF last
    <2>5. offset \in 1..(Len(s) + 1) BY <1>2, <2>1
    <2>6. SubSeq(s, offset, last) \in Seq(Elements) BY <2>4, <2>5, SubSeqProperties
    <2>7. QED BY <1>2, <2>2, <2>6, SheetLayoutIs DEF BiffLayout
  <1>3. QED BY <1>1, <1>2

\* The bytes a layout is charged for are a number.
LEMMA RetainedType ==
  ASSUME NEW l \in SheetLayouts
  PROVE  RetainedByLayout(l) \in Nat
  <1> DEFINE a == Cardinality(l.styles)
             b == Cardinality(l.axisRows)
             c == Cardinality(l.axisColumns)
             d == Len(l.merged)
  <1>1. a \in Nat /\ b \in Nat /\ c \in Nat /\ d \in Nat BY LayoutType, FS_CardinalityType
  <1>2. Cost.styled \in Nat /\ Cost.axis \in Nat /\ Cost.region \in Nat BY CostAssumption
  <1>3. RetainedByLayout(l) = a * Cost.styled + (b + c) * Cost.axis + d * Cost.region
    BY DEF RetainedByLayout
  <1> HIDE DEF a, b, c, d
  <1>4. a * Cost.styled \in Nat /\ (b + c) * Cost.axis \in Nat /\ d * Cost.region \in Nat
    BY <1>1, <1>2, Product
  <1>5. QED BY <1>3, <1>4

-----------------------------------------------------------------------------
(* The count that is taken of the records of a legacy workbook. *)
KindMaps == UNION {[S -> Nat] : S \in SUBSET STRING}
CountStates ==
    {c \in [error : {"ok", "limit", "parse"}, globals : BOOLEAN, sheet : BOOLEAN, kinds : KindMaps,
            styled : Nat, rows : Nat, columns : Nat, merged : Nat,
            allStyled : Nat, allAxes : Nat, allMerged : Nat] : IsFiniteSet(DOMAIN c.kinds)}

\* The fields of the counts of presentation records.
LEMMA CountType ==
  ASSUME NEW c \in CountStates
  PROVE  /\ c.error \in {"ok", "limit", "parse"} /\ c.kinds \in KindMaps /\ IsFiniteSet(DOMAIN c.kinds)
         /\ c.styled \in Nat /\ c.rows \in Nat /\ c.columns \in Nat /\ c.merged \in Nat
         /\ c.allStyled \in Nat /\ c.allAxes \in Nat /\ c.allMerged \in Nat
  BY DEF CountStates

\* How many elements of each kind were counted.
LEMMA KindsAre ==
  ASSUME NEW m \in KindMaps
  PROVE  DOMAIN m \in SUBSET STRING /\ \A x \in DOMAIN m : m[x] \in Nat
  BY DEF KindMaps

\* A count that failed is still a count.
LEMMA FailedIs ==
  ASSUME NEW c \in CountStates, NEW error \in {"limit", "parse"}
  PROVE  FailedCount(c, error) \in CountStates
  BY DEF CountStates, FailedCount

\* So is one that was checked against a limit.
LEMMA WithinIs ==
  ASSUME NEW c \in CountStates, NEW used, NEW limit
  PROVE  Within(c, used, limit) \in CountStates
  BY FailedIs DEF Within

\* A style adds to the counts, or fails them.
LEMMA CountStyleIs ==
  ASSUME NEW c \in CountStates, NEW e \in Elements
  PROVE  CountStyle(c, e) \in CountStates
  <1> DEFINE now == (IF e.of \in DOMAIN c.kinds THEN c.kinds[e.of] ELSE 0) + 1
             kinds == With(c.kinds, e.of, now)
             d == [c EXCEPT !.kinds = kinds]
  <1>1. c.kinds \in KindMaps /\ IsFiniteSet(DOMAIN c.kinds) /\ e.of \in STRING
    BY CountType, ElementType
  <1>2. DOMAIN c.kinds \in SUBSET STRING /\ \A x \in DOMAIN c.kinds : c.kinds[x] \in Nat
    BY <1>1, KindsAre
  <1>3. now \in Nat BY <1>2
  <1>4. CountStyle(c, e) = Within(d, now, Limits.styles)
    <2>1. d = [c EXCEPT !.kinds = With(@, e.of, now)] BY DEF CountStates
    <2> HIDE DEF d
    <2>2. QED BY <2>1, Zenon DEF CountStyle
  <1> HIDE DEF now
  <1> DEFINE S == DOMAIN c.kinds \cup {e.of}
  <1>5. S \in SUBSET STRING /\ kinds \in [S -> Nat] /\ DOMAIN kinds = S BY <1>1, <1>2, <1>3 DEF With
  <1>6. IsFiniteSet(S) BY <1>1, FS_AddElement
  <1> HIDE DEF kinds, S
  <1>7. kinds \in KindMaps /\ IsFiniteSet(DOMAIN kinds) BY <1>5, <1>6 DEF KindMaps
  <1>8. d \in CountStates BY <1>7 DEF CountStates
  <1> HIDE DEF d
  <1>9. QED BY <1>4, <1>8, WithinIs

\* How many items there are from one index to another.
LEMMA ItemsAre ==
  ASSUME NEW a \in Nat, NEW b \in Nat, ~(b < a)
  PROVE  b - a + 1 \in Nat
  OBVIOUS

\* A run of cells adds to the counts, or fails them.
LEMMA CountCellsIs ==
  ASSUME NEW c \in CountStates, NEW e \in Elements
  PROVE  CountCells(c, e) \in CountStates
  <1> DEFINE items == e.last - e.first + 1
             d == [c EXCEPT !.styled = @ + items, !.allStyled = @ + items]
  <1>1. e.first \in Nat /\ e.last \in Nat BY ElementType
  <1>2. CASE e.last < e.first \/ items > e.holds BY <1>2, FailedIs DEF CountCells
  <1>3. CASE ~(e.last < e.first \/ items > e.holds)
    <2>1. items \in Nat BY <1>1, <1>3, ItemsAre
    <2>2. CountCells(c, e) = Within(d, c.styled + items, Limits.styled) BY <1>3 DEF CountCells
    <2> HIDE DEF items
    <2>3. d \in CountStates
      <3> DEFINE a == c.styled + items
                 b == c.allStyled + items
      <3>1. a \in Nat /\ b \in Nat BY <2>1, CountType
      <3>2. d = [c EXCEPT !.styled = a, !.allStyled = b] OBVIOUS
      <3> HIDE DEF a, b, d
      <3>3. [c EXCEPT !.styled = a, !.allStyled = b] \in CountStates BY <3>1 DEF CountStates
      <3>4. QED BY <3>2, <3>3
    <2> HIDE DEF d
    <2>4. QED BY <2>2, <2>3, WithinIs
  <1>4. QED BY <1>2, <1>3

\* So does a column element.
LEMMA CountColumnsIs ==
  ASSUME NEW c \in CountStates, NEW e \in Elements
  PROVE  CountColumns(c, e) \in CountStates
  <1> DEFINE items == e.last - e.first + 1
             d == [c EXCEPT !.columns = @ + items, !.allAxes = @ + items]
  <1>1. e.first \in Nat /\ e.last \in Nat BY ElementType
  <1>2. CASE e.last < e.first BY <1>2, FailedIs DEF CountColumns
  <1>3. CASE ~(e.last < e.first)
    <2>1. items \in Nat BY <1>1, <1>3, ItemsAre
    <2>2. CountColumns(c, e) = Within(d, c.columns + items, Limits.layout) BY <1>3 DEF CountColumns
    <2> HIDE DEF items
    <2>3. d \in CountStates
      <3> DEFINE a == c.columns + items
                 b == c.allAxes + items
      <3>1. a \in Nat /\ b \in Nat BY <2>1, CountType
      <3>2. d = [c EXCEPT !.columns = a, !.allAxes = b] OBVIOUS
      <3> HIDE DEF a, b, d
      <3>3. [c EXCEPT !.columns = a, !.allAxes = b] \in CountStates BY <3>1 DEF CountStates
      <3>4. QED BY <3>2, <3>3
    <2> HIDE DEF d
    <2>4. QED BY <2>2, <2>3, WithinIs
  <1>4. QED BY <1>2, <1>3

\* So does an element of a sheet, whatever its kind.
LEMMA CountInSheetIs ==
  ASSUME NEW c \in CountStates, NEW e \in Elements
  PROVE  CountInSheet(c, e) \in CountStates
  <1>1. CASE e.kind = "cells" BY <1>1, CountCellsIs DEF CountInSheet
  <1>2. CASE e.kind = "row"
    <2> DEFINE d == [c EXCEPT !.rows = @ + 1, !.allAxes = @ + 1]
    <2>1. CountInSheet(c, e) = Within(d, c.rows + 1, Limits.layout) BY <1>2 DEF CountInSheet
    <2>2. d \in CountStates
      <3> DEFINE a == c.rows + 1
                 b == c.allAxes + 1
      <3>1. a \in Nat /\ b \in Nat BY CountType
      <3>2. d = [c EXCEPT !.rows = a, !.allAxes = b] OBVIOUS
      <3> HIDE DEF a, b, d
      <3>3. [c EXCEPT !.rows = a, !.allAxes = b] \in CountStates BY <3>1 DEF CountStates
      <3>4. QED BY <3>2, <3>3
    <2> HIDE DEF d
    <2>3. QED BY <2>1, <2>2, WithinIs
  <1>3. CASE e.kind = "columns" BY <1>3, CountColumnsIs DEF CountInSheet
  <1>4. CASE e.kind = "merge"
    <2> DEFINE d == [c EXCEPT !.merged = @ + e.declared, !.allMerged = @ + e.declared]
    <2>1. CountInSheet(c, e) \in {FailedCount(c, "parse"), Within(d, c.merged + e.declared, Limits.merged)}
      BY <1>4 DEF CountInSheet
    <2>2. e.declared \in Nat BY ElementType
    <2>3. d \in CountStates
      <3> DEFINE a == c.merged + e.declared
                 b == c.allMerged + e.declared
      <3>1. a \in Nat /\ b \in Nat BY <2>2, CountType
      <3>2. d = [c EXCEPT !.merged = a, !.allMerged = b] OBVIOUS
      <3> HIDE DEF a, b, d
      <3>3. [c EXCEPT !.merged = a, !.allMerged = b] \in CountStates BY <3>1 DEF CountStates
      <3>4. QED BY <3>2, <3>3
    <2> HIDE DEF d
    <2>4. QED BY <2>1, <2>3, WithinIs, FailedIs
  <1>5. CASE e.kind \notin {"cells", "row", "columns", "merge"} BY <1>5 DEF CountInSheet
  <1>6. QED BY <1>1, <1>2, <1>3, <1>4, <1>5

\* So does any record.
LEMMA CountRecordIs ==
  ASSUME NEW c \in CountStates, NEW e \in Elements
  PROVE  CountRecord(c, e) \in CountStates
  <1> DEFINE starts == [c EXCEPT !.sheet = (e.of = "worksheet"),
                                 !.styled = 0, !.rows = 0, !.columns = 0, !.merged = 0]
             ends == [c EXCEPT !.globals = FALSE, !.sheet = FALSE]
  <1>1. starts \in CountStates BY DEF CountStates
  <1>2. ends \in CountStates BY DEF CountStates
  <1>3. CountRecord(c, e) \in {c, FailedCount(c, "parse"), starts, ends, CountStyle(c, e), CountInSheet(c, e)}
    BY DEF CountRecord
  <1> HIDE DEF starts, ends
  <1>4. FailedCount(c, "parse") \in CountStates BY FailedIs
  <1>5. CountStyle(c, e) \in CountStates /\ CountInSheet(c, e) \in CountStates
    BY CountStyleIs, CountInSheetIs
  <1>6. QED BY <1>1, <1>2, <1>3, <1>4, <1>5

CountStep == [p \in Elements \X CountStates |-> CountRecord(p[2], p[1])]

\* The counts a workbook starts with.
LEMMA NewCountsType == NewCounts \in CountStates
  <1>1. NewCounts.kinds = <<>> /\ IsFiniteSet({}) BY FS_EmptySet DEF NewCounts
  <1>2. <<>> \in [{} -> Nat] /\ DOMAIN <<>> = {} OBVIOUS
  <1>3. <<>> \in KindMaps BY <1>2 DEF KindMaps
  <1>4. QED BY <1>1, <1>2, <1>3 DEF NewCounts, CountStates

\* The records of a workbook are counted one by one.
LEMMA CountSteps == Stepwise(CountStep, Elements, CountStates, NewCounts)
  BY NewCountsType, CountRecordIs DEF Stepwise, CountStep

\* The fold is that run.
LEMMA CountsAreRun ==
  ASSUME NEW s \in Seq(Elements)
  PROVE  PresentationCounts(s) = Run(CountStep, NewCounts, s)
  <1> DEFINE n == Len(s)
             h == CountStep
             W == CHOOSE w : w = [u \in SUBSET (1..n) |->
                    IF u = {} THEN NewCounts ELSE CountRecord(w[u \ {Max(u)}], s[Max(u)])]
  <1>1. s \in Seq(Elements) /\ DOMAIN s = 1..n /\ \A i \in 1..n : s[i] \in Elements OBVIOUS
  <1>2. PresentationCounts(s) = W[1..n]
    BY <1>1 DEF PresentationCounts, FoldLeft, MapThenFoldSet
  <1>3. Stepwise(h, Elements, CountStates, NewCounts) BY CountSteps
  <1>4. \A e \in Elements, v \in CountStates : h[<<e, v>>] = CountRecord(v, e)
    BY DEF CountStep
  <1> HIDE DEF h
  <1>g. PICK g : Solution(g, CountStates, h, NewCounts, s) BY <1>1, <1>3, FoldSolved
  <1>5. /\ g \in [SUBSET (1..n) -> CountStates] /\ g[{}] = NewCounts
        /\ \A u \in SUBSET (1..n) : u # {} =>
             /\ Max(u) \in 1..n /\ u \ {Max(u)} \in SUBSET (1..n)
             /\ g[u] = h[<<s[Max(u)], g[u \ {Max(u)}]>>]
    BY <1>g, Zenon DEF Solution
  <1> HIDE DEF n
  <1>6. \A u \in SUBSET (1..n) : u # {} => g[u] = CountRecord(g[u \ {Max(u)}], s[Max(u)])
    <2> SUFFICES ASSUME NEW u \in SUBSET (1..n), u # {}
                 PROVE  g[u] = CountRecord(g[u \ {Max(u)}], s[Max(u)])
      OBVIOUS
    <2>1. /\ s[Max(u)] \in Elements /\ g[u \ {Max(u)}] \in CountStates
          /\ g[u] = h[<<s[Max(u)], g[u \ {Max(u)}]>>]
      BY <1>1, <1>5
    <2>2. QED BY <1>4, <2>1, Zenon
  <1>7. g = [u \in SUBSET (1..n) |->
               IF u = {} THEN NewCounts ELSE CountRecord(g[u \ {Max(u)}], s[Max(u)])]
    BY <1>5, <1>6
  <1>8. W = [u \in SUBSET (1..n) |->
               IF u = {} THEN NewCounts ELSE CountRecord(W[u \ {Max(u)}], s[Max(u)])]
    BY <1>7, Zenon
  <1> HIDE DEF W
  <1>9. W[{}] = NewCounts BY <1>8
  <1>10. \A u \in SUBSET (1..n) : u # {} /\ W[u \ {Max(u)}] \in CountStates =>
            W[u] = h[<<s[Max(u)], W[u \ {Max(u)}]>>]
    <2> SUFFICES ASSUME NEW u \in SUBSET (1..n), u # {}, W[u \ {Max(u)}] \in CountStates
                 PROVE  W[u] = h[<<s[Max(u)], W[u \ {Max(u)}]>>]
      OBVIOUS
    <2>1. W[u] = CountRecord(W[u \ {Max(u)}], s[Max(u)]) BY <1>8
    <2>2. s[Max(u)] \in Elements BY <1>1, <1>5
    <2>3. QED BY <1>4, <2>1, <2>2, Zenon
  <1>11. Recurs(W, CountStates, h, NewCounts, s) BY <1>9, <1>10 DEF Recurs, n
  <1>12. W[1..Len(s)] = Run(h, NewCounts, s) BY <1>1, <1>3, <1>11, FoldIsRun
  <1>13. QED BY <1>2, <1>12 DEF h, n

\* The counts of a whole workbook.
LEMMA CountsAre == ASSUME NEW s \in Seq(Elements) PROVE PresentationCounts(s) \in CountStates
  BY CountsAreRun, CountSteps, RunFollows

\* The bytes reserved for the presentation of a legacy workbook are a number.
LEMMA CountedBytes ==
  ASSUME NEW c \in CountStates
  PROVE  PresentationBytes(c) \in Nat
  <1> DEFINE k == SumOf(c.kinds)
  <1>1. k \in Nat
    <2>1. IsFiniteSet(DOMAIN c.kinds) /\ \A x \in DOMAIN c.kinds : c.kinds[x] \in Nat
      BY CountType, KindsAre
    <2>2. QED BY <2>1, SumType
  <1>2. Cost.style \in Nat /\ Cost.styled \in Nat /\ Cost.axis \in Nat /\ Cost.region \in Nat
    BY CostAssumption
  <1>3. c.allStyled \in Nat /\ c.allAxes \in Nat /\ c.allMerged \in Nat BY CountType
  <1>4. PresentationBytes(c) = k * Cost.style + c.allStyled * Cost.styled + c.allAxes * Cost.axis + c.allMerged * Cost.region
    BY DEF PresentationBytes
  <1> HIDE DEF k
  <1>5. k * Cost.style \in Nat /\ c.allStyled * Cost.styled \in Nat /\ c.allAxes * Cost.axis \in Nat
        /\ c.allMerged * Cost.region \in Nat
    BY <1>1, <1>2, <1>3, Product
  <1>6. QED BY <1>4, <1>5

\* The layouts of a workbook: of each sheet by its name, or the first error.
LayoutMaps(names) == [{names[k] : k \in 1 .. Len(names)} -> SheetLayouts]

\* The layouts of the worksheets, one per name, or the first refusal.
LEMMA LayoutsAre ==
  ASSUME NEW ls, NEW names, Len(ls) \in Nat, Len(names) = Len(ls),
         \A k \in 1 .. Len(ls) : ls[k] \in LayoutResults
  PROVE  LET r == LayoutsOf(ls, names)
         IN  \/ r.error = "ok" /\ r.value \in LayoutMaps(names)
             \/ r.error \in {"parse", "limit"}
  <1> DEFINE n == Len(ls)
             failed == {k \in 1 .. n : ls[k].error # "ok"}
             place(name) == CHOOSE k \in 1 .. n : names[k] = name
             S == {names[k] : k \in 1 .. n}
             map == [name \in S |-> ls[place(name)].value]
  <1>1. \A k \in 1 .. n : (ls[k].error = "ok" /\ ls[k].value \in SheetLayouts) \/ ls[k].error \in {"parse", "limit"}
    BY ResultType
  <1>2. CASE failed # {}
    <2>1. failed \in SUBSET Nat OBVIOUS
    <2>2. LayoutsOf(ls, names) = ls[Min(failed)] BY <1>2 DEF LayoutsOf
    <2>3. \A k \in failed : k \in 1 .. n /\ ls[k].error # "ok" OBVIOUS
    <2> HIDE DEF failed
    <2>4. Min(failed) \in failed BY <1>2, <2>1, Smallest
    <2>5. QED BY <1>1, <2>2, <2>3, <2>4
  <1>3. CASE failed = {}
    <2>1. LayoutsOf(ls, names) = Found(map) BY <1>3 DEF LayoutsOf
    <2>2. ASSUME NEW name \in S PROVE ls[place(name)].value \in SheetLayouts
      <3>1. \E k \in 1 .. n : names[k] = name OBVIOUS
      <3>2. place(name) \in 1 .. n BY <3>1
      <3> HIDE DEF place
      <3>3. ls[place(name)].error = "ok" BY <1>3, <3>2
      <3>4. QED BY <1>1, <3>2, <3>3
    <2> HIDE DEF place
    <2>3. map \in [S -> SheetLayouts] BY <2>2
    <2> HIDE DEF map
    <2>4. QED BY <2>1, <2>3 DEF Found, LayoutMaps
  <1>4. QED BY <1>2, <1>3

\* The bytes the layouts are charged for together are a number.
LEMMA LayoutBytesType ==
  ASSUME NEW names, Len(names) \in Nat, NEW layouts \in LayoutMaps(names)
  PROVE  LayoutBytes(layouts) \in Nat
  <1> DEFINE n == Len(names)
             S == {names[k] : k \in 1 .. n}
             g == [name \in S |-> RetainedByLayout(layouts[name])]
             place == [k \in 1 .. n |-> names[k]]
  <1>1. layouts \in [S -> SheetLayouts] BY DEF LayoutMaps
  <1>2. IsFiniteSet(S)
    <2>1. IsFiniteSet(1 .. n) BY FS_Interval
    <2>2. DOMAIN place = 1 .. n /\ \A k \in 1 .. n : place[k] = names[k] OBVIOUS
    <2>3. S = {place[k] : k \in DOMAIN place} BY <2>2
    <2> HIDE DEF place, S
    <2>4. QED BY <2>1, <2>2, <2>3, ImageFinite
  <1> HIDE DEF S
  <1>3. DOMAIN g = S /\ \A x \in S : g[x] \in Nat BY <1>1, RetainedType
  <1>4. LayoutBytes(layouts) = SumOf(g) BY <1>1 DEF LayoutBytes
  <1> HIDE DEF g
  <1>5. QED BY <1>2, <1>3, <1>4, SumType

-----------------------------------------------------------------------------
(* A workbook that is parsed. *)
PackageOK(p) == Len(p) \in Nat /\ \A k \in 1 .. Len(p) : p[k].bytes \in Seq(Int)
CompactOK(f, compact) ==
    \/ f.kind = "xlsx" /\ PackageOK(compact)
    \/ f.kind = "xls" /\ compact \in Seq(Int)
IsSheets(s) == Len(s) \in Nat /\ s \in Seq(Range(s))
Holds(content) == HeldCells(content.cells) /\ HeldCells(content.formulas)

BookOK(book) ==
    /\ book.reserved \in Nat
    /\ book.tables \in Seq(Range(book.tables))
    /\ \A t \in Range(book.tables) : t.name \in DOMAIN book.layouts
    /\ \A name \in DOMAIN book.layouts : book.layouts[name] \in SheetLayouts /\ Holds(book.contents[name])

\* A function on an interval from 1 is a sequence over its values.
LEMMA SequenceOf ==
  ASSUME NEW n \in Nat, NEW s, s = [k \in 1 .. n |-> s[k]]
  PROVE  s \in Seq(Range(s)) /\ Len(s) = n /\ DOMAIN s = 1 .. n /\ IsSheets(s)
  <1>1. DOMAIN s = 1 .. n OBVIOUS
  <1>2. \A k \in 1 .. n : s[k] \in Range(s) BY <1>1 DEF Range
  <1>3. [k \in 1 .. n |-> s[k]] \in [1 .. n -> Range(s)] BY <1>2
  <1>4. s \in [1 .. n -> Range(s)] BY <1>3
  <1> HIDE <1>2, <1>3
  <1>5. s \in Seq(Range(s)) BY <1>4
  <1>6. Len(s) = n BY <1>1, <1>5
  <1>7. QED BY <1>1, <1>5, <1>6 DEF IsSheets

\* An element of a sequence is in its range.
LEMMA InRange ==
  ASSUME NEW E, NEW s \in Seq(E), NEW k \in 1 .. Len(s)
  PROVE  s[k] \in Range(s) /\ s[k] \in E
  <1>1. DOMAIN s = 1 .. Len(s) OBVIOUS
  <1>2. QED BY <1>1 DEF Range

\* The range of a sequence, element by element.
LEMMA RangeIn ==
  ASSUME NEW E, NEW s \in Seq(E)
  PROVE  Range(s) \subseteq E /\ \A x \in Range(s) : \E k \in 1 .. Len(s) : s[k] = x
  <1>1. DOMAIN s = 1 .. Len(s) /\ \A k \in 1 .. Len(s) : s[k] \in E OBVIOUS
  <1>2. QED BY <1>1 DEF Range

\* A placeholder is a part that holds nothing.
LEMMA EmptyPart == IsPart(EmptySheet)
  <1>1. PlaceholderBytes \in Nat BY PackageAssumption
  <1>2. HeldCells(<<>>)
    <2>1. DOMAIN <<>> = {} OBVIOUS
    <2>2. IsFiniteSet({}) BY FS_EmptySet
    <2>3. QED BY <2>1, <2>2 DEF HeldCells
  <1>3. <<>> \in Seq(SheetNodes) /\ <<>> \in Seq(Relationships) /\ <<>> \in Seq(Elements) OBVIOUS
  <1>4. QED BY <1>1, <1>2, <1>3 DEF IsPart, EmptySheet

\* The part some bytes decode to is one of the file.
LEMMA PartIs ==
  ASSUME NEW f, \A p \in DOMAIN f.parts : IsPart(f.parts[p]), NEW bytes
  PROVE  IsPart(Part(f, bytes))
  <1>1. CASE bytes[1] \in DOMAIN f.parts BY <1>1 DEF Part
  <1>2. CASE bytes[1] \notin DOMAIN f.parts BY <1>2, EmptyPart DEF Part
  <1>3. QED BY <1>1, <1>2

\* Inspecting a package gives what its presentation will take, or refuses.
LEMMA InspectXlsxIs ==
  ASSUME NEW f, \A p \in DOMAIN f.parts : IsPart(f.parts[p]), NEW package, PackageOK(package), NEW available
  PROVE  LET r == InspectXlsx(f, package, available)
         IN  \/ r.error = "ok" /\ r.value \in Nat
             \/ r.error \in Failures
  <1> DEFINE n == Len(package)
             parts == [k \in 1 .. n |-> Part(f, package[k].bytes)]
             lengths == [k \in 1 .. n |-> Len(package[k].bytes)]
             expanded == [k \in 1 .. n |-> parts[k].expanded]
             rooms == [k \in 1 .. n |-> parts[k].slots]
             all == TotalOf(lengths) + TotalOf(expanded) + TotalOf(rooms) * StringBytes
             r == InspectXlsx(f, package, available)
  <1>1. n \in Nat /\ StringBytes \in Nat BY RuntimeAssumption DEF PackageOK
  <1>2. \A k \in 1 .. n : parts[k].expanded \in Nat /\ parts[k].slots \in Nat
    <2> SUFFICES ASSUME NEW k \in 1 .. n PROVE parts[k].expanded \in Nat /\ parts[k].slots \in Nat
      OBVIOUS
    <2>1. IsPart(parts[k]) BY PartIs
    <2>2. QED BY <2>1 DEF IsPart
  <1>3. \A k \in 1 .. n : Len(package[k].bytes) \in Nat BY DEF PackageOK
  <1>4. r.error \in Failures \/ r = Found(all)
    <2>1. \/ r = Refused("limit") \/ r = Refused("unsupported") \/ r = Refused("parse")
          \/ \E b : r = Refused(IF b THEN "limit" ELSE "parse")
          \/ \E b : r = Refused(IF b THEN "unsupported" ELSE "limit")
          \/ r = Found(all)
      BY Zenon DEF InspectXlsx
    <2> HIDE DEF all, r
    <2>2. QED BY <2>1 DEF Refused, Failures
  <1>5. all \in Nat
    <2> HIDE DEF n, parts
    <2>1. lengths \in Seq(Nat) BY <1>1, <1>3
    <2>2. expanded \in Seq(Nat) BY <1>1, <1>2
    <2>3. rooms \in Seq(Nat) BY <1>1, <1>2
    <2> HIDE DEF lengths, expanded, rooms
    <2>4. TotalOf(lengths) \in Nat /\ TotalOf(expanded) \in Nat /\ TotalOf(rooms) \in Nat
      BY <2>1, <2>2, <2>3, TotalOfType
    <2>5. TotalOf(rooms) * StringBytes \in Nat BY <1>1, <2>4, Product
    <2>6. QED BY <2>4, <2>5
  <1> HIDE DEF all, r
  <1>6. QED BY <1>4, <1>5 DEF Found, r

\* So does inspecting a legacy workbook.
LEMMA InspectXlsIs ==
  ASSUME NEW f, f.streamBytes \in Nat, f.records \in Seq(Elements), NEW bytes \in Seq(Int), NEW available
  PROVE  LET r == InspectXls(f, bytes, available)
         IN  \/ r.error = "ok" /\ r.value \in Nat
             \/ r.error \in Failures
  <1> DEFINE counts == PresentationCounts(f.records)
             all == Len(bytes) + f.streamBytes + PresentationBytes(counts)
             r == InspectXls(f, bytes, available)
  <1>1. counts \in CountStates BY CountsAre
  <1>2. PresentationBytes(counts) \in Nat /\ counts.error \in {"ok", "limit", "parse"}
    BY <1>1, CountedBytes, CountType
  <1>3. \/ r = Refused("limit") \/ r = Refused("unsupported") \/ r = Refused("parse")
        \/ r = Found(all)
        \/ counts.error # "ok" /\ r = Refused(counts.error)
    <2> DEFINE parsing == Len(bytes) + f.streamBytes
               sum == parsing + PresentationBytes(counts)
               last == IF counts.error # "ok" THEN Refused(counts.error)
                       ELSE IF sum > available THEN Refused("limit") ELSE Found(sum)
    <2>1. r = IF Len(bytes) > Limits.source THEN Refused("limit")
              ELSE IF ~Readable(f, bytes) THEN Refused("parse")
              ELSE IF f.entries > Limits.cfbEntries THEN Refused("limit")
              ELSE IF f.streamBytes > Limits.streamBytes THEN Refused("limit")
              ELSE IF f.encrypted THEN Refused("unsupported")
              ELSE IF parsing > available THEN Refused("limit")
              ELSE IF f.records[1].kind # "bof" THEN Refused("parse")
              ELSE IF f.version # "biff8" THEN Refused("unsupported")
              ELSE last
      BY Zenon DEF InspectXls
    <2>2. all = sum OBVIOUS
    <2> HIDE DEF r, parsing, sum, counts, all
    <2>3. \/ last = Refused("limit") \/ last = Found(sum)
          \/ counts.error # "ok" /\ last = Refused(counts.error)
      BY Zenon
    <2> HIDE DEF last
    <2>4. r = Refused("limit") \/ r = Refused("unsupported") \/ r = Refused("parse") \/ r = last
      BY <2>1, Zenon
    <2>5. QED BY <2>2, <2>3, <2>4, Zenon
  <1> HIDE DEF r, counts
  <1>4. all \in Nat BY <1>2
  <1> HIDE DEF all
  <1>5. r.error \in Failures \/ r = Found(all) BY <1>2, <1>3 DEF Refused, Failures
  <1>6. QED BY <1>4, <1>5 DEF Found, r

\* The worksheets are a subsequence of the sheets.
LEMMA WorksheetsAre ==
  ASSUME NEW sheets, IsSheets(sheets)
  PROVE  LET w == Worksheets(sheets)
         IN  /\ w \in Seq(Range(sheets)) /\ Len(w) \in Nat
             /\ \A k \in 1 .. Len(w) : w[k] \in Range(sheets)
  <1> DEFINE w == Worksheets(sheets)
             set == {sheet \in Range(sheets) : sheet.worksheet}
  <1>1. w \in Seq(Range(sheets) \cap set) BY KeepIs DEF IsSheets, Worksheets
  <1>2. Range(sheets) \cap set \subseteq Range(sheets) OBVIOUS
  <1> HIDE DEF w, set
  <1>3. w \in Seq(Range(sheets)) BY <1>1, <1>2
  <1>4. QED BY <1>3 DEF w

\* The table descriptors name worksheets only.
LEMMA TablesAre ==
  ASSUME NEW sheets, IsSheets(sheets)
  PROVE  LET t == DescribeTables(sheets)
             w == Worksheets(sheets)
         IN  \/ /\ t.error = "ok" /\ t.value \in Seq(Range(t.value))
                /\ \A x \in Range(t.value) : \E k \in 1 .. Len(w) : x.name = w[k].name
             \/ t.error \in Failures
  <1> DEFINE w == Worksheets(sheets)
             v == [k \in 1 .. Len(w) |-> [id |-> k - 1, name |-> w[k].name]]
             t == DescribeTables(sheets)
  <1>1. Len(w) \in Nat BY WorksheetsAre
  <1>2. t \in {Refused("limit"), Refused("unsupported"), Found(v)} BY DEF DescribeTables
  <1>3. \A k \in 1 .. Len(w) : v[k].name = w[k].name OBVIOUS
  <1>4. v = [k \in 1 .. Len(w) |-> v[k]] OBVIOUS
  <1> HIDE DEF w, v, t
  <1>5. v \in Seq(Range(v)) /\ Len(v) = Len(w) BY <1>1, <1>4, SequenceOf
  <1>6. \A x \in Range(v) : \E k \in 1 .. Len(w) : x.name = w[k].name
    <2>1. \A x \in Range(v) : \E k \in 1 .. Len(v) : v[k] = x BY <1>5, RangeIn
    <2>2. QED BY <1>3, <1>5, <2>1
  <1>7. t = Found(v) => t.error = "ok" /\ t.value = v BY DEF Found
  <1>8. t # Found(v) => t.error \in Failures BY <1>2 DEF Refused, Failures
  <1>9. QED BY <1>5, <1>6, <1>7, <1>8 DEF t, w

\* A workbook is assembled from its parts within the bytes that are available, or refused.
LEMMA BookIs ==
  ASSUME NEW f, NEW inspection, inspection.error \in Failures \cup {"ok"}, NEW sheets, IsSheets(sheets),
         NEW contents, \A k \in 1 .. Len(sheets) : Holds(contents[k]),
         NEW layouts, layouts.error \in Failures \cup {"ok"}, NEW reserved, NEW available,
         inspection.error = "ok" /\ layouts.error = "ok" =>
            /\ reserved \in Nat
            /\ \A name \in DOMAIN layouts.value :
                  /\ layouts.value[name] \in SheetLayouts
                  /\ \E k \in 1 .. Len(sheets) : sheets[k].name = name
            /\ \A k \in 1 .. Len(Worksheets(sheets)) : Worksheets(sheets)[k].name \in DOMAIN layouts.value
  PROVE  LET b == Book(f, inspection, sheets, contents, layouts, reserved, available)
         IN  \/ b.error = "ok" /\ BookOK(b.value) /\ ~(b.value.reserved > available)
             \/ b.error \in Failures
  <1> DEFINE tables == DescribeTables(sheets)
             nameAt(name) == CHOOSE k \in 1 .. Len(sheets) : sheets[k].name = name
             book == [reserved |-> reserved, tables |-> tables.value, layouts |-> layouts.value,
                      contents |-> [name \in DOMAIN layouts.value |-> contents[nameAt(name)]]]
             b == Book(f, inspection, sheets, contents, layouts, reserved, available)
  <1>1. \/ /\ tables.error = "ok" /\ tables.value \in Seq(Range(tables.value))
           /\ \A x \in Range(tables.value) :
                 \E k \in 1 .. Len(Worksheets(sheets)) : x.name = Worksheets(sheets)[k].name
        \/ tables.error \in Failures
    BY TablesAre
  <1>2. \/ b \in {Refused("argument"), Refused("limit")}
        \/ b = inspection /\ inspection.error # "ok"
        \/ b = layouts /\ layouts.error # "ok"
        \/ b = tables /\ tables.error # "ok"
        \/ /\ b = Found(book) /\ inspection.error = "ok" /\ layouts.error = "ok" /\ tables.error = "ok"
           /\ ~(reserved > available)
    BY DEF Book
  <1> HIDE DEF tables, b
  <1>3. CASE b = Found(book) /\ inspection.error = "ok" /\ layouts.error = "ok" /\ tables.error = "ok"
             /\ ~(reserved > available)
    <2>1. /\ book.reserved = reserved /\ book.tables = tables.value /\ book.layouts = layouts.value
          /\ \A name \in DOMAIN layouts.value : book.contents[name] = contents[nameAt(name)]
      OBVIOUS
    <2>2. \A name \in DOMAIN layouts.value : Holds(contents[nameAt(name)])
      <3> SUFFICES ASSUME NEW name \in DOMAIN layouts.value PROVE Holds(contents[nameAt(name)])
        OBVIOUS
      <3>1. \E k \in 1 .. Len(sheets) : sheets[k].name = name BY <1>3
      <3>2. nameAt(name) \in 1 .. Len(sheets) BY <3>1
      <3> HIDE DEF nameAt
      <3>3. QED BY <3>2
    <2>3. "ok" \notin Failures BY DEF Failures
    <2> HIDE DEF book, nameAt
    <2>4. BookOK(book) BY <1>1, <1>3, <2>1, <2>2, <2>3 DEF BookOK
    <2>5. b.error = "ok" /\ b.value = book BY <1>3 DEF Found
    <2>6. QED BY <1>3, <2>1, <2>4, <2>5 DEF b
  <1>4. CASE b \in {Refused("argument"), Refused("limit")} BY <1>4 DEF Refused, Failures, b
  <1>5. QED BY <1>1, <1>2, <1>3, <1>4 DEF b

\* The sheets of a package and their parts.
LEMMA SheetPartsAre ==
  ASSUME NEW f, \A p \in DOMAIN f.parts : IsPart(f.parts[p]), NEW package
  PROVE  /\ IsSheets(SheetParts(f, package))
         /\ \A k \in 1 .. Len(SheetParts(f, package)) : IsPart(SheetParts(f, package)[k].part)
  <1> DEFINE s == SheetParts(f, package)
             workbook == PartAt(f, package, Workbook)
             n == Len(workbook.sheets)
  <1>1. n \in Nat
    <2>1. IsPart(workbook) BY PartIs DEF PartAt
    <2> HIDE DEF workbook
    <2>2. workbook.sheets \in Seq(SheetNodes) BY <2>1 DEF IsPart
    <2>3. QED BY <2>2
  <1>2. s = [k \in 1 .. n |-> s[k]] BY DEF SheetParts
  <1>3. \A k \in 1 .. n : IsPart(s[k].part)
    <2> SUFFICES ASSUME NEW k \in 1 .. n PROVE IsPart(s[k].part)
      OBVIOUS
    <2>1. s[k].part = EmptySheet \/ \E bytes : s[k].part = Part(f, bytes) BY DEF SheetParts, PartAt
    <2>2. QED BY <2>1, PartIs, EmptyPart
  <1> HIDE DEF s, n, workbook
  <1>4. IsSheets(s) /\ Len(s) = n BY <1>1, <1>2, SequenceOf
  <1>5. QED BY <1>3, <1>4 DEF s

\* The cells of a part, or of a legacy sheet, can be summed.
LEMMA HeldParts ==
  ASSUME NEW part, IsPart(part) \/ IsBound(part)
  PROVE  Holds(part)
  BY DEF IsPart, IsBound, Holds

\* The layouts are kept by name.
LEMMA MapNames ==
  ASSUME NEW names, NEW layouts \in LayoutMaps(names)
  PROVE  /\ \A name \in DOMAIN layouts : layouts[name] \in SheetLayouts /\ \E k \in 1 .. Len(names) : names[k] = name
         /\ \A k \in 1 .. Len(names) : names[k] \in DOMAIN layouts
  BY DEF LayoutMaps

\* An XLSX package.
LEMMA OpenXlsxIs ==
  ASSUME NEW f, \A p \in DOMAIN f.parts : IsPart(f.parts[p]), NEW package, PackageOK(package), NEW available
  PROVE  LET b == OpenXlsx(f, package, available)
         IN  \/ b.error = "ok" /\ BookOK(b.value) /\ ~(b.value.reserved > available)
             \/ b.error \in Failures
  <1> DEFINE inspection == InspectXlsx(f, package, available)
             sheets == SheetParts(f, package)
             n == Len(sheets)
             names == [k \in 1 .. n |-> sheets[k].name]
             list == [k \in 1 .. n |-> IF sheets[k].missing THEN Refused("parse")
                                       ELSE IF sheets[k].skipped THEN SheetLayout(<<>>, "xlsx")
                                       ELSE SheetLayout(sheets[k].part.elements, "xlsx")]
             layouts == XlsxLayouts(sheets)
             contents == [k \in 1 .. n |-> sheets[k].part]
             reserved == inspection.value + LayoutBytes(layouts.value)
             b == OpenXlsx(f, package, available)
  <1>1. (inspection.error = "ok" /\ inspection.value \in Nat) \/ inspection.error \in Failures
    BY InspectXlsxIs
  <1>2. IsSheets(sheets) /\ \A k \in 1 .. n : IsPart(sheets[k].part) BY SheetPartsAre
  <1>3. n \in Nat BY <1>2 DEF IsSheets
  <1>4. layouts = LayoutsOf(list, names) BY DEF XlsxLayouts
  <1>5. \A k \in 1 .. n : list[k] \in LayoutResults
    <2> SUFFICES ASSUME NEW k \in 1 .. n PROVE list[k] \in LayoutResults
      OBVIOUS
    <2>1. sheets[k].part.elements \in Seq(Elements) BY <1>2 DEF IsPart
    <2>2. list[k] \in {Refused("parse"), SheetLayout(<<>>, "xlsx"),
                       SheetLayout(sheets[k].part.elements, "xlsx")}
      OBVIOUS
    <2> HIDE DEF list, sheets
    <2>3. SheetLayout(sheets[k].part.elements, "xlsx") \in LayoutResults BY <2>1, SheetLayoutIs
    <2>4. <<>> \in Seq(Elements) OBVIOUS
    <2>5. SheetLayout(<<>>, "xlsx") \in LayoutResults BY <2>4, SheetLayoutIs
    <2>6. QED BY <2>2, <2>3, <2>5, ResultIs
  <1>6. Len(list) = n /\ Len(names) = n
    <2>1. list = [k \in 1 .. n |-> list[k]] /\ names = [k \in 1 .. n |-> names[k]] OBVIOUS
    <2> HIDE DEF list, names, n, sheets
    <2>2. QED BY <1>3, <2>1, SequenceOf
  <1>7. \A k \in 1 .. n : contents[k] = sheets[k].part /\ names[k] = sheets[k].name OBVIOUS
  <1>8. b = IF inspection.error # "ok" THEN inspection
            ELSE Book(f, inspection, sheets, contents, layouts, reserved, available)
    BY Zenon DEF OpenXlsx
  <1> HIDE DEF inspection, sheets, n, names, list, layouts, contents, b
  <1>9. \/ layouts.error = "ok" /\ layouts.value \in LayoutMaps(names)
        \/ layouts.error \in {"parse", "limit"}
    BY <1>3, <1>4, <1>5, <1>6, LayoutsAre
  <1>10. layouts.error \in Failures \cup {"ok"} /\ inspection.error \in Failures \cup {"ok"}
    BY <1>1, <1>9 DEF Failures
  <1>11. \A k \in 1 .. n : Holds(contents[k]) BY <1>2, <1>7, HeldParts
  <1>12. ASSUME inspection.error = "ok", layouts.error = "ok"
         PROVE  /\ reserved \in Nat
                /\ \A name \in DOMAIN layouts.value :
                      /\ layouts.value[name] \in SheetLayouts
                      /\ \E k \in 1 .. n : sheets[k].name = name
                /\ \A k \in 1 .. Len(Worksheets(sheets)) : Worksheets(sheets)[k].name \in DOMAIN layouts.value
    <2>1. layouts.value \in LayoutMaps(names) BY <1>9, <1>12
    <2>2. LayoutBytes(layouts.value) \in Nat BY <1>3, <1>6, <2>1, LayoutBytesType
    <2>3. inspection.value \in Nat BY <1>1, <1>12 DEF Failures
    <2>4. reserved \in Nat BY <2>2, <2>3
    <2>5. /\ \A name \in DOMAIN layouts.value :
                layouts.value[name] \in SheetLayouts /\ \E k \in 1 .. n : names[k] = name
          /\ \A k \in 1 .. n : names[k] \in DOMAIN layouts.value
      BY <1>6, <2>1, MapNames
    <2>6. ASSUME NEW k \in 1 .. Len(Worksheets(sheets)) PROVE Worksheets(sheets)[k].name \in DOMAIN layouts.value
      <3>1. Worksheets(sheets)[k] \in Range(sheets) BY <1>2, WorksheetsAre
      <3>2. PICK j \in 1 .. n : sheets[j] = Worksheets(sheets)[k]
        BY <1>2, <3>1, RangeIn DEF IsSheets, n
      <3>3. QED BY <1>7, <2>5, <3>2
    <2>7. QED BY <1>7, <2>4, <2>5, <2>6
  <1> HIDE DEF reserved
  <1>13. LET book == Book(f, inspection, sheets, contents, layouts, reserved, available)
         IN  \/ book.error = "ok" /\ BookOK(book.value) /\ ~(book.value.reserved > available)
             \/ book.error \in Failures
    BY <1>2, <1>10, <1>11, <1>12, BookIs DEF n
  <1>14. QED BY <1>1, <1>8, <1>13 DEF b

\* A legacy workbook.
LEMMA OpenXlsIs ==
  ASSUME NEW f, f.streamBytes \in Nat, f.records \in Seq(Elements), f.bound \in Seq(Range(f.bound)),
         \A sheet \in Range(f.bound) : IsBound(sheet), NEW bytes \in Seq(Int), NEW available
  PROVE  LET b == OpenXls(f, bytes, available)
         IN  \/ b.error = "ok" /\ BookOK(b.value) /\ ~(b.value.reserved > available)
             \/ b.error \in Failures
  <1> DEFINE inspection == InspectXls(f, bytes, available)
             sheets == f.bound
             w == Worksheets(sheets)
             n == Len(w)
             names == [k \in 1 .. n |-> w[k].name]
             list == [k \in 1 .. n |-> BiffLayout(f.records, w[k].offset)]
             layouts == XlsLayouts(f)
             b == OpenXls(f, bytes, available)
  <1>1. (inspection.error = "ok" /\ inspection.value \in Nat) \/ inspection.error \in Failures
    BY InspectXlsIs
  <1>2. IsSheets(sheets) /\ \A k \in 1 .. Len(sheets) : IsBound(sheets[k]) BY InRange DEF IsSheets
  <1>3. n \in Nat /\ \A k \in 1 .. n : w[k] \in Range(sheets) BY <1>2, WorksheetsAre
  <1>4. layouts = LayoutsOf(list, names) BY DEF XlsLayouts
  <1>5. \A k \in 1 .. n : list[k] \in LayoutResults
    <2> SUFFICES ASSUME NEW k \in 1 .. n PROVE list[k] \in LayoutResults
      OBVIOUS
    <2>1. w[k].offset \in Nat \ {0} BY <1>3 DEF IsBound
    <2>2. list[k] = BiffLayout(f.records, w[k].offset) OBVIOUS
    <2> HIDE DEF list, w
    <2>3. QED BY <2>1, <2>2, BiffLayoutIs
  <1>6. Len(list) = n /\ Len(names) = n
    <2>1. list = [k \in 1 .. n |-> list[k]] /\ names = [k \in 1 .. n |-> names[k]] OBVIOUS
    <2> HIDE DEF list, names, n, w
    <2>2. QED BY <1>3, <2>1, SequenceOf
  <1>7. \A k \in 1 .. n : names[k] = w[k].name OBVIOUS
  <1>8. b = Book(f, inspection, sheets, sheets, layouts, inspection.value, available)
    BY Zenon DEF OpenXls
  <1> HIDE DEF inspection, n, w, names, list, layouts, b, sheets
  <1>9. \/ layouts.error = "ok" /\ layouts.value \in LayoutMaps(names)
        \/ layouts.error \in {"parse", "limit"}
    BY <1>3, <1>4, <1>5, <1>6, LayoutsAre
  <1>10. layouts.error \in Failures \cup {"ok"} /\ inspection.error \in Failures \cup {"ok"}
    BY <1>1, <1>9 DEF Failures
  <1>11. \A k \in 1 .. Len(sheets) : Holds(sheets[k]) BY <1>2, HeldParts
  <1>12. ASSUME inspection.error = "ok", layouts.error = "ok"
         PROVE  /\ inspection.value \in Nat
                /\ \A name \in DOMAIN layouts.value :
                      /\ layouts.value[name] \in SheetLayouts
                      /\ \E k \in 1 .. Len(sheets) : sheets[k].name = name
                /\ \A k \in 1 .. Len(Worksheets(sheets)) : Worksheets(sheets)[k].name \in DOMAIN layouts.value
    <2>1. layouts.value \in LayoutMaps(names) BY <1>9, <1>12
    <2>3. inspection.value \in Nat BY <1>1, <1>12 DEF Failures
    <2>5. /\ \A name \in DOMAIN layouts.value :
                layouts.value[name] \in SheetLayouts /\ \E k \in 1 .. n : names[k] = name
          /\ \A k \in 1 .. n : names[k] \in DOMAIN layouts.value
      BY <1>6, <2>1, MapNames
    <2>6. \A k \in 1 .. n : \E j \in 1 .. Len(sheets) : sheets[j] = w[k]
      BY <1>2, <1>3, RangeIn DEF IsSheets
    <2>7. ASSUME NEW name \in DOMAIN layouts.value
          PROVE  layouts.value[name] \in SheetLayouts /\ \E k \in 1 .. Len(sheets) : sheets[k].name = name
      <3>1. PICK k \in 1 .. n : names[k] = name BY <2>5
      <3>2. PICK j \in 1 .. Len(sheets) : sheets[j] = w[k] BY <2>6
      <3>3. sheets[j].name = name BY <1>7, <3>1, <3>2
      <3>4. QED BY <2>5, <3>3
    <2>8. \A k \in 1 .. Len(w) : w[k].name \in DOMAIN layouts.value BY <1>7, <2>5 DEF n
    <2>9. QED BY <2>3, <2>7, <2>8 DEF w
  <1>13. LET book == Book(f, inspection, sheets, sheets, layouts, inspection.value, available)
         IN  \/ book.error = "ok" /\ BookOK(book.value) /\ ~(book.value.reserved > available)
             \/ book.error \in Failures
    BY <1>2, <1>10, <1>11, <1>12, BookIs
  <1>14. QED BY <1>8, <1>13 DEF b

-----------------------------------------------------------------------------
\* A document opens as a workbook of the registry, or not at all.
AddBook(r, book) ==
    [r EXCEPT !.next = @ + 1, !.retained = @ + book.reserved, !.sources = With(@, r.next, book)]
AddTable(r, table) ==
    [r EXCEPT !.next = @ + 1, !.retained = @ + table.reserved, !.tables = With(@, r.next, table)]

\* Opening a compact source adds one workbook under the next handle, within what is
\* available, or changes nothing and refuses.
LEMMA OpenSourceIs ==
  ASSUME NEW f \in Files, NEW compact, CompactOK(f, compact), NEW r
  PROVE  LET o == OpenSource(f, r, compact)
         IN  \/ /\ o.error = "ok" /\ o.handle = r.next
                /\ \E book : BookOK(book) /\ ~(book.reserved > Available(r)) /\ o.runtime = AddBook(r, book)
             \/ o.error \in Failures
  <1> DEFINE b == IF f.kind = "xlsx" THEN OpenXlsx(f, compact, Available(r)) ELSE OpenXls(f, compact, Available(r))
             o == OpenSource(f, r, compact)
  <1>1. \/ b.error = "ok" /\ BookOK(b.value) /\ ~(b.value.reserved > Available(r))
        \/ b.error \in Failures
    <2>1. CASE f.kind = "xlsx"
      <3>1. PackageOK(compact) /\ \A p \in DOMAIN f.parts : IsPart(f.parts[p])
        BY <2>1, DocumentIs DEF CompactOK
      <3>2. b = OpenXlsx(f, compact, Available(r)) BY <2>1
      <3> HIDE DEF b
      <3>3. QED BY <3>1, <3>2, OpenXlsxIs
    <2>2. CASE f.kind # "xlsx"
      <3>1. f.kind = "xls" /\ compact \in Seq(Int) BY <2>2 DEF CompactOK
      <3>2. /\ f.streamBytes \in Nat /\ f.records \in Seq(Elements)
            /\ f.bound \in Seq(Range(f.bound)) /\ \A sheet \in Range(f.bound) : IsBound(sheet)
        BY <3>1, DocumentIs
      <3>3. b = OpenXls(f, compact, Available(r)) BY <2>2
      <3> HIDE DEF b
      <3>4. QED BY <3>1, <3>2, <3>3, OpenXlsIs
    <2>3. QED BY <2>1, <2>2
  <1>2. o = Result("limit", r, None) \/ o = Register(r, b) BY Zenon DEF OpenSource
  <1> HIDE DEF b, o
  <1>3. CASE o = Result("limit", r, None) BY <1>3 DEF Result, Failures, o
  <1>4. CASE o = Register(r, b) /\ b.error \in Failures
    <2>1. b.error # "ok" BY <1>4 DEF Failures
    <2>2. o = Result(b.error, r, None) BY <1>4, <2>1 DEF Register
    <2>3. o.error = b.error BY <2>2 DEF Result
    <2>4. QED BY <1>4, <2>3 DEF o
  <1>5. CASE o = Register(r, b) /\ b.error = "ok" /\ BookOK(b.value) /\ ~(b.value.reserved > Available(r))
    <2>1. o = Result("ok", AddBook(r, b.value), r.next) BY <1>5, Zenon DEF Register, AddBook
    <2>2. o.error = "ok" /\ o.runtime = AddBook(r, b.value) /\ o.handle = r.next
      <3> HIDE DEF o
      <3>1. QED BY <2>1 DEF Result
    <2>3. QED BY <1>5, <2>2 DEF o
  <1>6. QED BY <1>1, <1>2, <1>3, <1>4, <1>5

\* The bytes of the cells that are held add up.
LEMMA SumCells ==
  ASSUME NEW f, HeldCells(f)
  PROVE  SumOf(f) \in Nat
  BY SumType DEF HeldCells

\* Where the used cells end, along either axis.
LEMMA UsedEndIs ==
  ASSUME NEW content, HeldCells(content.cells), NEW axis \in {1, 2}
  PROVE  UsedEnd(content, axis) \in Nat
  <1> DEFINE S == DOMAIN content.cells
             g == [cell \in S |-> cell[axis] + 1]
             U == {0} \cup {cell[axis] + 1 : cell \in S}
  <1>1. IsFiniteSet(S) /\ S \subseteq Nat \X Nat BY DEF HeldCells
  <1>2. \A cell \in S : cell[axis] + 1 \in Nat
    <2> SUFFICES ASSUME NEW cell \in S PROVE cell[axis] + 1 \in Nat OBVIOUS
    <2>1. cell \in Nat \X Nat BY <1>1
    <2>2. cell[1] \in Nat /\ cell[2] \in Nat BY <2>1
    <2>3. CASE axis = 1 BY <2>2, <2>3
    <2>4. CASE axis = 2 BY <2>2, <2>4
    <2>5. QED BY <2>3, <2>4
  <1>3. IsFiniteSet({cell[axis] + 1 : cell \in S})
    <2>1. DOMAIN g = S /\ \A cell \in S : g[cell] = cell[axis] + 1 OBVIOUS
    <2>2. {cell[axis] + 1 : cell \in S} = {g[x] : x \in DOMAIN g} BY <2>1
    <2> HIDE DEF g, S
    <2>3. IsFiniteSet({g[x] : x \in DOMAIN g}) BY <1>1, <2>1, ImageFinite
    <2>4. QED BY <2>2, <2>3
  <1>4. U \in SUBSET Nat /\ U # {} BY <1>2
  <1>5. IsFiniteSet(U)
    <2> DEFINE V == {cell[axis] + 1 : cell \in S}
    <2>1. U = V \cup {0} /\ IsFiniteSet(V) BY <1>3
    <2> HIDE DEF U, V
    <2>2. QED BY <2>1, FS_AddElement
  <1>6. UsedEnd(content, axis) = Max(U) BY DEF UsedEnd
  <1> HIDE DEF U
  <1>7. U \in SUBSET Int BY <1>4
  <1>8. QED BY <1>4, <1>5, <1>6, <1>7, Greatest

\* The shape of a table is a pair of numbers.
LEMMA ShapeIs ==
  ASSUME NEW content, HeldCells(content.cells), NEW layout \in SheetLayouts
  PROVE  Shape(content, layout).rows \in Nat /\ Shape(content, layout).columns \in Nat
  <1>1. UsedEnd(content, 1) \in Nat /\ UsedEnd(content, 2) \in Nat BY UsedEndIs
  <1>2. layout.rows \in Nat /\ layout.columns \in Nat BY LayoutType
  <1>3. /\ Max({UsedEnd(content, 1), layout.rows}) \in Nat
        /\ Max({UsedEnd(content, 2), layout.columns}) \in Nat
    BY <1>1, <1>2, GreaterOf
  <1>4. QED BY <1>3 DEF Shape

\* Multiplication distributes over addition.
LEMMA Distribute ==
  ASSUME NEW a \in Nat, NEW b \in Nat, NEW c \in Nat
  PROVE  a * (b + c) = a * b + a * c
  OBVIOUS

\* What a worksheet keeps is no more than what it takes to open it.
LEMMA FullIs ==
  ASSUME NEW shape, shape.rows \in Nat, shape.columns \in Nat, NEW content, Holds(content)
  PROVE  LET full == FullReservation(shape, content)
         IN  full.retained \in Nat /\ full.open \in Nat /\ full.retained <= full.open
  <1> DEFINE n == shape.rows * shape.columns
             a == n * DataBytes
             b == n * (DataBytes + StringBytes)
             c == n * StringBytes
             p == SumOf(content.cells)
             q == SumOf(content.formulas)
             full == FullReservation(shape, content)
  <1>1. DataBytes \in Nat /\ StringBytes \in Nat BY RuntimeAssumption
  <1>2. n \in Nat BY Product
  <1>3. p \in Nat /\ q \in Nat BY SumCells DEF Holds
  <1>4. full.retained = a + p /\ full.open = b + p + q BY DEF FullReservation, Reservation
  <1> HIDE DEF n, p, q, full
  <1>5. a \in Nat /\ c \in Nat BY <1>1, <1>2, Product
  <1>6. b = a + c BY <1>1, <1>2, Distribute
  <1> HIDE DEF a, b, c
  <1>7. QED BY <1>3, <1>4, <1>5, <1>6 DEF full

\* A worksheet opens as a table of the registry, or not at all.
LEMMA OpenTableIs ==
  ASSUME NEW r, NEW s \in DOMAIN r.sources, BookOK(r.sources[s]), Available(r) \in Int, NEW id
  PROVE  LET o == OpenTable(r, s, id)
         IN  \/ /\ o.error = "ok" /\ o.handle = r.next
                /\ \E table : /\ table.source = s /\ table.reserved \in Nat /\ table.reserved <= Available(r)
                              /\ o.runtime = AddTable(r, table)
             \/ o.error \in Failures
  <1> DEFINE book == r.sources[s]
             named == Keep(book.tables, {t \in Range(book.tables) : t.id = id})
             layout == book.layouts[named[1].name]
             content == book.contents[named[1].name]
             shape == Shape(content, layout)
             full == FullReservation(shape, content)
             table == [source |-> s, id |-> id, rows |-> shape.rows,
                       columns |-> shape.columns, cells |-> content.cells,
                       merged |-> layout.merged, reserved |-> full.retained,
                       warnings |-> MissingCaches(content)]
             o == OpenTable(r, s, id)
  <1>1. \/ o = Result("argument", r, None) \/ o = Result("limit", r, None)
        \/ /\ named # <<>> /\ ~(full.open > Available(r))
           /\ o = Result("ok", AddTable(r, table), r.next)
    <2> DEFINE z == Result("ok", AddTable(r, table), r.next)
    <2>1. o = IF s \notin DOMAIN r.sources THEN Result("closed", r, None)
              ELSE IF named = <<>> THEN Result("argument", r, None)
              ELSE IF ~FitsGrid(layout.rows, layout.columns) THEN Result("limit", r, None)
              ELSE IF Reservation(layout).open > Available(r) THEN Result("limit", r, None)
              ELSE IF ~FitsGrid(shape.rows, shape.columns) THEN Result("limit", r, None)
              ELSE IF full.open > Available(r) THEN Result("limit", r, None)
              ELSE z
      BY Zenon DEF OpenTable, AddTable
    <2> HIDE DEF z, o, full, shape, layout, named
    <2>2. \/ o = Result("argument", r, None) \/ o = Result("limit", r, None)
          \/ named # <<>> /\ ~(full.open > Available(r)) /\ o = z
      BY <2>1, Zenon
    <2>3. QED BY <2>2, Zenon DEF z
  <1>2. ASSUME named # <<>> PROVE layout \in SheetLayouts /\ Holds(content)
    <2> DEFINE set == {t \in Range(book.tables) : t.id = id}
    <2>1. named \in Seq(Range(book.tables) \cap set) BY KeepIs DEF BookOK
    <2> HIDE DEF set, named, book
    <2>2. named[1] \in Range(book.tables) BY <1>2, <2>1
    <2>3. QED BY <2>2 DEF BookOK, book
  <1> HIDE DEF named, layout, content, o
  <1>3. CASE /\ named # <<>> /\ ~(full.open > Available(r))
             /\ o = Result("ok", AddTable(r, table), r.next)
    <2>1. shape.rows \in Nat /\ shape.columns \in Nat BY <1>2, <1>3, ShapeIs DEF Holds
    <2> HIDE DEF shape
    <2>2. full.retained \in Nat /\ full.open \in Nat /\ full.retained <= full.open
      BY <1>2, <1>3, <2>1, FullIs
    <2>3. table.source = s /\ table.reserved = full.retained OBVIOUS
    <2> HIDE DEF full, table
    <2>4. table.reserved \in Nat /\ table.reserved <= Available(r) BY <1>3, <2>2, <2>3
    <2>5. o.error = "ok" /\ o.handle = r.next /\ o.runtime = AddTable(r, table) BY <1>3 DEF Result
    <2>6. QED BY <2>3, <2>4, <2>5 DEF o
  <1>4. CASE o = Result("argument", r, None) \/ o = Result("limit", r, None)
    BY <1>4 DEF Result, Failures, o
  <1>5. QED BY <1>1, <1>3, <1>4

-----------------------------------------------------------------------------
(* The steps of an open. *)
LEMMA FailuresStop == "ok" \notin Failures /\ "more" \notin Failures
  BY DEF Failures

\* The tail of a file can be asked for when the file is long enough to have one.
LEMMA TailRangeIs ==
  ASSUME NEW n \in Nat
  PROVE  \/ TailRange(n).error = "ok" /\ TailRange(n).value \in HostRanges
         \/ TailRange(n).error = "parse"
  <1> DEFINE U == {n, TailBytes}
             tail == Min(U)
  <1>1. TailBytes \in Nat /\ EndBytes \in Nat \ {0} BY PackageAssumption
  <1>2. U \in SUBSET Nat /\ U # {} /\ n \in U BY <1>1
  <1>3. TailRange(n) = IF tail < EndBytes THEN Refused("parse") ELSE Found(HostRange(n - tail, tail))
    BY DEF TailRange
  <1> HIDE DEF U
  <1>4. tail \in U /\ tail <= n BY <1>2, Smallest
  <1>5. tail \in Nat BY <1>2, <1>4
  <1> HIDE DEF tail
  <1>6. CASE tail < EndBytes BY <1>3, <1>6 DEF Refused
  <1>7. CASE ~(tail < EndBytes)
    <2>1. n - tail \in Nat /\ tail \in Nat \ {0} BY <1>1, <1>4, <1>5, <1>7
    <2>2. HostRange(n - tail, tail) \in HostRanges BY <2>1, RangeIs
    <2>3. QED BY <1>3, <1>7, <2>2 DEF Found
  <1>8. QED BY <1>6, <1>7

\* An entry decodes to a part of the file, or is malformed.
LEMMA DecodeIs ==
  ASSUME NEW f, NEW index, NEW entry
  PROVE  \/ /\ Decode(f, index, entry).error = "ok"
            /\ \E p \in DOMAIN f.parts : Decode(f, index, entry).value = f.parts[p]
         \/ Decode(f, index, entry).error = "parse"
  BY DEF Decode, Found, Refused

\* A relationship target resolves, or is refused.
LEMMA TargetIs ==
  ASSUME NEW base, NEW target
  PROVE  ResolveTarget(base, target).error \in Failures \cup {"ok"}
  <1> DEFINE t == ResolveTarget(base, target)
  <1>1. t = Refused("unsupported") \/ t = Refused("parse") \/ \E path : t = Found(path)
    BY Zenon DEF ResolveTarget
  <1> HIDE DEF t
  <1>2. QED BY <1>1 DEF Refused, Found, Failures, t

\* The descriptors of a workbook are a sequence, or a refusal.
LEMMA DescriptorsAre ==
  ASSUME NEW sheets, Len(sheets) \in Nat, NEW relationships, Len(relationships) \in Nat, NEW base
  PROVE  LET d == Descriptors(sheets, relationships, base)
         IN  \/ d.error = "ok" /\ d.value \in Seq(Range(d.value))
             \/ d.error \in Failures
  <1> DEFINE worksheets == {k \in 1 .. Len(relationships) :
                              relationships[k].kind = "worksheet" /\ ~relationships[k].external}
             resolved(k) == ResolveTarget(base, relationships[k].target)
             failed == {k \in worksheets : resolved(k).error # "ok"}
             targets(id) == {k \in worksheets : relationships[k].id = id}
             v == [k \in 1 .. Len(sheets) |->
                     [id |-> k - 1, name |-> sheets[k].name, visibility |-> sheets[k].visibility,
                      path |-> resolved(Max(targets(sheets[k].relationship))).value]]
             d == Descriptors(sheets, relationships, base)
  <1>1. \/ d = Refused("limit") \/ d = Refused("parse") \/ d = Refused("unsupported")
        \/ failed # {} /\ d = resolved(Min(failed))
        \/ d = Found(v)
    BY Zenon DEF Descriptors
  <1>2. failed \in SUBSET Nat /\ \A k \in failed : resolved(k).error # "ok" OBVIOUS
  <1>3. v = [k \in 1 .. Len(sheets) |-> v[k]] OBVIOUS
  <1> HIDE DEF failed, v, d
  <1>4. CASE failed # {} /\ d = resolved(Min(failed))
    <2>1. Min(failed) \in failed BY <1>2, <1>4, Smallest
    <2>2. resolved(Min(failed)).error # "ok" BY <1>2, <2>1
    <2>3. resolved(Min(failed)).error \in Failures \cup {"ok"} BY TargetIs
    <2> HIDE DEF resolved
    <2>4. QED BY <1>4, <2>2, <2>3 DEF d
  <1>5. CASE d = Found(v)
    <2>1. v \in Seq(Range(v)) BY <1>3, SequenceOf
    <2>2. QED BY <1>5, <2>1 DEF Found, d
  <1>6. CASE d = Refused("limit") \/ d = Refused("parse") \/ d = Refused("unsupported")
    BY <1>6 DEF Refused, Failures, d
  <1>7. QED BY <1>1, <1>4, <1>5, <1>6

\* The workbook and its relationships.
LEMMA FetchedSource ==
  ASSUME file \in Files, file.kind = "xlsx", NEW ix, NEW index, IsIndex(index), NEW got, got.fetch \in Fetches,
         got.error = "more" => got.value \in Missing(ix)
  PROVE  StepOK(file, ix, WorkbookFetched(index, got))
  <1> DEFINE path == RelationshipsPath(Workbook)
             workbook == Decode(file, index, EntryOf(got.fetch.entries, Workbook))
             relationships == Decode(file, index, EntryOf(got.fetch.entries, path))
             tables == Descriptors(workbook.value.sheets, relationships.value.relationships, BaseOf(path))
             asks == Asks(got.value, "workbook", [index |-> index, fetch |-> got.fetch])
             opened == Opened("xlsx", index, got.fetch.entries, tables.value, None)
             step == WorkbookFetched(index, got)
  <1>1. \/ got.error = "more" /\ step = asks
        \/ got.error # "ok" /\ got.error # "more" /\ step = Stops(got.error)
        \/ workbook.error # "ok" /\ step = Stops(workbook.error)
        \/ relationships.error # "ok" /\ step = Stops(relationships.error)
        \/ workbook.error = "ok" /\ relationships.error = "ok" /\ tables.error # "ok" /\ step = Stops(tables.error)
        \/ workbook.error = "ok" /\ relationships.error = "ok" /\ tables.error = "ok" /\ step = opened
    BY Zenon DEF WorkbookFetched
  <1>2. \/ workbook.error = "ok" /\ \E p \in DOMAIN file.parts : workbook.value = file.parts[p]
        \/ workbook.error = "parse"
    BY DecodeIs
  <1>3. \/ relationships.error = "ok" /\ \E p \in DOMAIN file.parts : relationships.value = file.parts[p]
        \/ relationships.error = "parse"
    BY DecodeIs
  <1>4. \A p \in DOMAIN file.parts : IsPart(file.parts[p]) BY DocumentIs
  <1> HIDE DEF workbook, relationships, step, path
  <1>5. ASSUME workbook.error = "ok", relationships.error = "ok"
        PROVE  (tables.error = "ok" /\ tables.value \in Seq(Range(tables.value))) \/ tables.error \in Failures
    <2>1. IsPart(workbook.value) /\ IsPart(relationships.value) BY <1>2, <1>3, <1>4, <1>5
    <2>2. Len(workbook.value.sheets) \in Nat /\ Len(relationships.value.relationships) \in Nat
      BY <2>1 DEF IsPart
    <2>3. QED BY <2>2, DescriptorsAre
  <1> HIDE DEF tables, asks, opened
  <1>6. CASE got.error = "more" /\ step = asks
    <2>1. PhaseOK(file, "workbook", [index |-> index, fetch |-> got.fetch]) BY DEF PhaseOK
    <2>2. QED BY <1>6, <2>1, AsksIs DEF asks, step
  <1>7. CASE got.error # "ok" /\ got.error # "more" /\ step = Stops(got.error)
    BY <1>7, StopsIs DEF step
  <1>8. CASE workbook.error # "ok" /\ step = Stops(workbook.error)
    <2>1. workbook.error = "parse" BY <1>2, <1>8
    <2>2. workbook.error \notin {"more", "ok"} BY <2>1
    <2>3. QED BY <1>8, <2>2, StopsIs DEF step
  <1>9. CASE relationships.error # "ok" /\ step = Stops(relationships.error)
    <2>1. relationships.error = "parse" BY <1>3, <1>9
    <2>2. relationships.error \notin {"more", "ok"} BY <2>1
    <2>3. QED BY <1>9, <2>2, StopsIs DEF step
  <1>10. CASE workbook.error = "ok" /\ relationships.error = "ok" /\ tables.error # "ok" /\ step = Stops(tables.error)
    <2>1. tables.error \notin {"more", "ok"} BY <1>5, <1>10, FailuresStop
    <2>2. QED BY <1>10, <2>1, StopsIs DEF step
  <1>11. CASE workbook.error = "ok" /\ relationships.error = "ok" /\ tables.error = "ok" /\ step = opened
    <2>1. tables.value \in Seq(Range(tables.value)) BY <1>5, <1>11, FailuresStop
    <2>2. got.fetch.entries \in Seq(Entries) BY DEF Fetches
    <2>3. /\ opened.end = "ok" /\ opened.kind = "xlsx" /\ opened.index = index
          /\ opened.entries = got.fetch.entries /\ opened.tables = tables.value
      BY DEF opened, Opened
    <2>4. SourceOK(file, opened) BY <2>1, <2>2, <2>3 DEF SourceOK
    <2>5. QED BY <1>11, <2>3, <2>4 DEF StepOK, step
  <1>12. QED BY <1>1, <1>6, <1>7, <1>8, <1>9, <1>10, <1>11

\* The step that reads the workbook part waits for a missing range, becomes a source, or stops.
LEMMA WorkbookStepIs ==
  ASSUME file \in Files, file.kind = "xlsx", NEW ix, StoreOK(ix), NEW index, IsIndex(index), NEW fetch \in Fetches
  PROVE  StepOK(file, ix, WorkbookStep(ix, index, fetch))
  <1> DEFINE got == AdvanceFetch(file, ix, index, fetch)
  <1>1. IsPackage(file) BY DocumentIs
  <1>2. got.fetch \in Fetches /\ (got.error = "more" => got.value \in Missing(ix))
    BY <1>1, AdvanceIs
  <1> HIDE DEF got
  <1>3. StepOK(file, ix, WorkbookFetched(index, got)) BY <1>2, FetchedSource
  <1>4. QED BY <1>3 DEF WorkbookStep, got

\* The first fetch of an open: the workbook part and its relationships.
LEMMA FirstFetch == NewFetch(<<Workbook, RelationshipsPath(Workbook)>>, <<>>) \in Fetches
  <1> DEFINE paths == <<Workbook, RelationshipsPath(Workbook)>>
  <1>1. paths \in Seq(PartPaths) BY DEF PartPaths
  <1>2. <<>> \in Seq(Entries) OBVIOUS
  <1> HIDE DEF paths
  <1>3. NewFetch(paths, <<>>) \in Fetches BY <1>1, <1>2 DEF NewFetch, Fetches
  <1>4. QED BY <1>3 DEF paths

\* The step that reads the central directory.
LEMMA CentralStepIs ==
  ASSUME file \in Files, file.kind = "xlsx", NEW ix, StoreOK(ix)
  PROVE  StepOK(file, ix, CentralStep(ix))
  <1> DEFINE tailRange == TailRange(ix.length)
             tail == Bytes(ix, tailRange.value)
             location == FindEnd(file, tail, tailRange.value.offset)
             central == Bytes(ix, location.value.range)
             index == ParseCentral(file, central, location.value.entries)
             required == {Types, Workbook, RelationshipsPath(Workbook)}
             first == NewFetch(<<Workbook, RelationshipsPath(Workbook)>>, <<>>)
             step == CentralStep(ix)
  <1>1. \/ step = Stops("unindexed") \/ step = Stops("parse")
        \/ location.error # "ok" /\ step = Stops(location.error)
        \/ index.error # "ok" /\ step = Stops(index.error)
        \/ index.error = "ok" /\ step = WorkbookStep(ix, index.value, first)
    BY Zenon DEF CentralStep
  <1>2. IsPackage(file) BY DocumentIs
  <1>3. location.error \in Failures \cup {"ok"} BY FindEndEnds
  <1>4. (index.error = "ok" /\ IsIndex(index.value)) \/ index.error \in Failures BY <1>2, CentralIs
  <1>5. first \in Fetches BY FirstFetch
  <1> HIDE DEF location, index, first, step
  <1>6. CASE step = Stops("unindexed") \/ step = Stops("parse") BY <1>6, StopsIs DEF step
  <1>7. CASE location.error # "ok" /\ step = Stops(location.error)
    <2>1. location.error \notin {"more", "ok"} BY <1>3, <1>7, FailuresStop
    <2>2. QED BY <1>7, <2>1, StopsIs DEF step
  <1>8. CASE index.error # "ok" /\ step = Stops(index.error)
    <2>1. index.error \notin {"more", "ok"} BY <1>4, <1>8, FailuresStop
    <2>2. QED BY <1>8, <2>1, StopsIs DEF step
  <1>9. CASE index.error = "ok" /\ step = WorkbookStep(ix, index.value, first)
    <2>1. IsIndex(index.value) BY <1>4, <1>9, FailuresStop
    <2>2. QED BY <1>5, <1>9, <2>1, WorkbookStepIs DEF step
  <1>10. QED BY <1>1, <1>6, <1>7, <1>8, <1>9

\* The step that reads the tail of the file.
LEMMA TailStepIs ==
  ASSUME file \in Files, file.kind = "xlsx", NEW ix, StoreOK(ix)
  PROVE  StepOK(file, ix, TailStep(ix))
  <1> DEFINE tailRange == TailRange(ix.length)
             tail == Need(ix, tailRange.value)
             location == FindEnd(file, tail.value, tailRange.value.offset)
             central == Need(ix, location.value.range)
             step == TailStep(ix)
  <1>1. \/ tailRange.error # "ok" /\ step = Stops(tailRange.error)
        \/ tailRange.error = "ok" /\ tail.error = "more" /\ step = Asks(tail.value, "detect", None)
        \/ /\ tailRange.error = "ok" /\ tail.error # "more"
           /\ \/ location.error # "ok" /\ step = Stops(location.error)
              \/ location.error = "ok" /\ central.error = "more" /\ step = Asks(central.value, "central", None)
              \/ step = CentralStep(ix)
    BY Zenon DEF TailStep
  <1>2. IsPackage(file) BY DocumentIs
  <1>3. \/ tailRange.error = "ok" /\ tailRange.value \in HostRanges
        \/ tailRange.error = "parse"
    BY TailRangeIs DEF StoreOK, Stores
  <1> HIDE DEF tailRange
  <1>4. tailRange.error = "ok" => \/ tail.error = "ok" /\ tail.value \in Seq(Int)
                                  \/ tail.error = "more" /\ tail.value \in Missing(ix)
    BY <1>3, NeedIs
  <1> HIDE DEF tail
  <1>5. tailRange.error = "ok" /\ tail.error # "more" =>
           \/ location.error = "ok" /\ location.value.range \in HostRanges
           \/ location.error \in Failures
    BY <1>2, <1>4, FindEndIs
  <1> HIDE DEF location
  <1>6. tailRange.error = "ok" /\ tail.error # "more" /\ location.error = "ok" =>
           (central.error = "more" => central.value \in Missing(ix))
    BY <1>5, NeedIs, FailuresStop
  <1> HIDE DEF central, step
  <1>7. CASE tailRange.error # "ok" /\ step = Stops(tailRange.error)
    <2>1. tailRange.error = "parse" BY <1>3, <1>7
    <2>2. tailRange.error \notin {"more", "ok"} BY <2>1
    <2>3. QED BY <1>7, <2>2, StopsIs DEF step
  <1>8. CASE tailRange.error = "ok" /\ tail.error = "more" /\ step = Asks(tail.value, "detect", None)
    <2>1. tail.value \in Missing(ix) BY <1>4, <1>8
    <2>2. PhaseOK(file, "detect", None) BY DEF PhaseOK
    <2>3. QED BY <1>8, <2>1, <2>2, AsksIs DEF step
  <1>9. CASE tailRange.error = "ok" /\ tail.error # "more" /\ location.error # "ok" /\ step = Stops(location.error)
    <2>1. location.error \notin {"more", "ok"} BY <1>5, <1>9, FailuresStop
    <2>2. QED BY <1>9, <2>1, StopsIs DEF step
  <1>10. CASE /\ tailRange.error = "ok" /\ tail.error # "more" /\ location.error = "ok" /\ central.error = "more"
              /\ step = Asks(central.value, "central", None)
    <2>1. central.value \in Missing(ix) BY <1>6, <1>10
    <2>2. PhaseOK(file, "central", None) BY DEF PhaseOK
    <2>3. QED BY <1>10, <2>1, <2>2, AsksIs DEF step
  <1>11. CASE step = CentralStep(ix) BY <1>11, CentralStepIs DEF step
  <1>12. QED BY <1>1, <1>7, <1>8, <1>9, <1>10, <1>11

-----------------------------------------------------------------------------
(* Legacy workbooks. *)
LEMMA PrefixIs ==
  ASSUME NEW ix, StoreOK(ix)
  PROVE  Prefix(ix) \in Seq(Int)
  <1> DEFINE R == DOMAIN ix.ranges
             g == [s \in R |-> EndOf(ix, s)]
             U == {0} \cup {EndOf(ix, s) : s \in R}
             n == PrefixEnd(ix)
             v == Prefix(ix)
  <1>1. /\ ix \in Stores /\ IsFiniteSet(R)
        /\ \A s \in R : /\ s \in Nat /\ EndOf(ix, s) \in Nat /\ ix.ranges[s] \in Seq(Int)
                        /\ EndOf(ix, s) = s + Len(ix.ranges[s])
    BY StoreType DEF StoreOK
  <1>2. n \in Nat
    <2>1. IsFiniteSet({EndOf(ix, s) : s \in R})
      <3>1. DOMAIN g = R /\ \A s \in R : g[s] = EndOf(ix, s) OBVIOUS
      <3>2. {EndOf(ix, s) : s \in R} = {g[x] : x \in DOMAIN g} BY <3>1
      <3> HIDE DEF g, R
      <3>3. IsFiniteSet({g[x] : x \in DOMAIN g}) BY <1>1, <3>1, ImageFinite
      <3>4. QED BY <3>2, <3>3
    <2>2. U \in SUBSET Nat /\ U # {} BY <1>1
    <2>3. IsFiniteSet(U)
      <3> DEFINE V == {EndOf(ix, s) : s \in R}
      <3>1. U = V \cup {0} /\ IsFiniteSet(V) BY <2>1
      <3> HIDE DEF U, V
      <3>2. QED BY <3>1, FS_AddElement
    <2>4. n = Max(U) BY DEF PrefixEnd
    <2> HIDE DEF U, n
    <2>5. U \in SUBSET Int BY <2>2
    <2>6. QED BY <2>2, <2>3, <2>4, <2>5, Greatest
  <1>3. \A k \in 1 .. n : v[k] \in Int
    <2> SUFFICES ASSUME NEW k \in 1 .. n PROVE v[k] \in Int
      OBVIOUS
    <2> DEFINE b == StartBefore(ix, k - 1)
    <2>1. k \in Nat /\ k >= 1 /\ k - 1 \in Nat BY <1>2
    <2>2. v[k] = IF b # None /\ k <= EndOf(ix, b) THEN ix.ranges[b][k - b] ELSE Zero BY DEF Prefix
    <2>3. b = None \/ (b \in R /\ b <= k - 1)
      <3> DEFINE p == k - 1
      <3>1. p \in Nat BY <2>1
      <3> HIDE DEF p
      <3>2. StartBefore(ix, p) = None \/ (StartBefore(ix, p) \in R /\ StartBefore(ix, p) <= p)
        BY <3>1, BeforeIs
      <3>3. QED BY <3>2 DEF p
    <2> HIDE DEF b, v
    <2>4. CASE b # None /\ k <= EndOf(ix, b)
      <3>1. b \in R /\ b <= k - 1 BY <2>3, <2>4
      <3>2. ix.ranges[b] \in Seq(Int) /\ k - b \in 1 .. Len(ix.ranges[b]) BY <1>1, <2>1, <2>4, <3>1
      <3>3. ix.ranges[b][k - b] \in Int BY <3>2
      <3>4. v[k] = ix.ranges[b][k - b] BY <2>2, <2>4, Zenon
      <3>5. QED BY <3>3, <3>4
    <2>5. CASE ~(b # None /\ k <= EndOf(ix, b))
      <3>1. v[k] = Zero BY <2>2, <2>5, Zenon
      <3>2. QED BY <3>1 DEF Zero
    <2>6. QED BY <2>4, <2>5, Zenon
  <1>4. v = [k \in 1 .. n |-> v[k]] BY DEF Prefix
  <1> HIDE DEF v, n
  <1>5. [k \in 1 .. n |-> v[k]] \in [1 .. n -> Int] BY <1>3
  <1>6. v \in [1 .. n -> Int] BY <1>4, <1>5
  <1>7. v \in Seq(Int) BY <1>2, <1>6
  <1>8. QED BY <1>7 DEF v

\* Compacting a legacy workbook asks for a missing range, or ends.
LEMMA CompactXlsIs ==
  ASSUME NEW ix, StoreOK(ix), NEW reads \in Seq(0 .. ix.length - 1), NEW hasWorkbook
  PROVE  LET c == CompactXls(ix, reads, hasWorkbook)
         IN  \/ c.end = "more" /\ c.range \in Missing(ix)
             \/ c.end = "ok" /\ c.bytes \in Seq(Int)
             \/ c.end \in Failures
  <1> DEFINE set == Range(reads) \ Indexed(ix)
             absent == Keep(reads, set)
             ends(how, range, bytes) == [end |-> how, range |-> range, bytes |-> bytes]
             c == CompactXls(ix, reads, hasWorkbook)
  <1>1. \/ absent # <<>> /\ c = ends("more", WantedWindow(ix, absent[1]), None)
        \/ c = ends("parse", None, None) \/ c = ends("limit", None, None)
        \/ c = ends("ok", None, Prefix(ix))
    BY Zenon DEF CompactXls
  <1> HIDE DEF c
  <1>2. CASE absent # <<>> /\ c = ends("more", WantedWindow(ix, absent[1]), None)
    <2>1. absent \in Seq((0 .. ix.length - 1) \cap set) BY KeepIs
    <2> HIDE DEF absent
    <2>2. absent[1] \in (0 .. ix.length - 1) \cap set BY <1>2, <2>1
    <2>3. absent[1] \in 0 .. ix.length - 1 /\ absent[1] \notin Indexed(ix) BY <2>2
    <2> HIDE DEF set
    <2>4. WantedWindow(ix, absent[1]) \in Missing(ix) BY <2>3, WindowMissing
    <2>5. c.end = "more" /\ c.range = WantedWindow(ix, absent[1]) BY <1>2
    <2>6. QED BY <2>4, <2>5 DEF c
  <1>3. CASE c = ends("parse", None, None) \/ c = ends("limit", None, None) BY <1>3 DEF Failures, c
  <1>4. CASE c = ends("ok", None, Prefix(ix))
    <2>1. c.end = "ok" /\ c.bytes = Prefix(ix) BY <1>4
    <2>2. QED BY <2>1, PrefixIs DEF c
  <1>5. QED BY <1>1, <1>2, <1>3, <1>4

\* Listing a legacy workbook gives a source, or stops.
LEMMA ListXlsIs ==
  ASSUME file \in Files, file.kind = "xls", NEW ix, NEW compact \in Seq(Int)
  PROVE  StepOK(file, ix, ListXls(OpenSource(file, runtime, compact), compact))
  <1> DEFINE listed == OpenSource(file, runtime, compact)
             tables == listed.runtime.sources[listed.handle].tables
             rows == [k \in 1 .. Len(tables) |-> [id |-> tables[k].id, path |-> <<>>]]
             opened == Opened("xls", None, <<>>, rows, compact)
             step == ListXls(listed, compact)
  <1>1. \/ listed.error # "ok" /\ step = Stops(listed.error)
        \/ step = opened
    BY Zenon DEF ListXls
  <1>2. listed.error = "ok" \/ listed.error \in Failures BY OpenSourceIs DEF CompactOK
  <1> HIDE DEF listed, rows, step
  <1>3. CASE listed.error # "ok" /\ step = Stops(listed.error)
    <2>1. listed.error \notin {"more", "ok"} BY <1>2, <1>3, FailuresStop
    <2>2. QED BY <1>3, <2>1, StopsIs DEF step, listed
  <1>4. CASE step = opened
    <2>1. opened.end = "ok" /\ opened.kind = "xls" /\ opened.compact = compact BY DEF Opened
    <2> HIDE DEF opened
    <2>2. SourceOK(file, opened) BY <2>1 DEF SourceOK
    <2>3. QED BY <1>4, <2>1, <2>2 DEF StepOK, step, listed
  <1>5. QED BY <1>1, <1>3, <1>4

\* The step that reads a legacy workbook.
LEMMA XlsStepIs ==
  ASSUME file \in Files, file.kind = "xls", NEW ix, StoreOK(ix), ix.length = file.length
  PROVE  StepOK(file, ix, XlsStep(ix))
  <1> DEFINE compact == CompactXls(ix, file.reads, file.hasWorkbook)
             step == XlsStep(ix)
  <1>1. \/ compact.end = "more" /\ step = Asks(compact.range, "xls", None)
        \/ compact.end # "ok" /\ compact.end # "more" /\ step = Stops(compact.end)
        \/ compact.end = "ok" /\ step = ListXls(OpenSource(file, runtime, compact.bytes), compact.bytes)
    BY Zenon DEF XlsStep
  <1>2. \/ compact.end = "more" /\ compact.range \in Missing(ix)
        \/ compact.end = "ok" /\ compact.bytes \in Seq(Int)
        \/ compact.end \in Failures
    <2>1. file.reads \in Seq(0 .. ix.length - 1) BY DocumentIs
    <2>2. QED BY <2>1, CompactXlsIs
  <1> HIDE DEF compact, step
  <1>3. CASE compact.end = "more" /\ step = Asks(compact.range, "xls", None)
    <2>1. compact.range \in Missing(ix) BY <1>2, <1>3, FailuresStop
    <2>2. PhaseOK(file, "xls", None) BY DEF PhaseOK
    <2>3. QED BY <1>3, <2>1, <2>2, AsksIs DEF step
  <1>4. CASE compact.end # "ok" /\ compact.end # "more" /\ step = Stops(compact.end)
    BY <1>4, StopsIs DEF step
  <1>5. CASE compact.end = "ok" /\ step = ListXls(OpenSource(file, runtime, compact.bytes), compact.bytes)
    <2>1. compact.bytes \in Seq(Int) BY <1>2, <1>5, FailuresStop
    <2>2. QED BY <1>5, <2>1, ListXlsIs DEF step
  <1>6. QED BY <1>1, <1>3, <1>4, <1>5

\* The step that tells the formats apart.
LEMMA DetectStepIs ==
  ASSUME file \in Files, NEW ix, StoreOK(ix), ix.length = file.length
  PROVE  StepOK(file, ix, DetectStep(ix))
  <1> DEFINE step == DetectStep(ix)
  <1>1. \/ step = Stops("unindexed") \/ step = Stops("parse")
        \/ file.kind = "xls" /\ step = XlsStep(ix)
        \/ file.kind \in {"xls", "xlsx"} /\ file.kind # "xls" /\ step = TailStep(ix)
    BY Zenon DEF DetectStep
  <1> HIDE DEF step
  <1>2. CASE step = Stops("unindexed") \/ step = Stops("parse") BY <1>2, StopsIs DEF step
  <1>3. CASE file.kind = "xls" /\ step = XlsStep(ix) BY <1>3, XlsStepIs DEF step
  <1>4. CASE file.kind \in {"xls", "xlsx"} /\ file.kind # "xls" /\ step = TailStep(ix)
    <2>1. file.kind = "xlsx" BY <1>4
    <2>2. QED BY <1>4, <2>1, TailStepIs DEF step
  <1>5. QED BY <1>1, <1>2, <1>3, <1>4

\* Whatever phase an open is in, it asks for a range some of which is
\* missing, becomes a source, or stops.
LEMMA OpenStepIs ==
  ASSUME file \in Files, NEW ix, StoreOK(ix), ix.length = file.length, NEW op, PhaseOK(file, op.phase, op.fetch)
  PROVE  StepOK(file, ix, OpenStep(op, ix))
  <1>1. op.phase \in {"detect", "central", "workbook", "xls"} BY DEF PhaseOK
  <1>2. CASE op.phase = "detect"
    <2>1. OpenStep(op, ix) = DetectStep(ix) BY <1>2 DEF OpenStep
    <2>2. QED BY <2>1, DetectStepIs
  <1>3. CASE op.phase = "central"
    <2>1. OpenStep(op, ix) = CentralStep(ix) BY <1>3 DEF OpenStep
    <2>2. file.kind = "xlsx" BY <1>3 DEF PhaseOK
    <2>3. QED BY <2>1, <2>2, CentralStepIs
  <1>4. CASE op.phase = "workbook"
    <2>1. OpenStep(op, ix) = WorkbookStep(ix, op.fetch.index, op.fetch.fetch) BY <1>4 DEF OpenStep
    <2>2. file.kind = "xlsx" /\ IsIndex(op.fetch.index) /\ op.fetch.fetch \in Fetches
      BY <1>4 DEF PhaseOK
    <2>3. QED BY <2>1, <2>2, WorkbookStepIs
  <1>5. CASE op.phase = "xls"
    <2>1. OpenStep(op, ix) = XlsStep(ix) BY <1>5 DEF OpenStep
    <2>2. file.kind = "xls" BY <1>5 DEF PhaseOK
    <2>3. QED BY <2>1, <2>2, XlsStepIs
  <1>6. QED BY <1>1, <1>2, <1>3, <1>4, <1>5

-----------------------------------------------------------------------------
(* The registry: what is reserved for the opened workbooks and worksheets. *)
IsMap(m) == m = [h \in DOMAIN m |-> m[h]] /\ IsFiniteSet(DOMAIN m) /\ DOMAIN m \subseteq Nat
Reserving(m) == IsMap(m) /\ \A h \in DOMAIN m : m[h].reserved \in Nat
Amounts(m) == [h \in DOMAIN m |-> m[h].reserved]
SomeAmounts(m, S) == [h \in S |-> m[h].reserved]

\* What a map has reserved is the total of its entries.
LEMMA ReservedIs ==
  ASSUME NEW m, Reserving(m)
  PROVE  /\ Reserved(m) = Total(Amounts(m), DOMAIN m) /\ NatOn(Amounts(m), DOMAIN m)
         /\ Reserved(m) \in Nat
  <1> DEFINE g == Amounts(m)
  <1>1. DOMAIN g = DOMAIN m /\ \A h \in DOMAIN m : g[h] = m[h].reserved BY DEF Amounts
  <1>2. Reserved(m) = SumOf(g) BY DEF Reserved, Amounts
  <1> HIDE DEF g
  <1>3. Reserved(m) = Total(g, DOMAIN m) BY <1>1, <1>2, SumIsTotal
  <1>4. NatOn(g, DOMAIN m) BY <1>1 DEF NatOn, Reserving, IsMap
  <1>5. Total(g, DOMAIN m) \in Nat BY <1>4, TotalType
  <1>6. QED BY <1>3, <1>4, <1>5 DEF g

\* A new entry adds what it reserves.
LEMMA ReservingWith ==
  ASSUME NEW m, Reserving(m), NEW a \in Nat, a \notin DOMAIN m, NEW v, v.reserved \in Nat
  PROVE  /\ Reserving(With(m, a, v)) /\ DOMAIN With(m, a, v) = DOMAIN m \cup {a}
         /\ With(m, a, v)[a] = v /\ \A h \in DOMAIN m : With(m, a, v)[h] = m[h]
         /\ Reserved(With(m, a, v)) = Reserved(m) + v.reserved
  <1> DEFINE w == With(m, a, v)
             D == DOMAIN m
             g == Amounts(m)
             h == Amounts(w)
  <1>1. DOMAIN w = D \cup {a} /\ w[a] = v /\ \A k \in D : w[k] = m[k] BY DEF With
  <1>2. w = [k \in DOMAIN w |-> w[k]] BY DEF With
  <1>3. IsFiniteSet(D) /\ D \subseteq Nat BY DEF Reserving, IsMap
  <1>4. IsFiniteSet(D \cup {a}) BY <1>3, FS_AddElement
  <1>5. \A k \in D : m[k].reserved \in Nat BY DEF Reserving
  <1>6. a \notin D OBVIOUS
  <1> HIDE DEF w
  <1>7. Reserving(w)
    <2> HIDE DEF D
    <2>1. \A k \in D \cup {a} : w[k].reserved \in Nat BY <1>1, <1>5
    <2>2. QED BY <1>1, <1>2, <1>3, <1>4, <2>1 DEF Reserving, IsMap
  <1>8. h[a] = v.reserved /\ \A k \in D : h[k] = g[k] BY <1>1 DEF Amounts
  <1>9. Reserved(m) = Total(g, D) /\ NatOn(g, D) BY ReservedIs
  <1>10. Reserved(w) = Total(h, D \cup {a}) BY <1>1, <1>7, ReservedIs
  <1> HIDE DEF g, h, D
  <1>11. NatOn(h, D) /\ Total(h, D) = Total(g, D) BY <1>8, <1>9, TotalSame
  <1>12. h[a] \in Nat BY <1>8
  <1>13. Total(h, D \cup {a}) = h[a] + Total(h, D) BY <1>6, <1>11, <1>12, TotalAdd
  <1>14. Total(h, D) \in Nat BY <1>11, TotalType
  <1>15. Reserved(w) = Reserved(m) + v.reserved BY <1>8, <1>9, <1>10, <1>11, <1>13, <1>14
  <1>16. QED BY <1>1, <1>7, <1>15 DEF w, D

\* A map without some handles keeps the others as they were.
LEMMA ReservingWithout ==
  ASSUME NEW m, Reserving(m), NEW S
  PROVE  /\ Reserving(Without(m, S)) /\ DOMAIN Without(m, S) = DOMAIN m \ S
         /\ \A h \in DOMAIN m \ S : Without(m, S)[h] = m[h]
  <1> DEFINE w == Without(m, S)
             D == DOMAIN m
             R == D \ S
  <1>1. DOMAIN w = R /\ \A k \in R : w[k] = m[k] BY DEF Without
  <1>2. w = [k \in DOMAIN w |-> w[k]] BY DEF Without
  <1>3. IsFiniteSet(D) /\ D \subseteq Nat BY DEF Reserving, IsMap
  <1>4. IsFiniteSet(R) BY <1>3, FS_Subset
  <1>5. \A k \in D : m[k].reserved \in Nat BY DEF Reserving
  <1> HIDE DEF w
  <1>6. Reserving(w) BY <1>1, <1>2, <1>3, <1>4, <1>5 DEF Reserving, IsMap
  <1>11. QED BY <1>1, <1>6 DEF w, D, R

\* What is reserved splits into what is taken out and what stays.
LEMMA ReservedWithout ==
  ASSUME NEW m, Reserving(m), NEW S, S \subseteq DOMAIN m
  PROVE  /\ SumOf(SomeAmounts(m, S)) \in Nat /\ Reserved(Without(m, S)) \in Nat
         /\ Reserved(m) = SumOf(SomeAmounts(m, S)) + Reserved(Without(m, S))
  <1> DEFINE w == Without(m, S)
             D == DOMAIN m
             R == D \ S
             g == Amounts(m)
             h == Amounts(w)
             p == SomeAmounts(m, S)
  <1>1. DOMAIN w = R /\ \A k \in R : w[k] = m[k] BY DEF Without
  <1>3. IsFiniteSet(D) BY DEF Reserving, IsMap
  <1>5. \A k \in D : m[k].reserved \in Nat BY DEF Reserving
  <1>6. Reserving(w) BY ReservingWithout
  <1> HIDE DEF w
  <1>7. \A k \in R : h[k] = g[k] BY <1>1 DEF Amounts
  <1>8. Reserved(m) = Total(g, D) /\ NatOn(g, D) BY ReservedIs
  <1>9. Reserved(w) = Total(h, R) /\ NatOn(h, R) /\ Reserved(w) \in Nat BY <1>1, <1>6, ReservedIs
  <1>10. SumOf(p) \in Nat /\ Reserved(m) = SumOf(p) + Reserved(w)
    <2>1. D = S \cup R /\ S \cap R = {} OBVIOUS
    <2>2. IsFiniteSet(S) BY <1>3, FS_Subset
    <2>3. DOMAIN p = S /\ \A k \in S : p[k] = g[k] /\ p[k] \in Nat BY <1>5 DEF Amounts, SomeAmounts
    <2> HIDE DEF p, R, g, h, D
    <2>4. NatOn(p, S) BY <2>2, <2>3 DEF NatOn
    <2>5. SumOf(p) = Total(p, S) /\ SumOf(p) \in Nat BY <2>3, <2>4, SumIsTotal, TotalType
    <2>6. NatOn(g, S) /\ Total(g, S) = Total(p, S) BY <2>3, <2>4, TotalSame
    <2>7. NatOn(g, R) /\ Total(g, R) = Total(h, R) BY <1>7, <1>9, TotalSame
    <2>8. Total(g, S \cup R) = Total(g, S) + Total(g, R) BY <2>1, <2>6, <2>7, TotalUnion
    <2>9. QED BY <1>8, <1>9, <2>1, <2>5, <2>6, <2>7, <2>8
  <1>11. QED BY <1>9, <1>10 DEF w, p

\* Taking out handles a map does not have changes nothing.
LEMMA WithoutNone ==
  ASSUME NEW m, IsMap(m), NEW S, S \cap DOMAIN m = {}
  PROVE  Without(m, S) = m
  <1>1. DOMAIN m \ S = DOMAIN m OBVIOUS
  <1>2. QED BY <1>1 DEF Without, IsMap

\* Taking out twice is taking out the union.
LEMMA WithoutTwice ==
  ASSUME NEW m, NEW S, NEW T
  PROVE  Without(Without(m, S), T) = Without(m, S \cup T)
  <1>1. DOMAIN Without(m, S) = DOMAIN m \ S BY DEF Without
  <1>2. (DOMAIN m \ S) \ T = DOMAIN m \ (S \cup T) OBVIOUS
  <1>3. QED BY <1>1, <1>2 DEF Without

IsRegistry(r) ==
    r = [next |-> r.next, retained |-> r.retained, sources |-> r.sources, tables |-> r.tables]

RegistryOK(r) ==
    /\ IsRegistry(r) /\ r.next \in Nat
    /\ Reserving(r.sources) /\ Reserving(r.tables)
    /\ \A h \in DOMAIN r.sources : h < r.next /\ BookOK(r.sources[h])
    /\ \A h \in DOMAIN r.tables : h < r.next
    /\ r.retained = Reserved(r.sources) + Reserved(r.tables)

\* The registry without some of its sources and tables.
Left(r, X, Y) ==
    [next |-> r.next, retained |-> Reserved(Without(r.sources, X)) + Reserved(Without(r.tables, Y)),
     sources |-> Without(r.sources, X), tables |-> Without(r.tables, Y)]
Owned(r, s) == {t \in DOMAIN r.tables : r.tables[t].source = s}

\* A registry some documents left is still in order, and its other tables are as they were.
LEMMA LeftOK ==
  ASSUME NEW r, RegistryOK(r), NEW X, NEW Y
  PROVE  /\ RegistryOK(Left(r, X, Y)) /\ Left(r, X, Y).next = r.next
         /\ DOMAIN Left(r, X, Y).sources = DOMAIN r.sources \ X
         /\ DOMAIN Left(r, X, Y).tables = DOMAIN r.tables \ Y
         /\ \A t \in DOMAIN r.tables \ Y : Left(r, X, Y).tables[t] = r.tables[t]
  <1> DEFINE l == Left(r, X, Y)
  <1>1. /\ Reserving(Without(r.sources, X)) /\ DOMAIN Without(r.sources, X) = DOMAIN r.sources \ X
        /\ \A h \in DOMAIN r.sources \ X : Without(r.sources, X)[h] = r.sources[h]
    BY ReservingWithout DEF RegistryOK
  <1>2. /\ Reserving(Without(r.tables, Y)) /\ DOMAIN Without(r.tables, Y) = DOMAIN r.tables \ Y
        /\ \A h \in DOMAIN r.tables \ Y : Without(r.tables, Y)[h] = r.tables[h]
    BY ReservingWithout DEF RegistryOK
  <1>3. /\ l.next = r.next /\ l.sources = Without(r.sources, X) /\ l.tables = Without(r.tables, Y)
        /\ l.retained = Reserved(l.sources) + Reserved(l.tables)
        /\ IsRegistry(l)
    BY DEF Left, IsRegistry
  <1> HIDE DEF l
  <1>4. RegistryOK(l) BY <1>1, <1>2, <1>3 DEF RegistryOK
  <1>5. QED BY <1>1, <1>2, <1>3, <1>4 DEF l

\* Leaving twice is leaving the union.
LEMMA LeftLeft ==
  ASSUME NEW r, NEW X, NEW Y, NEW X2, NEW Y2
  PROVE  Left(Left(r, X, Y), X2, Y2) = Left(r, X \cup X2, Y \cup Y2)
  <1> DEFINE l == Left(r, X, Y)
  <1>1. l.next = r.next /\ l.sources = Without(r.sources, X) /\ l.tables = Without(r.tables, Y)
    BY DEF Left
  <1> HIDE DEF l
  <1>2. /\ Without(l.sources, X2) = Without(r.sources, X \cup X2)
        /\ Without(l.tables, Y2) = Without(r.tables, Y \cup Y2)
    BY <1>1, WithoutTwice
  <1>3. Left(l, X2, Y2) = Left(r, X \cup X2, Y \cup Y2) BY <1>1, <1>2 DEF Left
  <1>4. QED BY <1>3 DEF l

\* When nothing leaves, the registry is the same.
LEMMA LeftAll ==
  ASSUME NEW r, RegistryOK(r), NEW X, NEW Y, X \cap DOMAIN r.sources = {}, Y \cap DOMAIN r.tables = {}
  PROVE  Left(r, X, Y) = r
  <1>1. Without(r.sources, X) = r.sources /\ Without(r.tables, Y) = r.tables
    BY WithoutNone DEF RegistryOK, Reserving
  <1>2. QED BY <1>1 DEF Left, RegistryOK, IsRegistry

\* A registry record with both maps replaced.
LEMMA RecordCut ==
  ASSUME NEW r, IsRegistry(r), NEW k, NEW v, NEW w
  PROVE  [r EXCEPT !.retained = k, !.sources = v, !.tables = w]
           = [next |-> r.next, retained |-> k, sources |-> v, tables |-> w]
  <1>1. [r EXCEPT !.retained = k, !.sources = v, !.tables = w]
          = [f \in DOMAIN r |-> IF f = "retained" THEN k ELSE IF f = "sources" THEN v ELSE IF f = "tables" THEN w ELSE r[f]]
    BY DEF IsRegistry
  <1>2. [next |-> r.next, retained |-> k, sources |-> v, tables |-> w]
          = [f \in DOMAIN r |-> IF f = "retained" THEN k ELSE IF f = "sources" THEN v ELSE IF f = "tables" THEN w ELSE r[f]]
    BY DEF IsRegistry
  <1>3. QED BY <1>1, <1>2

\* With the tables replaced.
LEMMA RecordCutTables ==
  ASSUME NEW r, IsRegistry(r), NEW k, NEW w
  PROVE  [r EXCEPT !.retained = k, !.tables = w]
           = [next |-> r.next, retained |-> k, sources |-> r.sources, tables |-> w]
  <1>1. [r EXCEPT !.retained = k, !.tables = w]
          = [f \in DOMAIN r |-> IF f = "retained" THEN k ELSE IF f = "tables" THEN w ELSE r[f]]
    BY DEF IsRegistry
  <1>2. [next |-> r.next, retained |-> k, sources |-> r.sources, tables |-> w]
          = [f \in DOMAIN r |-> IF f = "retained" THEN k ELSE IF f = "tables" THEN w ELSE r[f]]
    BY DEF IsRegistry
  <1>3. QED BY <1>1, <1>2


\* With a source added.
LEMMA RecordAddSource ==
  ASSUME NEW r, IsRegistry(r), NEW n, NEW k, NEW v
  PROVE  [r EXCEPT !.next = n, !.retained = k, !.sources = v]
           = [next |-> n, retained |-> k, sources |-> v, tables |-> r.tables]
  <1>1. [r EXCEPT !.next = n, !.retained = k, !.sources = v]
          = [f \in DOMAIN r |-> IF f = "next" THEN n ELSE IF f = "retained" THEN k ELSE IF f = "sources" THEN v ELSE r[f]]
    BY DEF IsRegistry
  <1>2. [next |-> n, retained |-> k, sources |-> v, tables |-> r.tables]
          = [f \in DOMAIN r |-> IF f = "next" THEN n ELSE IF f = "retained" THEN k ELSE IF f = "sources" THEN v ELSE r[f]]
    BY DEF IsRegistry
  <1>3. QED BY <1>1, <1>2

\* With the next handle moved on.
LEMMA RecordNext ==
  ASSUME NEW r, IsRegistry(r), NEW n
  PROVE  [r EXCEPT !.next = n]
           = [next |-> n, retained |-> r.retained, sources |-> r.sources, tables |-> r.tables]
  <1>1. [r EXCEPT !.next = n]
          = [f \in DOMAIN r |-> IF f = "next" THEN n ELSE r[f]]
    BY DEF IsRegistry
  <1>2. [next |-> n, retained |-> r.retained, sources |-> r.sources, tables |-> r.tables]
          = [f \in DOMAIN r |-> IF f = "next" THEN n ELSE r[f]]
    BY DEF IsRegistry
  <1>3. QED BY <1>1, <1>2

\* Closing a table takes that table out and gives back what it reserved.
LEMMA CloseTableIs ==
  ASSUME NEW r, RegistryOK(r), NEW t
  PROVE  CloseTableOf(r, t) = Left(r, {}, {t})
  <1>1. CASE t \notin DOMAIN r.tables
    <2>1. Left(r, {}, {t}) = r BY <1>1, LeftAll
    <2>2. QED BY <1>1, <2>1 DEF CloseTableOf
  <1>2. CASE t \in DOMAIN r.tables
    <2> DEFINE p == SomeAmounts(r.tables, {t})
               w == Without(r.tables, {t})
    <2>1. SumOf(p) \in Nat /\ Reserved(w) \in Nat /\ Reserved(r.tables) = SumOf(p) + Reserved(w)
      <3>1. Reserving(r.tables) /\ {t} \subseteq DOMAIN r.tables BY <1>2 DEF RegistryOK
      <3>2. QED BY <3>1, ReservedWithout
    <2>2. SumOf(p) = r.tables[t].reserved
      <3>1. DOMAIN p = {t} /\ p[t] = r.tables[t].reserved BY DEF SomeAmounts
      <3>2. p[t] \in Nat BY <1>2, <3>1 DEF RegistryOK, Reserving
      <3> HIDE DEF p
      <3>3. IsFiniteSet({t}) BY FS_Singleton
      <3>4. NatOn(p, {t}) BY <3>2, <3>3 DEF NatOn
      <3>5. Total(p, {t}) = p[t] + Total(p, {t} \ {t}) BY <3>4, TotalRemove
      <3>6. {t} \ {t} = {} OBVIOUS
      <3>7. Total(p, {}) = 0 BY TotalEmpty
      <3>8. Total(p, {t}) = p[t] BY <3>2, <3>5, <3>6, <3>7
      <3>9. QED BY <3>1, <3>8, SumIsTotal
    <2> HIDE DEF p
    <2>3. Without(r.sources, {}) = r.sources BY WithoutNone DEF RegistryOK, Reserving
    <2>4. Reserved(r.sources) \in Nat /\ Reserved(r.tables) \in Nat /\ Reserved(w) \in Nat
      BY <2>1, ReservedIs DEF RegistryOK
    <2>5. r.retained - r.tables[t].reserved = Reserved(r.sources) + Reserved(w)
      BY <2>1, <2>2, <2>4 DEF RegistryOK
    <2>6. CloseTableOf(r, t) = [r EXCEPT !.retained = @ - r.tables[t].reserved, !.tables = Without(@, {t})]
      BY <1>2, Zenon DEF CloseTableOf
    <2>7. [r EXCEPT !.retained = @ - r.tables[t].reserved, !.tables = Without(@, {t})]
            = [next |-> r.next, retained |-> r.retained - r.tables[t].reserved, sources |-> r.sources, tables |-> w]
      <3> DEFINE k == r.retained - r.tables[t].reserved
      <3>1. IsRegistry(r) BY DEF RegistryOK
      <3> HIDE DEF k, w
      <3>2. [r EXCEPT !.retained = k, !.tables = w] = [next |-> r.next, retained |-> k, sources |-> r.sources, tables |-> w]
        BY <3>1, RecordCutTables, Zenon
      <3>3. QED BY <3>2 DEF k, w
    <2> HIDE DEF w
    <2>8. QED BY <2>3, <2>5, <2>6, <2>7 DEF Left, w
  <1>3. QED BY <1>1, <1>2

\* A number is the greater of 0 and itself.
LEMMA MaxZero == ASSUME NEW n \in Nat PROVE Max({0, n}) = n
  <1> DEFINE U == {0, n}
  <1>1. IsFiniteSet({0}) BY FS_Singleton
  <1>2. IsFiniteSet({0} \cup {n}) BY <1>1, FS_AddElement
  <1>3. U = {0} \cup {n} /\ U \in SUBSET Int /\ U # {} /\ n \in U OBVIOUS
  <1>4. \A k \in U : k = 0 \/ k = n OBVIOUS
  <1> HIDE DEF U
  <1>5. Max(U) \in U /\ \A k \in U : k <= Max(U) BY <1>2, <1>3, Greatest
  <1>6. Max(U) = n BY <1>3, <1>4, <1>5
  <1>7. QED BY <1>6 DEF U

\* Closing a source takes out the source and every table of it.
LEMMA CloseSourceIs ==
  ASSUME NEW r, RegistryOK(r), NEW s, s \notin DOMAIN r.sources => Owned(r, s) = {}
  PROVE  CloseSourceOf(r, s) = Left(r, {s}, Owned(r, s))
  <1>1. CASE s \notin DOMAIN r.sources
    <2>1. Left(r, {s}, Owned(r, s)) = r BY <1>1, LeftAll
    <2>2. QED BY <1>1, <2>1 DEF CloseSourceOf
  <1>2. CASE s \in DOMAIN r.sources
    <2> DEFINE owned == Owned(r, s)
               p == SomeAmounts(r.tables, owned)
               q == SomeAmounts(r.sources, {s})
               released == r.sources[s].reserved + SumOf(p)
               v == Without(r.sources, {s})
               w == Without(r.tables, owned)
    <2>1. SumOf(p) \in Nat /\ Reserved(w) \in Nat /\ Reserved(r.tables) = SumOf(p) + Reserved(w)
      <3>1. Reserving(r.tables) /\ owned \subseteq DOMAIN r.tables BY DEF RegistryOK, Owned
      <3> HIDE DEF owned
      <3>2. QED BY <3>1, ReservedWithout
    <2>2. SumOf(q) \in Nat /\ Reserved(v) \in Nat /\ Reserved(r.sources) = SumOf(q) + Reserved(v)
      <3>1. Reserving(r.sources) /\ {s} \subseteq DOMAIN r.sources BY <1>2 DEF RegistryOK
      <3>2. QED BY <3>1, ReservedWithout
    <2>3. SumOf(q) = r.sources[s].reserved
      <3>1. DOMAIN q = {s} /\ q[s] = r.sources[s].reserved BY DEF SomeAmounts
      <3>2. q[s] \in Nat BY <1>2, <3>1 DEF RegistryOK, Reserving
      <3> HIDE DEF q
      <3>3. IsFiniteSet({s}) BY FS_Singleton
      <3>4. NatOn(q, {s}) BY <3>2, <3>3 DEF NatOn
      <3>5. Total(q, {s}) = q[s] + Total(q, {s} \ {s}) BY <3>4, TotalRemove
      <3>6. {s} \ {s} = {} OBVIOUS
      <3>7. Total(q, {}) = 0 BY TotalEmpty
      <3>8. Total(q, {s}) = q[s] BY <3>2, <3>5, <3>6, <3>7
      <3>9. QED BY <3>1, <3>8, SumIsTotal
    <2>4. Reserved(v) \in Nat /\ Reserved(w) \in Nat BY <2>1, <2>2
    <2>5. CloseSourceOf(r, s) = [r EXCEPT !.retained = Max({0, @ - released}), !.sources = Without(@, {s}),
                                          !.tables = Without(@, owned)]
      BY <1>2, Zenon DEF CloseSourceOf, Owned, SomeAmounts
    <2>6. [r EXCEPT !.retained = Max({0, @ - released}), !.sources = Without(@, {s}), !.tables = Without(@, owned)]
            = [next |-> r.next, retained |-> Max({0, r.retained - released}), sources |-> v, tables |-> w]
      <3> DEFINE k == Max({0, r.retained - released})
      <3>1. IsRegistry(r) BY DEF RegistryOK
      <3> HIDE DEF k, w, v
      <3>2. [r EXCEPT !.retained = k, !.sources = v, !.tables = w]
              = [next |-> r.next, retained |-> k, sources |-> v, tables |-> w]
        BY <3>1, RecordCut, Zenon
      <3>3. QED BY <3>2 DEF k, w, v
    <2>7. r.retained = Reserved(r.sources) + Reserved(r.tables) BY DEF RegistryOK
    <2> HIDE DEF p, q, v, w, owned
    <2>8. r.retained - released = Reserved(v) + Reserved(w) BY <2>1, <2>2, <2>3, <2>4, <2>7
    <2> HIDE DEF released
    <2>9. Max({0, r.retained - released}) = Reserved(v) + Reserved(w) BY <2>4, <2>8, MaxZero
    <2>10. QED BY <2>5, <2>6, <2>9 DEF Left, v, w, owned
  <1>3. QED BY <1>1, <1>2

-----------------------------------------------------------------------------
(* Closing several at once: the sequence of a set holds every element of it. *)
LEMMA EnumerationOnto ==
  ASSUME NEW S, IsFiniteSet(S), NEW e \in S
  PROVE  \E i \in 1..Len(SetToSeq(S)) : SetToSeq(S)[i] = e
  <1> DEFINE n == Cardinality(S)
             E == {f \in [1..n -> S] : IsInjective(f)}
             f == SetToSeq(S)
  <1>1. n \in Nat /\ ExistsBijection(1..n, S) BY FS_CardinalityType
  <1>2. E # {} BY <1>1, Zenon DEF ExistsBijection, Bijection, Injection, IsInjective
  <1>3. f \in [1..n -> S] /\ IsInjective(f) BY <1>2, Zenon DEF SetToSeq
  <1>4. Cardinality(1..n) = n BY <1>1, FS_Interval
  <1> HIDE DEF n, f
  <1>5. f \in Injection(1..n, S) BY <1>3, Zenon DEF Injection, IsInjective
  <1>6. Cardinality(1..n) = Cardinality(S) BY <1>4 DEF n
  <1>7. f \in Surjection(1..n, S) BY <1>5, <1>6, FS_Injection, Zenon
  <1>8. \E i \in 1..n : f[i] = e BY <1>7, Zenon DEF Surjection
  <1>9. DOMAIN f = 1..n BY <1>3
  <1>10. Len(f) = n BY <1>1, <1>3
  <1>11. QED BY <1>8, <1>10 DEF f

\* The sequence of a set holds nothing else.
LEMMA Enumerated ==
  ASSUME NEW S, IsFiniteSet(S)
  PROVE  {SetToSeq(S)[i] : i \in 1..Len(SetToSeq(S))} = S
  <1> DEFINE f == SetToSeq(S)
  <1>1. \A i \in 1..Len(f) : f[i] \in S BY EnumerationIn
  <1>2. \A e \in S : \E i \in 1..Len(f) : f[i] = e BY EnumerationOnto
  <1> HIDE DEF f
  <1>3. QED BY <1>1, <1>2 DEF f

TableStates(r) == {Left(r, {}, Y) : Y \in SUBSET Nat}
TableSteps(r) == [p \in Nat \X TableStates(r) |-> CloseTableOf(p[2], p[1])]

\* One more table closes.
LEMMA TableStep ==
  ASSUME NEW r, RegistryOK(r), NEW e \in Nat, NEW Y \in SUBSET Nat
  PROVE  CloseTableOf(Left(r, {}, Y), e) = Left(r, {}, Y \cup {e})
  <1> DEFINE l == Left(r, {}, Y)
  <1>1. RegistryOK(l) BY LeftOK
  <1>2. Left(l, {}, {e}) = Left(r, {} \cup {}, Y \cup {e}) BY LeftLeft
  <1>3. {} \cup {} = {} OBVIOUS
  <1> HIDE DEF l
  <1>4. CloseTableOf(l, e) = Left(l, {}, {e}) BY <1>1, CloseTableIs
  <1>5. QED BY <1>2, <1>3, <1>4 DEF l

\* The tables of a sequence close one by one.
LEMMA TableFold ==
  ASSUME NEW r, RegistryOK(r)
  PROVE  Stepwise(TableSteps(r), Nat, TableStates(r), r)
  <1>1. Left(r, {}, {}) = r BY LeftAll
  <1>2. r \in TableStates(r) BY <1>1 DEF TableStates
  <1>3. ASSUME NEW e \in Nat, NEW v \in TableStates(r) PROVE CloseTableOf(v, e) \in TableStates(r)
    <2>1. PICK Y \in SUBSET Nat : v = Left(r, {}, Y) BY DEF TableStates
    <2>2. CloseTableOf(v, e) = Left(r, {}, Y \cup {e}) BY <2>1, TableStep
    <2>3. Y \cup {e} \in SUBSET Nat OBVIOUS
    <2>4. QED BY <2>2, <2>3 DEF TableStates
  <1>4. QED BY <1>2, <1>3 DEF Stepwise, TableSteps

\* Closing the tables of a sequence runs through it.
LEMMA TablesRun ==
  ASSUME NEW r, RegistryOK(r), NEW s \in Seq(Nat)
  PROVE  FoldLeft(CloseTableOf, r, s) = Run(TableSteps(r), r, s)
  <1> DEFINE n == Len(s)
             h == TableSteps(r)
             W == CHOOSE w : w = [u \in SUBSET (1..n) |->
                    IF u = {} THEN r ELSE CloseTableOf(w[u \ {Max(u)}], s[Max(u)])]
  <1>1. s \in Seq(Nat) /\ DOMAIN s = 1..n /\ \A i \in 1..n : s[i] \in Nat OBVIOUS
  <1>2. FoldLeft(CloseTableOf, r, s) = W[1..n]
    BY <1>1 DEF FoldLeft, MapThenFoldSet
  <1>3. Stepwise(h, Nat, TableStates(r), r) BY TableFold
  <1>4. \A e \in Nat, v \in TableStates(r) : h[<<e, v>>] = CloseTableOf(v, e)
    BY DEF TableSteps
  <1> HIDE DEF h
  <1>g. PICK g : Solution(g, TableStates(r), h, r, s) BY <1>1, <1>3, FoldSolved
  <1>5. /\ g \in [SUBSET (1..n) -> TableStates(r)] /\ g[{}] = r
        /\ \A u \in SUBSET (1..n) : u # {} =>
             /\ Max(u) \in 1..n /\ u \ {Max(u)} \in SUBSET (1..n)
             /\ g[u] = h[<<s[Max(u)], g[u \ {Max(u)}]>>]
    BY <1>g, Zenon DEF Solution
  <1> HIDE DEF n
  <1>6. \A u \in SUBSET (1..n) : u # {} => g[u] = CloseTableOf(g[u \ {Max(u)}], s[Max(u)])
    <2> SUFFICES ASSUME NEW u \in SUBSET (1..n), u # {}
                 PROVE  g[u] = CloseTableOf(g[u \ {Max(u)}], s[Max(u)])
      OBVIOUS
    <2>1. /\ s[Max(u)] \in Nat /\ g[u \ {Max(u)}] \in TableStates(r)
          /\ g[u] = h[<<s[Max(u)], g[u \ {Max(u)}]>>]
      BY <1>1, <1>5
    <2>2. QED BY <1>4, <2>1, Zenon
  <1>7. g = [u \in SUBSET (1..n) |->
               IF u = {} THEN r ELSE CloseTableOf(g[u \ {Max(u)}], s[Max(u)])]
    BY <1>5, <1>6
  <1>8. W = [u \in SUBSET (1..n) |->
               IF u = {} THEN r ELSE CloseTableOf(W[u \ {Max(u)}], s[Max(u)])]
    BY <1>7, Zenon
  <1> HIDE DEF W
  <1>9. W[{}] = r BY <1>8
  <1>10. \A u \in SUBSET (1..n) : u # {} /\ W[u \ {Max(u)}] \in TableStates(r) =>
            W[u] = h[<<s[Max(u)], W[u \ {Max(u)}]>>]
    <2> SUFFICES ASSUME NEW u \in SUBSET (1..n), u # {}, W[u \ {Max(u)}] \in TableStates(r)
                 PROVE  W[u] = h[<<s[Max(u)], W[u \ {Max(u)}]>>]
      OBVIOUS
    <2>1. W[u] = CloseTableOf(W[u \ {Max(u)}], s[Max(u)]) BY <1>8
    <2>2. s[Max(u)] \in Nat BY <1>1, <1>5
    <2>3. QED BY <1>4, <2>1, <2>2, Zenon
  <1>11. Recurs(W, TableStates(r), h, r, s) BY <1>9, <1>10 DEF Recurs, n
  <1>12. W[1..Len(s)] = Run(h, r, s) BY <1>1, <1>3, <1>11, FoldIsRun
  <1>13. QED BY <1>2, <1>12 DEF h, n

\* Closing the tables of a set takes exactly those out.
LEMMA TablesClosed ==
  ASSUME NEW r, RegistryOK(r), NEW T \in SUBSET Nat, IsFiniteSet(T)
  PROVE  FoldLeft(CloseTableOf, r, SetToSeq(T)) = Left(r, {}, T)
  <1> DEFINE s == SetToSeq(T)
             n == Len(s)
             h == TableSteps(r)
             f == RunOf(h, r, s)
             seen(i) == {s[j] : j \in 1..i}
             K == {i \in 0..n : f[i] = Left(r, {}, seen(i))}
  <1>1. s \in Seq(Nat) /\ seen(n) = T BY EnumerationIn, Enumerated
  <1> HIDE DEF s
  <1>2. n \in Nat /\ \A i \in 1..n : s[i] \in Nat BY <1>1
  <1>3. Follows(f, h, r, s) /\ FoldLeft(CloseTableOf, r, s) = f[n]
    BY <1>1, TableFold, RunFollows, TablesRun DEF Run
  <1>4. f[0] = r /\ \A i \in 1..n : f[i] = h[<<s[i], f[i - 1]>>] BY <1>3 DEF Follows
  <1> HIDE DEF f
  <1>5. 0 \in K
    <2>1. seen(0) = {} OBVIOUS
    <2>2. Left(r, {}, {}) = r BY LeftAll
    <2> HIDE DEF seen
    <2>3. f[0] = Left(r, {}, seen(0)) BY <1>4, <2>1, <2>2
    <2>4. QED BY <1>2, <2>3
  <1>6. ASSUME NEW i \in 1..n, i - 1 \in K PROVE i \in K
    <2>1. seen(i - 1) \in SUBSET Nat /\ s[i] \in Nat BY <1>2
    <2>2. f[i - 1] = Left(r, {}, seen(i - 1)) BY <1>6
    <2>3. f[i] = h[<<s[i], f[i - 1]>>] BY <1>4
    <2>4. f[i - 1] \in TableStates(r) BY <2>1, <2>2 DEF TableStates
    <2>5. f[i] = CloseTableOf(f[i - 1], s[i]) BY <2>1, <2>3, <2>4 DEF TableSteps
    <2>6. seen(i) = seen(i - 1) \cup {s[i]}
      <3>1. \A j \in 1..i : j \in 1..(i - 1) \/ j = i BY <1>2
      <3>2. \A j \in 1..(i - 1) : j \in 1..i BY <1>2
      <3>3. i \in 1..i BY <1>2
      <3>4. QED BY <3>1, <3>2, <3>3
    <2> HIDE DEF seen
    <2>7. f[i] = Left(r, {}, seen(i)) BY <2>1, <2>2, <2>5, <2>6, TableStep
    <2>8. QED BY <1>2, <2>7
  <1>7. K \in SUBSET (0..n) OBVIOUS
  <1> HIDE DEF K, seen, h
  <1>8. K = 0..n BY <1>2, <1>5, <1>6, <1>7, InductUpto
  <1>9. n \in K BY <1>2, <1>8
  <1>10. f[n] = Left(r, {}, seen(n)) BY <1>9 DEF K
  <1>11. QED BY <1>1, <1>3, <1>10 DEF s

\* Sources that own no table.
Bare(r, I) == \A s \in I : Owned(r, s) = {}
SourceStates(r, I) == {Left(r, X, {}) : X \in SUBSET I}
SourceSteps(r, I) == [p \in I \X SourceStates(r, I) |-> CloseSourceOf(p[2], p[1])]

\* One more source without tables closes.
LEMMA SourceStep ==
  ASSUME NEW r, RegistryOK(r), NEW I, Bare(r, I), NEW e \in I, NEW X
  PROVE  CloseSourceOf(Left(r, X, {}), e) = Left(r, X \cup {e}, {})
  <1> DEFINE l == Left(r, X, {})
  <1>1. RegistryOK(l) BY LeftOK
  <1>2. Left(l, {e}, {}) = Left(r, X \cup {e}, {} \cup {}) BY LeftLeft
  <1>3. {} \cup {} = {} OBVIOUS
  <1>4. Owned(l, e) = {}
    <2>1. l.tables = r.tables BY WithoutNone DEF Left, RegistryOK, Reserving
    <2> HIDE DEF l
    <2>2. Owned(l, e) = Owned(r, e) BY <2>1 DEF Owned
    <2>3. QED BY <2>2 DEF Bare
  <1> HIDE DEF l
  <1>5. CloseSourceOf(l, e) = Left(l, {e}, {}) BY <1>1, <1>4, CloseSourceIs
  <1>6. QED BY <1>2, <1>3, <1>5 DEF l

\* The sources of a sequence close one by one.
LEMMA SourceFold ==
  ASSUME NEW r, RegistryOK(r), NEW I, Bare(r, I)
  PROVE  Stepwise(SourceSteps(r, I), I, SourceStates(r, I), r)
  <1>1. Left(r, {}, {}) = r BY LeftAll
  <1>2. r \in SourceStates(r, I) BY <1>1 DEF SourceStates
  <1>3. ASSUME NEW e \in I, NEW v \in SourceStates(r, I) PROVE CloseSourceOf(v, e) \in SourceStates(r, I)
    <2>1. PICK X \in SUBSET I : v = Left(r, X, {}) BY DEF SourceStates
    <2>2. CloseSourceOf(v, e) = Left(r, X \cup {e}, {}) BY <2>1, SourceStep
    <2>3. X \cup {e} \in SUBSET I OBVIOUS
    <2>4. QED BY <2>2, <2>3 DEF SourceStates
  <1>4. QED BY <1>2, <1>3 DEF Stepwise, SourceSteps

\* Closing the sources of a sequence runs through it.
LEMMA SourcesRun ==
  ASSUME NEW r, RegistryOK(r), NEW I, Bare(r, I), NEW s \in Seq(I)
  PROVE  FoldLeft(CloseSourceOf, r, s) = Run(SourceSteps(r, I), r, s)
  <1> DEFINE n == Len(s)
             h == SourceSteps(r, I)
             W == CHOOSE w : w = [u \in SUBSET (1..n) |->
                    IF u = {} THEN r ELSE CloseSourceOf(w[u \ {Max(u)}], s[Max(u)])]
  <1>1. s \in Seq(I) /\ DOMAIN s = 1..n /\ \A i \in 1..n : s[i] \in I OBVIOUS
  <1>2. FoldLeft(CloseSourceOf, r, s) = W[1..n]
    BY <1>1 DEF FoldLeft, MapThenFoldSet
  <1>3. Stepwise(h, I, SourceStates(r, I), r) BY SourceFold
  <1>4. \A e \in I, v \in SourceStates(r, I) : h[<<e, v>>] = CloseSourceOf(v, e)
    BY DEF SourceSteps
  <1> HIDE DEF h
  <1>g. PICK g : Solution(g, SourceStates(r, I), h, r, s) BY <1>1, <1>3, FoldSolved
  <1>5. /\ g \in [SUBSET (1..n) -> SourceStates(r, I)] /\ g[{}] = r
        /\ \A u \in SUBSET (1..n) : u # {} =>
             /\ Max(u) \in 1..n /\ u \ {Max(u)} \in SUBSET (1..n)
             /\ g[u] = h[<<s[Max(u)], g[u \ {Max(u)}]>>]
    BY <1>g, Zenon DEF Solution
  <1> HIDE DEF n
  <1>6. \A u \in SUBSET (1..n) : u # {} => g[u] = CloseSourceOf(g[u \ {Max(u)}], s[Max(u)])
    <2> SUFFICES ASSUME NEW u \in SUBSET (1..n), u # {}
                 PROVE  g[u] = CloseSourceOf(g[u \ {Max(u)}], s[Max(u)])
      OBVIOUS
    <2>1. /\ s[Max(u)] \in I /\ g[u \ {Max(u)}] \in SourceStates(r, I)
          /\ g[u] = h[<<s[Max(u)], g[u \ {Max(u)}]>>]
      BY <1>1, <1>5
    <2>2. QED BY <1>4, <2>1, Zenon
  <1>7. g = [u \in SUBSET (1..n) |->
               IF u = {} THEN r ELSE CloseSourceOf(g[u \ {Max(u)}], s[Max(u)])]
    BY <1>5, <1>6
  <1>8. W = [u \in SUBSET (1..n) |->
               IF u = {} THEN r ELSE CloseSourceOf(W[u \ {Max(u)}], s[Max(u)])]
    BY <1>7, Zenon
  <1> HIDE DEF W
  <1>9. W[{}] = r BY <1>8
  <1>10. \A u \in SUBSET (1..n) : u # {} /\ W[u \ {Max(u)}] \in SourceStates(r, I) =>
            W[u] = h[<<s[Max(u)], W[u \ {Max(u)}]>>]
    <2> SUFFICES ASSUME NEW u \in SUBSET (1..n), u # {}, W[u \ {Max(u)}] \in SourceStates(r, I)
                 PROVE  W[u] = h[<<s[Max(u)], W[u \ {Max(u)}]>>]
      OBVIOUS
    <2>1. W[u] = CloseSourceOf(W[u \ {Max(u)}], s[Max(u)]) BY <1>8
    <2>2. s[Max(u)] \in I BY <1>1, <1>5
    <2>3. QED BY <1>4, <2>1, <2>2, Zenon
  <1>11. Recurs(W, SourceStates(r, I), h, r, s) BY <1>9, <1>10 DEF Recurs, n
  <1>12. W[1..Len(s)] = Run(h, r, s) BY <1>1, <1>3, <1>11, FoldIsRun
  <1>13. QED BY <1>2, <1>12 DEF h, n

\* Closing sources without tables takes exactly those out.
LEMMA SourcesClosed ==
  ASSUME NEW r, RegistryOK(r), NEW I, IsFiniteSet(I), Bare(r, I)
  PROVE  FoldLeft(CloseSourceOf, r, SetToSeq(I)) = Left(r, I, {})
  <1> DEFINE s == SetToSeq(I)
             n == Len(s)
             h == SourceSteps(r, I)
             f == RunOf(h, r, s)
             seen(i) == {s[j] : j \in 1..i}
             K == {i \in 0..n : f[i] = Left(r, seen(i), {})}
  <1>1. s \in Seq(I) /\ seen(n) = I BY EnumerationIn, Enumerated
  <1> HIDE DEF s
  <1>2. n \in Nat /\ \A i \in 1..n : s[i] \in I BY <1>1
  <1>3. Follows(f, h, r, s) /\ FoldLeft(CloseSourceOf, r, s) = f[n]
    BY <1>1, SourceFold, RunFollows, SourcesRun DEF Run
  <1>4. f[0] = r /\ \A i \in 1..n : f[i] = h[<<s[i], f[i - 1]>>] BY <1>3 DEF Follows
  <1> HIDE DEF f
  <1>5. 0 \in K
    <2>1. seen(0) = {} OBVIOUS
    <2>2. Left(r, {}, {}) = r BY LeftAll
    <2> HIDE DEF seen
    <2>3. f[0] = Left(r, seen(0), {}) BY <1>4, <2>1, <2>2
    <2>4. QED BY <1>2, <2>3
  <1>6. ASSUME NEW i \in 1..n, i - 1 \in K PROVE i \in K
    <2>1. seen(i - 1) \in SUBSET I /\ s[i] \in I
      <3>1. \A j \in 1..(i - 1) : j \in 1..n BY <1>2
      <3>2. QED BY <1>2, <3>1
    <2>2. f[i - 1] = Left(r, seen(i - 1), {}) BY <1>6
    <2>3. f[i] = h[<<s[i], f[i - 1]>>] BY <1>4
    <2>4. f[i - 1] \in SourceStates(r, I) BY <2>1, <2>2 DEF SourceStates
    <2>5. f[i] = CloseSourceOf(f[i - 1], s[i]) BY <2>1, <2>3, <2>4 DEF SourceSteps
    <2>6. seen(i) = seen(i - 1) \cup {s[i]}
      <3>1. \A j \in 1..i : j \in 1..(i - 1) \/ j = i BY <1>2
      <3>2. \A j \in 1..(i - 1) : j \in 1..i BY <1>2
      <3>3. i \in 1..i BY <1>2
      <3>4. QED BY <3>1, <3>2, <3>3
    <2> HIDE DEF seen
    <2>7. f[i] = Left(r, seen(i), {}) BY <2>1, <2>2, <2>5, <2>6, SourceStep
    <2>8. QED BY <1>2, <2>7
  <1>7. K \in SUBSET (0..n) OBVIOUS
  <1> HIDE DEF K, seen, h
  <1>8. K = 0..n BY <1>2, <1>5, <1>6, <1>7, InductUpto
  <1>9. n \in K BY <1>2, <1>8
  <1>10. f[n] = Left(r, seen(n), {}) BY <1>9 DEF K
  <1>11. QED BY <1>1, <1>3, <1>10 DEF s

\* The registry after a workbook or a worksheet opened.
LEMMA AddBookIs ==
  ASSUME NEW r, RegistryOK(r), NEW book, BookOK(book)
  PROVE  LET a == AddBook(r, book)
         IN  /\ RegistryOK(a) /\ a.next = r.next + 1 /\ a.tables = r.tables
             /\ a.retained = r.retained + book.reserved
             /\ DOMAIN a.sources = DOMAIN r.sources \cup {r.next}
  <1> DEFINE n == r.next + 1
             k == r.retained + book.reserved
             v == With(r.sources, r.next, book)
             a == [next |-> n, retained |-> k, sources |-> v, tables |-> r.tables]
  <1>1. IsRegistry(r) /\ r.next \in Nat /\ r.next \notin DOMAIN r.sources /\ book.reserved \in Nat
    BY DEF RegistryOK, BookOK
  <1>2. [r EXCEPT !.next = n, !.retained = k, !.sources = v] = a
    <2> HIDE DEF n, k, v
    <2>1. QED BY <1>1, RecordAddSource, Zenon
  <1>3. AddBook(r, book) = a BY <1>2 DEF AddBook
  <1>4. Reserving(r.sources) /\ Reserving(r.tables) BY DEF RegistryOK
  <1>5. /\ Reserving(v) /\ DOMAIN v = DOMAIN r.sources \cup {r.next}
        /\ v[r.next] = book /\ (\A h \in DOMAIN r.sources : v[h] = r.sources[h])
        /\ Reserved(v) = Reserved(r.sources) + book.reserved
    BY <1>1, <1>4, ReservingWith
  <1>6. Reserved(r.sources) \in Nat /\ Reserved(r.tables) \in Nat BY <1>4, ReservedIs
  <1>7. r.retained = Reserved(r.sources) + Reserved(r.tables) BY DEF RegistryOK
  <1>8. n \in Nat /\ k = Reserved(v) + Reserved(r.tables) BY <1>1, <1>5, <1>6, <1>7
  <1>9. \A h \in DOMAIN v : h < n /\ BookOK(v[h])
    <2>1. \A h \in DOMAIN r.sources : h < r.next /\ h \in Nat /\ BookOK(r.sources[h])
      BY <1>4 DEF RegistryOK, Reserving, IsMap
    <2> HIDE DEF v
    <2>2. QED BY <1>1, <1>5, <2>1
  <1>10. \A h \in DOMAIN r.tables : h < n
    <2>1. \A h \in DOMAIN r.tables : h < r.next /\ h \in Nat
      BY <1>4 DEF RegistryOK, Reserving, IsMap
    <2>2. QED BY <1>1, <2>1
  <1> HIDE DEF n, k, v
  <1>11. a.next = n /\ a.retained = k /\ a.sources = v /\ a.tables = r.tables /\ IsRegistry(a)
    BY DEF IsRegistry
  <1> HIDE DEF a
  <1>12. RegistryOK(a) BY <1>4, <1>5, <1>8, <1>9, <1>10, <1>11 DEF RegistryOK
  <1>13. QED BY <1>3, <1>5, <1>11, <1>12 DEF n, k

\* A table opened: the registry has it under the next handle and counts its bytes.
LEMMA AddTableIs ==
  ASSUME NEW r, RegistryOK(r), NEW table, table.reserved \in Nat
  PROVE  LET a == AddTable(r, table)
         IN  /\ RegistryOK(a) /\ a.next = r.next + 1 /\ a.sources = r.sources
             /\ a.retained = r.retained + table.reserved
             /\ DOMAIN a.tables = DOMAIN r.tables \cup {r.next} /\ a.tables[r.next] = table
             /\ \A t \in DOMAIN r.tables : a.tables[t] = r.tables[t]
  <1> DEFINE n == r.next + 1
             k == r.retained + table.reserved
             w == With(r.tables, r.next, table)
             a == [next |-> n, retained |-> k, sources |-> r.sources, tables |-> w]
  <1>1. IsRegistry(r) /\ r.next \in Nat /\ r.next \notin DOMAIN r.tables
    BY DEF RegistryOK
  <1>2. [r EXCEPT !.next = n, !.retained = k, !.tables = w] = a
    <2> HIDE DEF n, k, w
    <2>1. [r EXCEPT !.next = n, !.retained = k, !.tables = w]
            = [f \in DOMAIN r |-> IF f = "next" THEN n ELSE IF f = "retained" THEN k ELSE IF f = "tables" THEN w ELSE r[f]]
      BY <1>1 DEF IsRegistry
    <2>2. a = [f \in DOMAIN r |-> IF f = "next" THEN n ELSE IF f = "retained" THEN k ELSE IF f = "tables" THEN w ELSE r[f]]
      BY <1>1 DEF IsRegistry
    <2>3. QED BY <2>1, <2>2
  <1>3. AddTable(r, table) = a BY <1>2 DEF AddTable
  <1>4. Reserving(r.sources) /\ Reserving(r.tables) BY DEF RegistryOK
  <1>5. /\ Reserving(w) /\ DOMAIN w = DOMAIN r.tables \cup {r.next}
        /\ w[r.next] = table /\ (\A h \in DOMAIN r.tables : w[h] = r.tables[h])
        /\ Reserved(w) = Reserved(r.tables) + table.reserved
    BY <1>1, <1>4, ReservingWith
  <1>6. Reserved(r.sources) \in Nat /\ Reserved(r.tables) \in Nat BY <1>4, ReservedIs
  <1>7. r.retained = Reserved(r.sources) + Reserved(r.tables) BY DEF RegistryOK
  <1>8. n \in Nat /\ k = Reserved(r.sources) + Reserved(w) BY <1>1, <1>5, <1>6, <1>7
  <1>9. \A h \in DOMAIN r.sources : h < n /\ BookOK(r.sources[h])
    <2>1. \A h \in DOMAIN r.sources : h < r.next /\ h \in Nat /\ BookOK(r.sources[h])
      BY <1>4 DEF RegistryOK, Reserving, IsMap
    <2>2. QED BY <1>1, <2>1
  <1>10. \A h \in DOMAIN w : h < n
    <2>1. \A h \in DOMAIN r.tables : h < r.next /\ h \in Nat
      BY <1>4 DEF RegistryOK, Reserving, IsMap
    <2> HIDE DEF w
    <2>2. QED BY <1>1, <1>5, <2>1
  <1> HIDE DEF n, k, w
  <1>11. a.next = n /\ a.retained = k /\ a.sources = r.sources /\ a.tables = w /\ IsRegistry(a)
    BY DEF IsRegistry
  <1> HIDE DEF a
  <1>12. RegistryOK(a) BY <1>4, <1>5, <1>8, <1>9, <1>10, <1>11 DEF RegistryOK
  <1>13. QED BY <1>3, <1>5, <1>11, <1>12 DEF n, k

\* The registry after a handle was taken and given up.
LEMMA NextIs ==
  ASSUME NEW r, RegistryOK(r)
  PROVE  LET a == [r EXCEPT !.next = @ + 1]
         IN  /\ RegistryOK(a) /\ a.next = r.next + 1 /\ a.retained = r.retained
             /\ a.sources = r.sources /\ a.tables = r.tables
  <1> DEFINE n == r.next + 1
             a == [next |-> n, retained |-> r.retained, sources |-> r.sources, tables |-> r.tables]
  <1>1. IsRegistry(r) /\ r.next \in Nat /\ n \in Nat BY DEF RegistryOK
  <1>2. [r EXCEPT !.next = n] = a
    <2> HIDE DEF n
    <2>1. QED BY <1>1, RecordNext, Zenon
  <1>3. \A h \in DOMAIN r.sources : h < n
    <2>1. \A h \in DOMAIN r.sources : h < r.next /\ h \in Nat BY DEF RegistryOK, Reserving, IsMap
    <2>2. QED BY <1>1, <2>1
  <1>4. \A h \in DOMAIN r.tables : h < n
    <2>1. \A h \in DOMAIN r.tables : h < r.next /\ h \in Nat BY DEF RegistryOK, Reserving, IsMap
    <2>2. QED BY <1>1, <2>1
  <1> HIDE DEF n
  <1>5. a.next = n /\ a.retained = r.retained /\ a.sources = r.sources /\ a.tables = r.tables /\ IsRegistry(a)
    BY DEF IsRegistry
  <1> HIDE DEF a
  <1>6. RegistryOK(a) BY <1>1, <1>3, <1>4, <1>5 DEF RegistryOK
  <1>7. QED BY <1>2, <1>5, <1>6 DEF n

\* A new runtime, and one that was shut down, is in order at any next handle.
LEMMA EmptyIs ==
  ASSUME NEW n \in Nat
  PROVE  LET a == [NewRuntime EXCEPT !.next = n]
         IN  /\ RegistryOK(a) /\ a.next = n /\ a.retained = 0 /\ a.sources = <<>> /\ a.tables = <<>>
  <1> DEFINE a == [next |-> n, retained |-> 0, sources |-> <<>>, tables |-> <<>>]
  <1>1. [NewRuntime EXCEPT !.next = n] = a
    <2>1. IsRegistry(NewRuntime) BY DEF IsRegistry, NewRuntime
    <2>2. [NewRuntime EXCEPT !.next = n]
            = [next |-> n, retained |-> NewRuntime.retained, sources |-> NewRuntime.sources, tables |-> NewRuntime.tables]
      BY <2>1, RecordNext, Zenon
    <2>3. QED BY <2>2 DEF NewRuntime
  <1>2. Reserving(<<>>) /\ Reserved(<<>>) = 0
    <2>1. DOMAIN <<>> = {} OBVIOUS
    <2>2. IsFiniteSet({}) BY FS_EmptySet
    <2>3. Reserving(<<>>) BY <2>1, <2>2 DEF Reserving, IsMap
    <2>4. Reserved(<<>>) = Total(Amounts(<<>>), {}) BY <2>1, <2>3, ReservedIs
    <2>5. QED BY <2>3, <2>4, TotalEmpty
  <1>3. a.next = n /\ a.retained = 0 /\ a.sources = <<>> /\ a.tables = <<>> /\ IsRegistry(a)
    BY DEF IsRegistry
  <1> HIDE DEF a
  <1>4. RegistryOK(a) BY <1>2, <1>3 DEF RegistryOK
  <1>5. QED BY <1>1, <1>3, <1>4

-----------------------------------------------------------------------------
(* The registry, the range sources and the worksheets point at one another. *)
InnerOf(T, s) == {T[t].inner : t \in {u \in DOMAIN T : T[u].source = s}}
Linked(r, S, T) ==
    /\ DOMAIN r.tables = DOMAIN T
    /\ DOMAIN r.sources = {T[t].inner : t \in DOMAIN T}
    /\ \A t \in DOMAIN T : r.tables[t].source = T[t].inner /\ T[t].source \in DOMAIN S
    /\ \A s \in DOMAIN S : S[s].inner = InnerOf(T, s)
    /\ \A t, u \in DOMAIN T : T[t].inner = T[u].inner => t = u
SameInner(S, S2) == DOMAIN S2 = DOMAIN S /\ \A s \in DOMAIN S : S2[s].inner = S[s].inner

\* The links are about the inner workbooks only.
LEMMA LinkSame ==
  ASSUME NEW r, NEW S, NEW T, Linked(r, S, T), NEW S2, SameInner(S, S2)
  PROVE  Linked(r, S2, T)
  BY DEF Linked, SameInner

\* What a registry in order holds.
LEMMA InRegistry ==
  ASSUME NEW r, RegistryOK(r)
  PROVE  /\ r.next \in Nat /\ r.retained \in Nat
         /\ IsFiniteSet(DOMAIN r.sources) /\ IsFiniteSet(DOMAIN r.tables)
         /\ \A h \in DOMAIN r.sources : h \in Nat /\ h < r.next /\ BookOK(r.sources[h])
         /\ \A h \in DOMAIN r.tables : h \in Nat /\ h < r.next
  <1>1. Reserving(r.sources) /\ Reserving(r.tables) BY DEF RegistryOK
  <1>2. Reserved(r.sources) \in Nat /\ Reserved(r.tables) \in Nat BY <1>1, ReservedIs
  <1>3. r.retained \in Nat BY <1>2 DEF RegistryOK
  <1>4. QED BY <1>1, <1>3 DEF RegistryOK, Reserving, IsMap

\* A map without some handles has reserved no more.
LEMMA WithoutLess ==
  ASSUME NEW m, Reserving(m), NEW X
  PROVE  Reserved(Without(m, X)) <= Reserved(m) /\ Reserved(Without(m, X)) \in Nat
  <1> DEFINE Y == X \cap DOMAIN m
  <1>1. DOMAIN m \ X = DOMAIN m \ Y OBVIOUS
  <1>2. Without(m, X) = Without(m, Y) BY <1>1 DEF Without
  <1>3. Y \subseteq DOMAIN m OBVIOUS
  <1> HIDE DEF Y
  <1> DEFINE p == SumOf(SomeAmounts(m, Y))
             w == Reserved(Without(m, Y))
  <1>4. p \in Nat /\ w \in Nat /\ Reserved(m) = p + w BY <1>3, ReservedWithout
  <1> HIDE DEF p, w
  <1>5. w <= Reserved(m) BY <1>4
  <1>6. QED BY <1>2, <1>4, <1>5 DEF w

\* A registry some documents left retains no more.
LEMMA LeftLess ==
  ASSUME NEW r, RegistryOK(r), NEW X, NEW Y
  PROVE  Left(r, X, Y).retained <= r.retained
  <1> DEFINE a == Reserved(Without(r.sources, X))
             b == Reserved(Without(r.tables, Y))
             c == Reserved(r.sources)
             d == Reserved(r.tables)
  <1>1. Reserving(r.sources) /\ Reserving(r.tables) /\ r.retained = c + d BY DEF RegistryOK
  <1>2. a <= c /\ a \in Nat /\ b <= d /\ b \in Nat BY <1>1, WithoutLess
  <1>3. c \in Nat /\ d \in Nat BY <1>1, ReservedIs
  <1>4. Left(r, X, Y).retained = a + b BY DEF Left
  <1> HIDE DEF a, b, c, d
  <1>5. QED BY <1>1, <1>2, <1>3, <1>4

\* A worksheet opened: a workbook of its own, and a table of it.
LEMMA LinkOpen ==
  ASSUME NEW r, RegistryOK(r), NEW S, NEW T, Linked(r, S, T), NEW s \in DOMAIN S,
         NEW book, BookOK(book), NEW table, table.reserved \in Nat, table.source = r.next,
         NEW S2, DOMAIN S2 = DOMAIN S, S2[s].inner = S[s].inner \cup {r.next},
         \A k \in DOMAIN S : k # s => S2[k].inner = S[k].inner
  PROVE  /\ RegistryOK(AddTable(AddBook(r, book), table))
         /\ Linked(AddTable(AddBook(r, book), table), S2,
                   With(T, AddBook(r, book).next, [source |-> s, inner |-> r.next]))
  <1> DEFINE a == AddBook(r, book)
             b == AddTable(a, table)
             n == r.next
             m == a.next
             e == [source |-> s, inner |-> n]
             T2 == With(T, m, e)
  <1>1. RegistryOK(a) /\ m = n + 1 /\ a.tables = r.tables /\ DOMAIN a.sources = DOMAIN r.sources \cup {n}
    BY AddBookIs
  <1> HIDE DEF a
  <1>2. /\ RegistryOK(b) /\ b.sources = a.sources
        /\ DOMAIN b.tables = DOMAIN a.tables \cup {m} /\ b.tables[m] = table
        /\ \A t \in DOMAIN a.tables : b.tables[t] = a.tables[t]
    BY <1>1, AddTableIs
  <1> HIDE DEF b
  <1>3. n \in Nat /\ n \notin DOMAIN r.sources /\ m \notin DOMAIN r.tables
    BY <1>1, InRegistry
  <1>4. DOMAIN T2 = DOMAIN T \cup {m} /\ T2[m] = e /\ \A t \in DOMAIN T : t # m => T2[t] = T[t]
    BY DEF With
  <1>5. /\ DOMAIN r.tables = DOMAIN T
        /\ DOMAIN r.sources = {T[t].inner : t \in DOMAIN T}
        /\ \A t \in DOMAIN T : r.tables[t].source = T[t].inner /\ T[t].source \in DOMAIN S
        /\ \A k \in DOMAIN S : S[k].inner = InnerOf(T, k)
        /\ \A t, u \in DOMAIN T : T[t].inner = T[u].inner => t = u
    BY DEF Linked
  <1>6. e.source = s /\ e.inner = n OBVIOUS
  <1> HIDE DEF T2, e, m, n
  <1>7. m \notin DOMAIN T /\ \A t \in DOMAIN T : T2[t] = T[t] BY <1>3, <1>4, <1>5
  <1>8. DOMAIN b.tables = DOMAIN T2 BY <1>1, <1>2, <1>4, <1>5
  <1>9. DOMAIN b.sources = {T2[t].inner : t \in DOMAIN T2}
    <2>1. {T2[t].inner : t \in DOMAIN T2} = {T[t].inner : t \in DOMAIN T} \cup {n}
      BY <1>4, <1>6, <1>7
    <2>2. QED BY <1>1, <1>2, <1>5, <2>1
  <1>10. \A t \in DOMAIN T2 : b.tables[t].source = T2[t].inner /\ T2[t].source \in DOMAIN S2
    BY <1>1, <1>2, <1>4, <1>5, <1>6, <1>7 DEF n
  <1>11. \A k \in DOMAIN S2 : S2[k].inner = InnerOf(T2, k)
    <2> SUFFICES ASSUME NEW k \in DOMAIN S2 PROVE S2[k].inner = InnerOf(T2, k)
      OBVIOUS
    <2>1. S[k].inner = InnerOf(T, k) BY <1>5
    <2>2. CASE k = s
      <3>1. InnerOf(T2, k) = InnerOf(T, k) \cup {n} BY <1>4, <1>6, <1>7, <2>2 DEF InnerOf
      <3>2. QED BY <2>1, <2>2, <3>1 DEF n
    <2>3. CASE k # s
      <3>1. InnerOf(T2, k) = InnerOf(T, k) BY <1>4, <1>6, <1>7, <2>3 DEF InnerOf
      <3>2. QED BY <2>1, <2>3, <3>1
    <2>4. QED BY <2>2, <2>3
  <1>12. \A t, u \in DOMAIN T2 : T2[t].inner = T2[u].inner => t = u
    <2>1. \A t \in DOMAIN T : T2[t].inner # n BY <1>3, <1>5, <1>7
    <2>2. QED BY <1>4, <1>5, <1>6, <1>7, <2>1
  <1>13. Linked(b, S2, T2) BY <1>8, <1>9, <1>10, <1>11, <1>12 DEF Linked
  <1>14. QED BY <1>2, <1>13 DEF a, b, T2, e, m, n

\* A workbook that was opened for a worksheet is closed when that fails.
LEMMA LinkFail ==
  ASSUME NEW r, RegistryOK(r), NEW S, NEW T, Linked(r, S, T), NEW book, BookOK(book)
  PROVE  LET q == CloseSourceOf(AddBook(r, book), r.next)
         IN  RegistryOK(q) /\ Linked(q, S, T) /\ q.retained <= AddBook(r, book).retained
  <1> DEFINE a == AddBook(r, book)
             n == r.next
             o == Owned(a, n)
             q == Left(a, {n}, o)
  <1>1. RegistryOK(a) /\ a.tables = r.tables /\ DOMAIN a.sources = DOMAIN r.sources \cup {n}
    BY AddBookIs
  <1> HIDE DEF a
  <1>2. n \notin DOMAIN r.sources BY InRegistry
  <1>3. o = {}
    <2>1. \A t \in DOMAIN r.tables : r.tables[t].source \in DOMAIN r.sources BY DEF Linked
    <2>2. QED BY <1>1, <1>2, <2>1 DEF Owned
  <1>4. CloseSourceOf(a, n) = q BY <1>1, <1>3, CloseSourceIs
  <1> HIDE DEF o, n
  <1>5. /\ RegistryOK(q) /\ DOMAIN q.sources = DOMAIN a.sources \ {n}
        /\ DOMAIN q.tables = DOMAIN a.tables \ o
        /\ \A t \in DOMAIN a.tables \ o : q.tables[t] = a.tables[t]
    BY <1>1, LeftOK
  <1>6. q.retained <= a.retained BY <1>1, LeftLess
  <1> HIDE DEF q
  <1>7. DOMAIN q.sources = DOMAIN r.sources BY <1>1, <1>2, <1>5
  <1>8. DOMAIN q.tables = DOMAIN r.tables /\ \A t \in DOMAIN r.tables : q.tables[t] = r.tables[t]
    BY <1>1, <1>3, <1>5
  <1>9. Linked(q, S, T) BY <1>7, <1>8 DEF Linked
  <1>10. QED BY <1>4, <1>5, <1>6, <1>9 DEF a, n

\* The sources Z are the sources S but for the workbook i, which the source s gives up.
Shed(Z, S, s, i) ==
  /\ DOMAIN Z = DOMAIN S
  /\ Z[s].inner = S[s].inner \ {i}
  /\ \A k \in DOMAIN S : k # s => Z[k].inner = S[k].inner

\* A worksheet closes with the workbook behind it.
LEMMA LinkClose ==
  ASSUME NEW r, RegistryOK(r), NEW S, NEW T, Linked(r, S, T), NEW t \in DOMAIN T,
         NEW S2, Shed(S2, S, T[t].source, T[t].inner)
  PROVE  LET q == CloseSourceOf(CloseTableOf(r, t), T[t].inner)
         IN  RegistryOK(q) /\ Linked(q, S2, Without(T, {t})) /\ q.retained <= r.retained /\ q.next = r.next
  <1>0. /\ DOMAIN S2 = DOMAIN S /\ S2[T[t].source].inner = S[T[t].source].inner \ {T[t].inner}
        /\ \A k \in DOMAIN S : k # T[t].source => S2[k].inner = S[k].inner
    BY DEF Shed
  <1> DEFINE l == Left(r, {}, {t})
             i == T[t].inner
             q == Left(r, {i}, {t})
             T2 == Without(T, {t})
  <1>1. /\ RegistryOK(l) /\ DOMAIN l.tables = DOMAIN r.tables \ {t}
        /\ \A u \in DOMAIN r.tables \ {t} : l.tables[u] = r.tables[u]
    <2> DEFINE Y == {t}
    <2> HIDE DEF Y
    <2>1. /\ RegistryOK(Left(r, {}, Y)) /\ DOMAIN Left(r, {}, Y).tables = DOMAIN r.tables \ Y
          /\ \A u \in DOMAIN r.tables \ Y : Left(r, {}, Y).tables[u] = r.tables[u]
      BY LeftOK
    <2>2. QED BY <2>1 DEF Y
  <1>2. CloseTableOf(r, t) = l BY CloseTableIs
  <1> HIDE DEF l
  <1>3. /\ DOMAIN r.tables = DOMAIN T
        /\ DOMAIN r.sources = {T[u].inner : u \in DOMAIN T}
        /\ \A u \in DOMAIN T : r.tables[u].source = T[u].inner /\ T[u].source \in DOMAIN S
        /\ \A k \in DOMAIN S : S[k].inner = InnerOf(T, k)
        /\ \A u, v \in DOMAIN T : T[u].inner = T[v].inner => u = v
    BY DEF Linked
  <1>4. Owned(l, i) = {} BY <1>1, <1>3 DEF Owned
  <1>5. CloseSourceOf(l, i) = Left(l, {i}, {})
    <2> HIDE DEF i
    <2>1. CloseSourceOf(l, i) = Left(l, {i}, Owned(l, i)) BY <1>1, <1>4, CloseSourceIs
    <2>2. QED BY <1>4, <2>1
  <1>6. Left(l, {i}, {}) = q
    <2>1. Left(l, {i}, {}) = Left(r, {} \cup {i}, {t} \cup {}) BY LeftLeft DEF l
    <2>2. {} \cup {i} = {i} /\ {t} \cup {} = {t} OBVIOUS
    <2>3. QED BY <2>1, <2>2
  <1>7. /\ RegistryOK(q) /\ DOMAIN q.sources = DOMAIN r.sources \ {i} /\ q.next = r.next
        /\ DOMAIN q.tables = DOMAIN r.tables \ {t}
        /\ \A u \in DOMAIN r.tables \ {t} : q.tables[u] = r.tables[u]
    BY LeftOK
  <1>8. q.retained <= r.retained BY LeftLess
  <1>9. DOMAIN T2 = DOMAIN T \ {t} /\ \A u \in DOMAIN T \ {t} : T2[u] = T[u] BY DEF Without
  <1> HIDE DEF q, T2
  <1>10. DOMAIN q.sources = {T2[u].inner : u \in DOMAIN T2}
    <2>1. \A u \in DOMAIN T : T[u].inner = i => u = t BY <1>3
    <2> HIDE DEF i
    <2>2. {T2[u].inner : u \in DOMAIN T2} = {T[u].inner : u \in DOMAIN T} \ {i} BY <1>9, <2>1 DEF i
    <2>3. QED BY <1>3, <1>7, <2>2
  <1>11. \A u \in DOMAIN T2 : q.tables[u].source = T2[u].inner /\ T2[u].source \in DOMAIN S2
    BY <1>0, <1>3, <1>7, <1>9
  <1>12. \A k \in DOMAIN S2 : S2[k].inner = InnerOf(T2, k)
    <2> SUFFICES ASSUME NEW k \in DOMAIN S2 PROVE S2[k].inner = InnerOf(T2, k)
      OBVIOUS
    <2>1. S[k].inner = InnerOf(T, k) BY <1>0, <1>3
    <2>2. CASE k = T[t].source
      <3>1. InnerOf(T2, k) = InnerOf(T, k) \ {i}
        <4>1. \A u \in DOMAIN T : T[u].inner = i => u = t BY <1>3
        <4> HIDE DEF i
        <4>2. QED BY <1>9, <4>1, <2>2 DEF InnerOf, i
      <3>2. QED BY <1>0, <2>1, <2>2, <3>1
    <2>3. CASE k # T[t].source
      <3>1. InnerOf(T2, k) = InnerOf(T, k) BY <1>9, <2>3 DEF InnerOf
      <3>2. QED BY <1>0, <2>1, <2>3, <3>1
    <2>4. QED BY <2>2, <2>3
  <1>13. \A u, v \in DOMAIN T2 : T2[u].inner = T2[v].inner => u = v BY <1>3, <1>9
  <1>14. DOMAIN q.tables = DOMAIN T2 BY <1>3, <1>7, <1>9
  <1>15. Linked(q, S2, T2) BY <1>10, <1>11, <1>12, <1>13, <1>14 DEF Linked
  <1>16. QED BY <1>2, <1>5, <1>6, <1>7, <1>8, <1>15 DEF i, T2

\* A source closes with every worksheet opened from it.
LEMMA LinkCloseSource ==
  ASSUME NEW r, RegistryOK(r), NEW S, NEW T, Linked(r, S, T), NEW s \in DOMAIN S
  PROVE  LET tables == {t \in DOMAIN T : T[t].source = s}
             q == FoldLeft(CloseSourceOf, FoldLeft(CloseTableOf, r, SetToSeq(tables)), SetToSeq(S[s].inner))
         IN  RegistryOK(q) /\ Linked(q, Without(S, {s}), Without(T, tables)) /\ q.retained <= r.retained
  <1> DEFINE tables == {t \in DOMAIN T : T[t].source = s}
             I == S[s].inner
             l == Left(r, {}, tables)
             q == Left(r, I, tables)
             S2 == Without(S, {s})
             T2 == Without(T, tables)
  <1>1. /\ DOMAIN r.tables = DOMAIN T
        /\ DOMAIN r.sources = {T[u].inner : u \in DOMAIN T}
        /\ \A u \in DOMAIN T : r.tables[u].source = T[u].inner /\ T[u].source \in DOMAIN S
        /\ \A k \in DOMAIN S : S[k].inner = InnerOf(T, k)
        /\ \A u, v \in DOMAIN T : T[u].inner = T[v].inner => u = v
    BY DEF Linked
  <1>2. /\ IsFiniteSet(DOMAIN r.sources) /\ IsFiniteSet(DOMAIN r.tables)
        /\ \A h \in DOMAIN r.tables : h \in Nat
    BY InRegistry
  <1>3. tables \in SUBSET Nat /\ IsFiniteSet(tables)
    <2>1. tables \subseteq DOMAIN r.tables BY <1>1
    <2>2. QED BY <1>2, <2>1, FS_Subset
  <1>4. I = {T[t].inner : t \in tables} BY <1>1 DEF InnerOf
  <1>5. IsFiniteSet(I)
    <2>1. I \subseteq DOMAIN r.sources BY <1>1, <1>4
    <2>2. QED BY <1>2, <2>1, FS_Subset
  <1>6. /\ RegistryOK(l) /\ DOMAIN l.tables = DOMAIN r.tables \ tables
        /\ \A u \in DOMAIN r.tables \ tables : l.tables[u] = r.tables[u]
    BY LeftOK
  <1>7. FoldLeft(CloseTableOf, r, SetToSeq(tables)) = l
    <2> HIDE DEF tables
    <2>1. QED BY <1>3, TablesClosed
  <1>8. Bare(l, I)
    <2> HIDE DEF I, l
    <2>1. ASSUME NEW i \in I, NEW u \in DOMAIN l.tables PROVE l.tables[u].source # i
      <3>1. u \in DOMAIN T /\ u \notin tables /\ l.tables[u].source = T[u].inner BY <1>1, <1>6
      <3>2. PICK t \in tables : i = T[t].inner BY <1>4
      <3>3. t # u /\ t \in DOMAIN T BY <3>1, <3>2
      <3>4. T[t].inner # T[u].inner BY <1>1, <3>1, <3>3
      <3>5. QED BY <3>1, <3>2, <3>4
    <2>2. QED BY <2>1 DEF Bare, Owned
  <1>9. FoldLeft(CloseSourceOf, l, SetToSeq(I)) = Left(l, I, {})
    <2> HIDE DEF l, I
    <2>1. QED BY <1>5, <1>6, <1>8, SourcesClosed
  <1>10. Left(l, I, {}) = q
    <2> HIDE DEF tables, I
    <2>1. Left(l, I, {}) = Left(r, {} \cup I, tables \cup {}) BY LeftLeft
    <2>2. {} \cup I = I /\ tables \cup {} = tables OBVIOUS
    <2> HIDE DEF l
    <2>3. QED BY <2>1, <2>2
  <1>11. /\ RegistryOK(q) /\ DOMAIN q.sources = DOMAIN r.sources \ I
         /\ DOMAIN q.tables = DOMAIN r.tables \ tables
         /\ \A u \in DOMAIN r.tables \ tables : q.tables[u] = r.tables[u]
    BY LeftOK
  <1>12. q.retained <= r.retained BY LeftLess
  <1>13. /\ DOMAIN S2 = DOMAIN S \ {s} /\ \A k \in DOMAIN S \ {s} : S2[k] = S[k]
         /\ DOMAIN T2 = DOMAIN T \ tables /\ \A u \in DOMAIN T \ tables : T2[u] = T[u]
    BY DEF Without
  <1>14. \A u \in DOMAIN T : u \in tables <=> T[u].source = s OBVIOUS
  <1>15. tables \subseteq DOMAIN T OBVIOUS
  <1> HIDE DEF q, S2, T2, l, I, tables
  <1>16. DOMAIN q.sources = {T2[u].inner : u \in DOMAIN T2}
    <2>1. \A u \in DOMAIN T : T[u].inner \in I => u \in tables BY <1>1, <1>4, <1>15
    <2>2. {T2[u].inner : u \in DOMAIN T2} = {T[u].inner : u \in DOMAIN T} \ I
      BY <1>4, <1>13, <1>15, <2>1
    <2>3. QED BY <1>1, <1>11, <2>2
  <1>17. \A u \in DOMAIN T2 : q.tables[u].source = T2[u].inner /\ T2[u].source \in DOMAIN S2
    BY <1>1, <1>11, <1>13, <1>14
  <1>18. \A k \in DOMAIN S2 : S2[k].inner = InnerOf(T2, k)
    <2> SUFFICES ASSUME NEW k \in DOMAIN S2 PROVE S2[k].inner = InnerOf(T2, k)
      OBVIOUS
    <2>1. S[k].inner = InnerOf(T, k) /\ k # s /\ S2[k] = S[k] BY <1>1, <1>13
    <2>2. InnerOf(T2, k) = InnerOf(T, k) BY <1>13, <1>14, <2>1 DEF InnerOf
    <2>3. QED BY <2>1, <2>2
  <1>19. \A u, v \in DOMAIN T2 : T2[u].inner = T2[v].inner => u = v BY <1>1, <1>13
  <1>20. DOMAIN q.tables = DOMAIN T2 BY <1>1, <1>11, <1>13
  <1>21. Linked(q, S2, T2) BY <1>16, <1>17, <1>18, <1>19, <1>20 DEF Linked
  <1>22. QED BY <1>7, <1>9, <1>10, <1>11, <1>12, <1>21 DEF tables, I, S2, T2

-----------------------------------------------------------------------------
(* The invariant, in parts. *)
OpenOK(f, op) ==
    /\ op = [kind |-> op.kind, phase |-> op.phase, fetch |-> op.fetch,
             indexed |-> op.indexed, expected |-> op.expected]
    /\ StoreOK(op.indexed) /\ op.indexed.length = f.length
    /\ op.expected # None => op.expected \in Missing(op.indexed)
    /\ PhaseOK(f, op.phase, op.fetch)
TableOpenOK(f, op) ==
    /\ op = [kind |-> op.kind, source |-> op.source, table |-> op.table,
             expected |-> op.expected, fetch |-> op.fetch]
    /\ f.kind = "xlsx" /\ op.fetch \in Fetches
    /\ op.expected # None => op.expected \in HostRanges
OperationOK(f, op) ==
    \/ op.kind = "open" /\ OpenOK(f, op)
    \/ op.kind = "table" /\ TableOpenOK(f, op)
RangeSourceOK(f, s) ==
    /\ s = [indexed |-> s.indexed, kind |-> s.kind, index |-> s.index, entries |-> s.entries,
            tables |-> s.tables, compact |-> s.compact, inner |-> s.inner]
    /\ StoreOK(s.indexed) /\ SourceOK(f, s)

OpsOK(f, ops) == \A o \in DOMAIN ops : OperationOK(f, ops[o])
SourcesOK(f, S, n) == \A s \in DOMAIN S : s \in Nat /\ s < n /\ RangeSourceOK(f, S[s])
BooksOK(r, S, T) == RegistryOK(r) /\ r.retained <= MemoryBudget /\ Linked(r, S, T)
IInv ==
    /\ file \in Files
    /\ next \in [operation : Nat, source : Nat]
    /\ OpsOK(file, operations)
    /\ SourcesOK(file, rangeSources, next.source)
    /\ BooksOK(runtime, rangeSources, tableSources)

\* Operations with one more, or with one replaced.
LEMMA OpsWith ==
  ASSUME NEW f, NEW ops, OpsOK(f, ops), NEW o, NEW op, OperationOK(f, op)
  PROVE  OpsOK(f, With(ops, o, op)) /\ OpsOK(f, [ops EXCEPT ![o] = op])
  BY DEF OpsOK, With

\* Operations without some.
LEMMA OpsWithout ==
  ASSUME NEW f, NEW ops, OpsOK(f, ops), NEW O
  PROVE  OpsOK(f, Without(ops, O))
  BY DEF OpsOK, Without

\* An operation whose answer was refused, and one that waits on.
LEMMA RefusedOperation ==
  ASSUME NEW f, NEW op, OperationOK(f, op)
  PROVE  OperationOK(f, [op EXCEPT !.expected = None])
  <1> DEFINE a == [op EXCEPT !.expected = None]
  <1>1. CASE op.kind = "open" /\ OpenOK(f, op)
    <2>1. op = [kind |-> op.kind, phase |-> op.phase, fetch |-> op.fetch,
             indexed |-> op.indexed, expected |-> op.expected]
      BY <1>1 DEF OpenOK
    <2>2. a = [x \in DOMAIN op |-> IF x = "expected" THEN None ELSE op[x]] OBVIOUS
    <2>3. /\ a.kind = op.kind /\ a.phase = op.phase /\ a.fetch = op.fetch /\ a.indexed = op.indexed
          /\ a.expected = None
      BY <2>1, <2>2
    <2>4. [kind |-> op.kind, phase |-> op.phase, fetch |-> op.fetch,
             indexed |-> op.indexed, expected |-> None]
            = [x \in DOMAIN op |-> IF x = "expected" THEN None ELSE op[x]]
      BY <2>1
    <2>5. a = [kind |-> a.kind, phase |-> a.phase, fetch |-> a.fetch,
             indexed |-> a.indexed, expected |-> a.expected]
      BY <2>2, <2>3, <2>4
    <2> HIDE DEF a
    <2>6. OpenOK(f, a) BY <1>1, <2>3, <2>5 DEF OpenOK
    <2>7. QED BY <1>1, <2>3, <2>6 DEF OperationOK, a
  <1>2. CASE op.kind = "table" /\ TableOpenOK(f, op)
    <2>1. op = [kind |-> op.kind, source |-> op.source, table |-> op.table,
             expected |-> op.expected, fetch |-> op.fetch]
      BY <1>2 DEF TableOpenOK
    <2>2. a = [x \in DOMAIN op |-> IF x = "expected" THEN None ELSE op[x]] OBVIOUS
    <2>3. /\ a.kind = op.kind /\ a.source = op.source /\ a.fetch = op.fetch /\ a.table = op.table
          /\ a.expected = None
      BY <2>1, <2>2
    <2>4. [kind |-> op.kind, source |-> op.source, table |-> op.table,
             expected |-> None, fetch |-> op.fetch]
            = [x \in DOMAIN op |-> IF x = "expected" THEN None ELSE op[x]]
      BY <2>1
    <2>5. a = [kind |-> a.kind, source |-> a.source, table |-> a.table,
             expected |-> a.expected, fetch |-> a.fetch]
      BY <2>2, <2>3, <2>4
    <2> HIDE DEF a
    <2>6. TableOpenOK(f, a) BY <1>2, <2>3, <2>5 DEF TableOpenOK
    <2>7. QED BY <1>2, <2>3, <2>6 DEF OperationOK, a
  <1>3. QED BY <1>1, <1>2 DEF OperationOK

\* An open of a source that asked for a missing range.
LEMMA OpenWaits ==
  ASSUME NEW f, NEW op, OpenOK(f, op), op.kind = "open", NEW ix, StoreOK(ix), ix.length = f.length,
         NEW phase, NEW fetch, PhaseOK(f, phase, fetch), NEW range \in Missing(ix)
  PROVE  OperationOK(f, [op EXCEPT !.indexed = ix, !.phase = phase, !.fetch = fetch, !.expected = range])
  <1> DEFINE a == [op EXCEPT !.indexed = ix, !.phase = phase, !.fetch = fetch, !.expected = range]
             cut == [x \in DOMAIN op |-> IF x = "indexed" THEN ix ELSE IF x = "phase" THEN phase
                       ELSE IF x = "fetch" THEN fetch ELSE IF x = "expected" THEN range ELSE op[x]]
  <1>1. op = [kind |-> op.kind, phase |-> op.phase, fetch |-> op.fetch,
           indexed |-> op.indexed, expected |-> op.expected]
    BY DEF OpenOK
  <1>2. a = cut OBVIOUS
  <1>3. [kind |-> op.kind, phase |-> phase, fetch |-> fetch, indexed |-> ix, expected |-> range] = cut
    BY <1>1
  <1> HIDE DEF a, cut
  <1>4. a = [kind |-> op.kind, phase |-> phase, fetch |-> fetch, indexed |-> ix, expected |-> range]
    BY <1>2, <1>3
  <1>5. a.kind = "open" /\ a.phase = phase /\ a.fetch = fetch /\ a.indexed = ix /\ a.expected = range
    BY <1>4
  <1>6. OpenOK(f, a) BY <1>4, <1>5 DEF OpenOK
  <1>7. QED BY <1>5, <1>6 DEF OperationOK, a

\* An open of a worksheet that asked for a range.
LEMMA TableWaits ==
  ASSUME NEW f, NEW op, TableOpenOK(f, op), op.kind = "table", NEW fetch \in Fetches, NEW range \in HostRanges
  PROVE  OperationOK(f, [op EXCEPT !.fetch = fetch, !.expected = range])
  <1> DEFINE a == [op EXCEPT !.fetch = fetch, !.expected = range]
             cut == [x \in DOMAIN op |-> IF x = "fetch" THEN fetch ELSE IF x = "expected" THEN range ELSE op[x]]
  <1>1. op = [kind |-> op.kind, source |-> op.source, table |-> op.table,
           expected |-> op.expected, fetch |-> op.fetch]
    BY DEF TableOpenOK
  <1>2. a = cut OBVIOUS
  <1>3. [kind |-> op.kind, source |-> op.source, table |-> op.table, expected |-> range, fetch |-> fetch] = cut
    BY <1>1
  <1> HIDE DEF a, cut
  <1>4. a = [kind |-> op.kind, source |-> op.source, table |-> op.table, expected |-> range, fetch |-> fetch]
    BY <1>2, <1>3
  <1>5. a.kind = "table" /\ a.source = op.source /\ a.table = op.table /\ a.fetch = fetch /\ a.expected = range
    BY <1>4
  <1>6. TableOpenOK(f, a) BY <1>4, <1>5 DEF TableOpenOK
  <1>7. QED BY <1>5, <1>6 DEF OperationOK, a

\* A source with more ranges, and with another workbook.
LEMMA SourceIndexes ==
  ASSUME NEW f, NEW s, RangeSourceOK(f, s), NEW ix, StoreOK(ix)
  PROVE  RangeSourceOK(f, [s EXCEPT !.indexed = ix]) /\ [s EXCEPT !.indexed = ix].inner = s.inner
  <1> DEFINE a == [s EXCEPT !.indexed = ix]
             cut == [x \in DOMAIN s |-> IF x = "indexed" THEN ix ELSE s[x]]
  <1>1. s = [indexed |-> s.indexed, kind |-> s.kind, index |-> s.index, entries |-> s.entries,
            tables |-> s.tables, compact |-> s.compact, inner |-> s.inner]
    BY DEF RangeSourceOK
  <1>2. a = cut OBVIOUS
  <1>3. [indexed |-> ix, kind |-> s.kind, index |-> s.index, entries |-> s.entries,
            tables |-> s.tables, compact |-> s.compact, inner |-> s.inner] = cut
    BY <1>1
  <1> HIDE DEF a, cut
  <1>4. a = [indexed |-> ix, kind |-> s.kind, index |-> s.index, entries |-> s.entries,
            tables |-> s.tables, compact |-> s.compact, inner |-> s.inner]
    BY <1>2, <1>3
  <1>5. /\ a.indexed = ix /\ a.kind = s.kind /\ a.index = s.index /\ a.entries = s.entries
        /\ a.tables = s.tables /\ a.compact = s.compact /\ a.inner = s.inner
    BY <1>4
  <1>6. SourceOK(f, a) BY <1>5 DEF RangeSourceOK, SourceOK
  <1>7. RangeSourceOK(f, a) BY <1>4, <1>5, <1>6 DEF RangeSourceOK
  <1>8. QED BY <1>5, <1>7 DEF a

\* A source with other workbooks opened from it.
LEMMA SourceOwns ==
  ASSUME NEW f, NEW s, RangeSourceOK(f, s), NEW I
  PROVE  RangeSourceOK(f, [s EXCEPT !.inner = I]) /\ [s EXCEPT !.inner = I].inner = I
  <1> DEFINE a == [s EXCEPT !.inner = I]
             cut == [x \in DOMAIN s |-> IF x = "inner" THEN I ELSE s[x]]
  <1>1. s = [indexed |-> s.indexed, kind |-> s.kind, index |-> s.index, entries |-> s.entries,
            tables |-> s.tables, compact |-> s.compact, inner |-> s.inner]
    BY DEF RangeSourceOK
  <1>2. a = cut OBVIOUS
  <1>3. [indexed |-> s.indexed, kind |-> s.kind, index |-> s.index, entries |-> s.entries,
            tables |-> s.tables, compact |-> s.compact, inner |-> I] = cut
    BY <1>1
  <1> HIDE DEF a, cut
  <1>4. a = [indexed |-> s.indexed, kind |-> s.kind, index |-> s.index, entries |-> s.entries,
            tables |-> s.tables, compact |-> s.compact, inner |-> I]
    BY <1>2, <1>3
  <1>5. /\ a.indexed = s.indexed /\ a.kind = s.kind /\ a.index = s.index /\ a.entries = s.entries
        /\ a.tables = s.tables /\ a.compact = s.compact /\ a.inner = I
    BY <1>4
  <1>6. SourceOK(f, a) BY <1>5 DEF RangeSourceOK, SourceOK
  <1>7. RangeSourceOK(f, a) BY <1>4, <1>5, <1>6 DEF RangeSourceOK
  <1>8. QED BY <1>5, <1>7 DEF a

\* The sources, when one of them has other workbooks.
LEMMA OwnsMore ==
  ASSUME NEW f, NEW S, NEW n, SourcesOK(f, S, n), NEW s \in DOMAIN S, NEW I
  PROVE  LET S2 == [S EXCEPT ![s].inner = I]
         IN  /\ SourcesOK(f, S2, n) /\ DOMAIN S2 = DOMAIN S /\ S2[s].inner = I
             /\ \A k \in DOMAIN S : k # s => S2[k].inner = S[k].inner
  <1> DEFINE S2 == [S EXCEPT ![s].inner = I]
             a == [S[s] EXCEPT !.inner = I]
  <1>1. DOMAIN S2 = DOMAIN S /\ S2[s] = a /\ \A k \in DOMAIN S : k # s => S2[k] = S[k] OBVIOUS
  <1>2. RangeSourceOK(f, S[s]) /\ s \in Nat /\ s < n BY DEF SourcesOK
  <1>3. RangeSourceOK(f, a) /\ a.inner = I BY <1>2, SourceOwns
  <1> HIDE DEF a, S2
  <1>4. SourcesOK(f, S2, n) BY <1>1, <1>2, <1>3 DEF SourcesOK
  <1>5. QED BY <1>1, <1>3, <1>4 DEF S2

\* The sources, when one of them has more ranges: the links do not change.
LEMMA IndexesMore ==
  ASSUME NEW f, NEW S, NEW n, SourcesOK(f, S, n), NEW s \in DOMAIN S, NEW ix, StoreOK(ix)
  PROVE  LET S2 == [S EXCEPT ![s].indexed = ix]
         IN  SourcesOK(f, S2, n) /\ SameInner(S, S2)
  <1> DEFINE S2 == [S EXCEPT ![s].indexed = ix]
             a == [S[s] EXCEPT !.indexed = ix]
  <1>1. DOMAIN S2 = DOMAIN S /\ S2[s] = a /\ \A k \in DOMAIN S : k # s => S2[k] = S[k] OBVIOUS
  <1>2. RangeSourceOK(f, S[s]) /\ s \in Nat /\ s < n BY DEF SourcesOK
  <1>3. RangeSourceOK(f, a) /\ a.inner = S[s].inner BY <1>2, SourceIndexes
  <1> HIDE DEF a, S2
  <1>4. SourcesOK(f, S2, n) BY <1>1, <1>2, <1>3 DEF SourcesOK
  <1>5. SameInner(S, S2) BY <1>1, <1>3 DEF SameInner
  <1>6. QED BY <1>4, <1>5 DEF S2

\* The invariant is what is to be shown.
LEMMA Implied == IInv => ExcelInv
  <1> SUFFICES ASSUME IInv PROVE ExcelInv
    OBVIOUS
  <1>1. ASSUME NEW o \in DOMAIN operations, operations[o].kind = "open"
        PROVE  /\ IndexedSound(operations[o].indexed)
               /\ operations[o].expected # None =>
                     ~(Positions(operations[o].expected) \subseteq Indexed(operations[o].indexed))
    <2>1. OperationOK(file, operations[o]) BY DEF IInv, OpsOK
    <2>2. OpenOK(file, operations[o]) BY <1>1, <2>1 DEF OperationOK
    <2>3. QED BY <2>2 DEF OpenOK, StoreOK, Missing
  <1>2. \A s \in DOMAIN rangeSources : IndexedSound(rangeSources[s].indexed)
    BY DEF IInv, SourcesOK, RangeSourceOK, StoreOK
  <1>3. Linked(runtime, rangeSources, tableSources) BY DEF IInv, BooksOK
  <1>4. runtime.retained = Reserved(runtime.sources) + Reserved(runtime.tables) /\ runtime.retained <= MemoryBudget
    BY DEF IInv, BooksOK, RegistryOK
  <1>5. QED BY <1>1, <1>2, <1>3, <1>4 DEF ExcelInv, Linked, InnerOf

-----------------------------------------------------------------------------
(* The first state, and the opens of sources. *)
LEMMA NothingLinked ==
  ASSUME NEW n \in Nat
  PROVE  BooksOK([NewRuntime EXCEPT !.next = n], <<>>, <<>>)
  <1> DEFINE r == [NewRuntime EXCEPT !.next = n]
  <1>1. RegistryOK(r) /\ r.retained = 0 /\ r.sources = <<>> /\ r.tables = <<>> BY EmptyIs
  <1>2. MemoryBudget \in Nat BY RuntimeAssumption
  <1> HIDE DEF r
  <1>3. DOMAIN <<>> = {} OBVIOUS
  <1>4. Linked(r, <<>>, <<>>) BY <1>1, <1>3 DEF Linked
  <1>5. BooksOK(r, <<>>, <<>>) BY <1>1, <1>2, <1>4 DEF BooksOK
  <1>6. QED BY <1>5 DEF r

\* The first state keeps the invariant.
LEMMA InitIs == Init => IInv
  <1> SUFFICES ASSUME Init PROVE IInv
    OBVIOUS
  <1> USE DEF Init
  <1>1. runtime = [NewRuntime EXCEPT !.next = 1] BY DEF NewRuntime
  <1>2. BooksOK(runtime, rangeSources, tableSources) BY <1>1, NothingLinked
  <1>3. DOMAIN operations = {} /\ DOMAIN rangeSources = {} OBVIOUS
  <1>4. QED BY <1>2, <1>3 DEF IInv, OpsOK, SourcesOK

\* shutdown drops every document and every operation, and keeps the handle counters.
LEMMA ShutdownStep == IInv /\ Shutdown => IInv'
  <1> SUFFICES ASSUME IInv, Shutdown PROVE IInv'
    OBVIOUS
  <1> USE DEF Shutdown
  <1>1. runtime.next \in Nat BY DEF IInv, BooksOK, RegistryOK
  <1>2. BooksOK(runtime', rangeSources', tableSources') BY <1>1, NothingLinked
  <1>3. DOMAIN operations' = {} /\ DOMAIN rangeSources' = {} OBVIOUS
  <1>4. file' = file /\ next' = next OBVIOUS
  <1>5. QED BY <1>2, <1>3, <1>4 DEF IInv, OpsOK, SourcesOK

\* Steps that only change the operations.
LEMMA SameBooks ==
  ASSUME IInv, OpsOK(file, operations'), next' \in [operation : Nat, source : Nat],
         next'.source = next.source, UNCHANGED <<file, runtime, rangeSources, tableSources>>
  PROVE  IInv'
  BY DEF IInv

\* A counter that moves on is a counter.
LEMMA NextHandle ==
  ASSUME next \in [operation : Nat, source : Nat]
  PROVE  /\ [next EXCEPT !.operation = @ + 1] \in [operation : Nat, source : Nat]
         /\ [next EXCEPT !.operation = @ + 1].source = next.source
         /\ [next EXCEPT !.source = @ + 1] \in [operation : Nat, source : Nat]
         /\ [next EXCEPT !.source = @ + 1].source = next.source + 1
  OBVIOUS

\* begin_open starts an operation that asks for the first range.
LEMMA BeginOpenStep == IInv /\ BeginOpen => IInv'
  <1> SUFFICES ASSUME IInv, BeginOpen PROVE IInv'
    OBVIOUS
  <1> DEFINE signature == HostRange(0, SignatureBytes)
             ix == NewIndexed(file.length)
             op == [kind |-> "open", phase |-> "detect", fetch |-> None, indexed |-> ix, expected |-> signature]
  <1>1. SignatureBytes \in Nat \ {0} BY PackageAssumption
  <1>2. file \in Files /\ file.length \in Nat BY DocumentIs DEF IInv
  <1>3. StoreOK(ix) /\ Indexed(ix) = {} /\ ix.length = file.length BY <1>2, NewStore
  <1>4. signature \in HostRanges BY <1>1, RangeIs
  <1>5. signature \in Missing(ix)
    <2>1. /\ signature.offset \in Nat
          /\ \A p : p \in Positions(signature) <=> p \in Int /\ signature.offset <= p /\ p < RangeEnd(signature)
          /\ RangeEnd(signature) = signature.offset + signature.length /\ signature.length > 0 /\ signature.length \in Nat
      BY <1>4, PositionsAre
    <2> HIDE DEF signature, ix
    <2>2. signature.offset \in Positions(signature) BY <2>1
    <2>3. QED BY <1>3, <1>4, <2>2 DEF Missing
  <1>6. op.kind = "open" /\ OpenOK(file, op)
    <2> HIDE DEF signature, ix
    <2>1. PhaseOK(file, "detect", None) BY DEF PhaseOK
    <2>2. QED BY <1>3, <1>5, <2>1 DEF OpenOK
  <1>7. OperationOK(file, op)
    <2> HIDE DEF op
    <2>1. QED BY <1>6 DEF OperationOK
  <1>8. OpsOK(file, operations) BY DEF IInv
  <1>9. OpsOK(file, With(operations, next.operation, op))
    <2> HIDE DEF op
    <2>1. QED BY <1>7, <1>8, OpsWith
  <1>10. operations' = operations \/ operations' = With(operations, next.operation, op)
    BY DEF BeginOpen
  <1>11. next' = next \/ next' = [next EXCEPT !.operation = @ + 1]
    BY DEF BeginOpen
  <1>12. UNCHANGED <<file, runtime, rangeSources, tableSources>> BY DEF BeginOpen
  <1> HIDE DEF op
  <1>13. OpsOK(file, operations') BY <1>8, <1>9, <1>10
  <1>14. next \in [operation : Nat, source : Nat] BY DEF IInv
  <1>15. next' \in [operation : Nat, source : Nat] /\ next'.source = next.source
    BY <1>11, <1>14, NextHandle
  <1>16. QED BY <1>12, <1>13, <1>15, SameBooks

\* An answer that is refused changes only the operation it was for.
LEMMA Refuses ==
  ASSUME IInv, NEW o \in DOMAIN operations, NEW error, RefuseResult(o, error)
  PROVE  IInv'
  <1> DEFINE op == [operations[o] EXCEPT !.expected = None]
  <1>1. OpsOK(file, operations) BY DEF IInv
  <1>2. OperationOK(file, operations[o]) BY <1>1 DEF OpsOK
  <1>3. OperationOK(file, op) BY <1>2, RefusedOperation
  <1>4. operations' = [operations EXCEPT ![o] = op] BY DEF RefuseResult
  <1> HIDE DEF op
  <1>5. OpsOK(file, operations') BY <1>1, <1>3, <1>4, OpsWith
  <1>6. next' = next /\ UNCHANGED <<file, runtime, rangeSources, tableSources>> BY DEF RefuseResult
  <1>7. next \in [operation : Nat, source : Nat] BY DEF IInv
  <1>8. QED BY <1>5, <1>6, <1>7, SameBooks

\* Listing a legacy workbook takes a handle of the registry and gives it up.
LEMMA RuntimeAfterIs ==
  ASSUME NEW S, NEW T, BooksOK(runtime, S, T), NEW step
  PROVE  BooksOK(RuntimeAfter(step), S, T)
  <1> DEFINE a == [runtime EXCEPT !.next = @ + 1]
  <1>1. RegistryOK(runtime) /\ runtime.retained <= MemoryBudget /\ Linked(runtime, S, T)
    BY DEF BooksOK
  <1>2. RegistryOK(a) /\ a.retained = runtime.retained /\ a.sources = runtime.sources /\ a.tables = runtime.tables
    BY <1>1, NextIs
  <1>3. RuntimeAfter(step) = a \/ RuntimeAfter(step) = runtime BY Zenon DEF RuntimeAfter
  <1> HIDE DEF a
  <1>4. BooksOK(a, S, T) BY <1>1, <1>2 DEF BooksOK, Linked
  <1>5. QED BY <1>3, <1>4

\* What a lawful step of an open does to the books.
LEMMA Settles ==
  ASSUME IInv, NEW o \in DOMAIN operations, OpenOK(file, operations[o]), operations[o].kind = "open",
         NEW ix, StoreOK(ix), ix.length = file.length, NEW step, StepOK(file, ix, step),
         SettleOpen(o, ix, step)
  PROVE  IInv'
  <1> DEFINE op == [operations[o] EXCEPT !.indexed = ix, !.phase = step.phase, !.fetch = step.fetch, !.expected = step.range]
             more == [operations EXCEPT ![o] = op]
             less == Without(operations, {o})
             s == [indexed |-> ix, kind |-> step.kind, index |-> step.index, entries |-> step.entries,
                   tables |-> step.tables, compact |-> step.compact, inner |-> {}]
             S == With(rangeSources, next.source, s)
             n == [next EXCEPT !.source = @ + 1]
  <1>1. /\ file \in Files /\ next \in [operation : Nat, source : Nat]
        /\ OpsOK(file, operations) /\ SourcesOK(file, rangeSources, next.source)
        /\ BooksOK(runtime, rangeSources, tableSources)
    BY DEF IInv
  <1>2. file' = file /\ tableSources' = tableSources /\ runtime' = RuntimeAfter(step)
    BY DEF SettleOpen
  <1>3. \/ step.end = "more" /\ operations' = more /\ rangeSources' = rangeSources /\ next' = next
        \/ step.end = "ok" /\ operations' = less /\ rangeSources' = S /\ next' = n
        \/ operations' = less /\ rangeSources' = rangeSources /\ next' = next
    BY DEF SettleOpen, EndOperation
  <1>4. OpsOK(file, less) BY <1>1, OpsWithout
  <1>5. BooksOK(RuntimeAfter(step), rangeSources, tableSources) BY <1>1, RuntimeAfterIs
  <1>6. CASE step.end = "more" /\ operations' = more /\ rangeSources' = rangeSources /\ next' = next
    <2>1. step.range \in Missing(ix) /\ PhaseOK(file, step.phase, step.fetch) BY <1>6 DEF StepOK
    <2>2. OperationOK(file, op) BY <2>1, OpenWaits
    <2> HIDE DEF op
    <2>3. OpsOK(file, more) BY <1>1, <2>2, OpsWith
    <2> HIDE DEF more
    <2>4. QED BY <1>1, <1>2, <1>5, <1>6, <2>3 DEF IInv
  <1>7. CASE operations' = less /\ rangeSources' = rangeSources /\ next' = next
    <2> HIDE DEF less
    <2>1. QED BY <1>1, <1>2, <1>4, <1>5, <1>7 DEF IInv
  <1>8. CASE step.end = "ok" /\ operations' = less /\ rangeSources' = S /\ next' = n
    <2>1. SourceOK(file, step) BY <1>8 DEF StepOK
    <2>2. /\ s.indexed = ix /\ s.kind = step.kind /\ s.index = step.index /\ s.entries = step.entries
          /\ s.tables = step.tables /\ s.compact = step.compact /\ s.inner = {}
      OBVIOUS
    <2>3. s = [indexed |-> s.indexed, kind |-> s.kind, index |-> s.index, entries |-> s.entries,
               tables |-> s.tables, compact |-> s.compact, inner |-> s.inner]
      OBVIOUS
    <2> HIDE DEF s
    <2>4. SourceOK(file, s) BY <2>1, <2>2 DEF SourceOK
    <2>5. RangeSourceOK(file, s) BY <2>2, <2>3, <2>4 DEF RangeSourceOK
    <2>6. n \in [operation : Nat, source : Nat] /\ n.source = next.source + 1 BY <1>1, NextHandle
    <2>7. /\ DOMAIN S = DOMAIN rangeSources \cup {next.source} /\ S[next.source] = s
          /\ \A k \in DOMAIN rangeSources : k # next.source => S[k] = rangeSources[k]
      BY DEF With
    <2> HIDE DEF S, n
    <2>8. next.source \in Nat BY <1>1
    <2>9. \A k \in DOMAIN rangeSources : k \in Nat /\ k < next.source /\ RangeSourceOK(file, rangeSources[k])
      BY <1>1 DEF SourcesOK
    <2>10. next.source \notin DOMAIN rangeSources BY <2>8, <2>9
    <2>11. SourcesOK(file, S, n.source)
      <3> SUFFICES ASSUME NEW k \in DOMAIN S PROVE k \in Nat /\ k < n.source /\ RangeSourceOK(file, S[k])
        BY DEF SourcesOK
      <3>1. CASE k = next.source BY <2>5, <2>6, <2>7, <2>8, <3>1
      <3>2. CASE k \in DOMAIN rangeSources /\ k # next.source BY <2>6, <2>7, <2>8, <2>9, <3>2
      <3>3. QED BY <2>7, <3>1, <3>2
    <2>12. Linked(RuntimeAfter(step), S, tableSources)
      <3>1. Linked(RuntimeAfter(step), rangeSources, tableSources) BY <1>5 DEF BooksOK
      <3>2. \A t \in DOMAIN tableSources : tableSources[t].source # next.source
        BY <2>10, <3>1 DEF Linked
      <3>3. InnerOf(tableSources, next.source) = {} BY <3>2 DEF InnerOf
      <3>4. QED BY <2>2, <2>7, <2>10, <3>1, <3>3 DEF Linked
    <2>13. BooksOK(RuntimeAfter(step), S, tableSources) BY <1>5, <2>12 DEF BooksOK
    <2> HIDE DEF less
    <2>14. QED BY <1>1, <1>2, <1>4, <1>8, <2>6, <2>11, <2>13 DEF IInv
  <1> HIDE DEF op, more, less, s, S, n
  <1>9. QED BY <1>3, <1>6, <1>7, <1>8

\* continue of an open: the answer is inserted and the open makes its next step.
LEMMA ContinueOpenStep ==
  ASSUME IInv, NEW o \in DOMAIN operations, ContinueOpen(o)
  PROVE  IInv'
  <1> DEFINE op == operations[o]
             fed == Insert(op.indexed, op.expected, HostBytes(op.expected))
  <1>1. op.kind = "open" /\ op.expected # None BY DEF ContinueOpen
  <1>2. OperationOK(file, op) BY DEF IInv, OpsOK
  <1>3. OpenOK(file, op) BY <1>1, <1>2 DEF OperationOK
  <1>4. StoreOK(op.indexed) /\ op.indexed.length = file.length /\ op.expected \in Missing(op.indexed)
        /\ PhaseOK(file, op.phase, op.fetch)
    BY <1>1, <1>3 DEF OpenOK
  <1>5. op.expected \in HostRanges BY <1>4 DEF Missing
  <1>6. StoreOK(fed.indexed) /\ fed.indexed.length = file.length BY <1>4, <1>5, InsertKeeps
  <1>7. file \in Files BY DEF IInv
  <1>8. \/ RefuseResult(o, fed.error)
        \/ SettleOpen(o, fed.indexed, OpenStep(op, fed.indexed))
    BY DEF ContinueOpen
  <1> HIDE DEF op, fed
  <1>9. StepOK(file, fed.indexed, OpenStep(op, fed.indexed)) BY <1>4, <1>6, <1>7, OpenStepIs
  <1>10. CASE RefuseResult(o, fed.error) BY <1>10, Refuses
  <1>11. CASE SettleOpen(o, fed.indexed, OpenStep(op, fed.indexed))
    <2> DEFINE ix == fed.indexed
               step == OpenStep(op, fed.indexed)
    <2>1. StoreOK(ix) /\ ix.length = file.length /\ StepOK(file, ix, step) /\ SettleOpen(o, ix, step)
      BY <1>6, <1>9, <1>11
    <2>2. OpenOK(file, operations[o]) /\ operations[o].kind = "open" BY <1>1, <1>3 DEF op
    <2> HIDE DEF ix, step
    <2>3. QED BY <2>1, <2>2, Settles
  <1>12. QED BY <1>8, <1>10, <1>11

-----------------------------------------------------------------------------
(* Worksheet opens. *)
Rests == /\ file' = file /\ OpsOK(file, operations')
        /\ SourcesOK(file, rangeSources', next.source)
        /\ BooksOK(runtime', rangeSources', tableSources')

\* A step that keeps the parts of the invariant keeps the invariant.
LEMMA RestsIs ==
  ASSUME IInv, Rests, next' \in [operation : Nat, source : Nat], next'.source = next.source
  PROVE  IInv'
  BY DEF IInv, Rests

\* A worksheet adopted: a workbook and a table of the registry, or neither.
LEMMA Adopts ==
  ASSUME file \in Files, NEW S, SourcesOK(file, S, next.source), NEW s \in DOMAIN S, NEW id,
         BooksOK(runtime, S, tableSources), NEW compact, CompactOK(file, compact),
         OpenCompact(S, s, id, compact)
  PROVE  SourcesOK(file, rangeSources', next.source) /\ BooksOK(runtime', rangeSources', tableSources')
  <1> DEFINE opened == OpenSource(file, runtime, compact)
             table == OpenTable(opened.runtime, opened.handle, id)
             T == tableSources
             S2 == [S EXCEPT ![s].inner = @ \cup {opened.handle}]
             T2 == With(T, table.handle, [source |-> s, inner |-> opened.handle])
  <1>1. RegistryOK(runtime) /\ runtime.retained <= MemoryBudget /\ Linked(runtime, S, T)
    BY DEF BooksOK
  <1>2. AdoptSheet(S, s, id, opened) BY DEF OpenCompact
  <1>3. \/ opened.error # "ok" /\ runtime' = runtime /\ rangeSources' = S /\ T' = T
        \/ /\ opened.error = "ok" /\ table.error # "ok"
           /\ runtime' = CloseSourceOf(opened.runtime, opened.handle) /\ rangeSources' = S /\ T' = T
        \/ /\ opened.error = "ok" /\ table.error = "ok"
           /\ runtime' = table.runtime /\ rangeSources' = S2 /\ T' = T2
    BY <1>2, Zenon DEF AdoptSheet
  <1>4. \/ /\ opened.error = "ok" /\ opened.handle = runtime.next
           /\ \E book : BookOK(book) /\ ~(book.reserved > Available(runtime)) /\ opened.runtime = AddBook(runtime, book)
        \/ opened.error \in Failures
    BY OpenSourceIs
  <1> HIDE DEF opened
  <1>5. CASE opened.error # "ok" /\ runtime' = runtime /\ rangeSources' = S /\ T' = T BY <1>5
  <1>6. CASE opened.error = "ok"
    <2>1. PICK book : BookOK(book) /\ ~(book.reserved > Available(runtime)) /\ opened.runtime = AddBook(runtime, book)
      BY <1>4, <1>6, FailuresStop
    <2>2. opened.handle = runtime.next BY <1>4, <1>6, FailuresStop
    <2> DEFINE a == AddBook(runtime, book)
    <2>3. /\ RegistryOK(a) /\ a.retained = runtime.retained + book.reserved
          /\ DOMAIN a.sources = DOMAIN runtime.sources \cup {runtime.next}
      BY <1>1, <2>1, AddBookIs
    <2> HIDE DEF a
    <2>4. runtime.retained \in Nat /\ a.retained \in Nat BY <1>1, <2>3, InRegistry
    <2>5. MemoryBudget \in Nat BY RuntimeAssumption
    <2>6. a.retained <= MemoryBudget
      <3>1. book.reserved \in Nat BY <2>1 DEF BookOK
      <3>2. ~(book.reserved > MemoryBudget - runtime.retained) BY <2>1 DEF Available
      <3>3. QED BY <2>3, <2>4, <2>5, <3>1, <3>2
    <2>7. runtime.next \in DOMAIN a.sources /\ BookOK(a.sources[runtime.next])
      <3>1. runtime.next \in DOMAIN a.sources BY <2>3
      <3>2. QED BY <2>3, <3>1, InRegistry
    <2>8. CASE table.error # "ok" /\ runtime' = CloseSourceOf(opened.runtime, opened.handle) /\ rangeSources' = S /\ T' = T
      <3> DEFINE q == CloseSourceOf(a, runtime.next)
      <3>1. RegistryOK(q) /\ Linked(q, S, T) /\ q.retained <= a.retained
        BY <1>1, <2>1, LinkFail DEF a
      <3>2. runtime' = q BY <2>1, <2>2, <2>8 DEF a
      <3> HIDE DEF q
      <3>3. q.retained \in Nat BY <3>1, InRegistry
      <3>4. q.retained <= MemoryBudget BY <2>4, <2>5, <2>6, <3>1, <3>3
      <3>5. BooksOK(q, S, T) BY <3>1, <3>4 DEF BooksOK
      <3>6. QED BY <2>8, <3>2, <3>5
    <2>9. CASE table.error = "ok" /\ runtime' = table.runtime /\ rangeSources' = S2 /\ T' = T2
      <3>1. Available(a) \in Int BY <2>4, <2>5 DEF Available
      <3>2. table = OpenTable(a, runtime.next, id) BY <2>1, <2>2 DEF a
      <3> DEFINE t == OpenTable(a, runtime.next, id)
      <3>3. \/ /\ t.error = "ok" /\ t.handle = a.next
               /\ \E x : /\ x.source = runtime.next /\ x.reserved \in Nat /\ x.reserved <= Available(a)
                         /\ t.runtime = AddTable(a, x)
            \/ t.error \in Failures
        BY <2>7, <3>1, OpenTableIs
      <3>4. table = t BY <3>2
      <3> HIDE DEF t, table
      <3>5. PICK x : /\ x.source = runtime.next /\ x.reserved \in Nat /\ x.reserved <= Available(a)
                     /\ t.runtime = AddTable(a, x)
        BY <2>9, <3>3, <3>4, FailuresStop
      <3>6. t.handle = a.next BY <2>9, <3>3, <3>4, FailuresStop
      <3> DEFINE e == [source |-> s, inner |-> runtime.next]
                 b == AddTable(a, x)
      <3>7. T2 = With(T, a.next, e) BY <2>2, <3>4, <3>6
      <3> DEFINE I == S[s].inner \cup {runtime.next}
                 S3 == [S EXCEPT ![s].inner = I]
      <3>8. S2 = S3 BY <2>2
      <3> HIDE DEF S2, I
      <3>9. /\ SourcesOK(file, S3, next.source) /\ DOMAIN S3 = DOMAIN S /\ S3[s].inner = I
            /\ \A k \in DOMAIN S : k # s => S3[k].inner = S[k].inner
        BY OwnsMore
      <3> HIDE DEF S3
      <3>10. S3[s].inner = S[s].inner \cup {runtime.next} BY <3>9 DEF I
      <3>11. /\ RegistryOK(AddTable(AddBook(runtime, book), x))
             /\ Linked(AddTable(AddBook(runtime, book), x), S3,
                       With(T, AddBook(runtime, book).next, [source |-> s, inner |-> runtime.next]))
        BY <1>1, <2>1, <3>5, <3>9, <3>10, LinkOpen
      <3>12. RegistryOK(b) /\ Linked(b, S3, T2) BY <3>7, <3>11 DEF a
      <3>13. b.retained = a.retained + x.reserved BY <2>3, <3>5, AddTableIs
      <3>14. x.reserved \in Nat /\ x.reserved <= MemoryBudget - a.retained BY <3>5 DEF Available
      <3> HIDE DEF b, T2
      <3>15. b.retained <= MemoryBudget BY <2>4, <2>5, <3>13, <3>14
      <3>16. BooksOK(b, S3, T2) BY <3>12, <3>15 DEF BooksOK
      <3>17. runtime' = b BY <2>9, <3>4, <3>5 DEF b
      <3>18. QED BY <2>9, <3>8, <3>9, <3>16, <3>17
    <2> HIDE DEF table, S2, T2
    <2>10. QED BY <1>3, <1>6, <2>8, <2>9
  <1> HIDE DEF table, S2, T2
  <1>7. QED BY <1>3, <1>5, <1>6

\* The package of the entries that were fetched.
LEMMA PackageIs ==
  ASSUME NEW entries \in Seq(Entries), NEW sheets, sheets \in Seq(Range(sheets)), NEW selected
  PROVE  PackageOK(CompactPackage(entries, sheets, selected))
  <1> DEFINE E == Range(sheets)
             set == {sheet \in Range(sheets) : sheet.path # selected}
             others == Keep(sheets, set)
             empty == [k \in 1 .. PlaceholderBytes |-> Zero]
             n == Len(others)
             part(k) == [name |-> others[k].path, bytes |-> empty]
             rest == [k \in 1 .. n |-> part(k)]
             P == {[name |-> others[k].path, bytes |-> empty] : k \in 1 .. n}
             R == Entries \cup P
  <1>1. empty \in Seq(Int)
    <2>1. PlaceholderBytes \in Nat BY PackageAssumption
    <2>2. Zero \in Int BY DEF Zero
    <2>3. QED BY <2>1, <2>2
  <1>2. n \in Nat
    <2> HIDE DEF set
    <2>1. others \in Seq(E \cap set)
      <3> HIDE DEF E
      <3>1. sheets \in Seq(E) BY DEF E
      <3>2. QED BY <3>1, KeepIs
    <2> HIDE DEF others
    <2>2. QED BY <2>1
  <1>3. CompactPackage(entries, sheets, selected) = entries \o rest BY DEF CompactPackage
  <1> HIDE DEF others, empty, n
  <1>4. rest \in Seq(R) BY <1>2
  <1>5. entries \in Seq(R)
    <2> HIDE DEF P
    <2>1. entries \in Seq(Entries) /\ Entries \subseteq R OBVIOUS
    <2> HIDE DEF R
    <2>2. QED BY <2>1
  <1> HIDE DEF rest
  <1>6. entries \o rest \in Seq(R) BY <1>4, <1>5
  <1>7. \A e \in R : e.bytes \in Seq(Int) BY <1>1 DEF Entries
  <1> HIDE DEF R
  <1> DEFINE q == entries \o rest
  <1> HIDE DEF q
  <1>8. q \in Seq(R) BY <1>6 DEF q
  <1>9. Len(q) \in Nat /\ \A k \in 1 .. Len(q) : q[k] \in R BY <1>8
  <1>10. PackageOK(q) BY <1>7, <1>9 DEF PackageOK
  <1>11. QED BY <1>3, <1>10 DEF q

\* The paths a worksheet needs are parts of the package.
LEMMA RequiredAre ==
  ASSUME NEW f, f.paths \in Seq(Paths), NEW index, NEW path
  PROVE  RequiredPaths(f, index, path) \in Seq(PartPaths)
  <1> DEFINE set == {Types, Workbook, RelationshipsPath(Workbook), path} \cup (Optional \cap DOMAIN index)
  <1>1. RequiredPaths(f, index, path) = Keep(f.paths, set) BY DEF RequiredPaths
  <1> HIDE DEF set
  <1> DEFINE s == f.paths
             k == Keep(s, set)
  <1>2. s \in Seq(Paths) OBVIOUS
  <1> HIDE DEF s
  <1>3. k \in Seq(Paths \cap set) BY <1>2, KeepIs
  <1> HIDE DEF k
  <1>4. Paths \cap set \subseteq PartPaths BY DEF PartPaths
  <1>5. k \in Seq(PartPaths)
    <2> DEFINE A == Paths \cap set
    <2>1. k \in Seq(A) /\ A \subseteq PartPaths BY <1>3, <1>4
    <2> HIDE DEF A
    <2>2. QED BY <2>1
  <1>6. QED BY <1>1, <1>5 DEF k, s

\* A worksheet open waits, opens, or ends.
LEMMA SettlesTable ==
  ASSUME IInv, NEW o, NEW op, TableOpenOK(file, op), op.kind = "table",
         NEW S, SourcesOK(file, S, next.source), SameInner(rangeSources, S), op.source \in DOMAIN S,
         file' = file, SettleTable(o, op, S, AdvanceFetch(file, S[op.source].indexed, S[op.source].index, op.fetch))
  PROVE  Rests
  <1> DEFINE source == S[op.source]
             got == AdvanceFetch(file, source.indexed, source.index, op.fetch)
             waits == [op EXCEPT !.fetch = got.fetch, !.expected = got.value]
             compact == CompactPackage(got.fetch.entries, source.tables, TableOf(source, op.table).path)
  <1>1. file \in Files /\ OpsOK(file, operations) /\ BooksOK(runtime, rangeSources, tableSources)
    BY DEF IInv
  <1>2. BooksOK(runtime, S, tableSources) BY <1>1, LinkSame DEF BooksOK
  <1>3. file.kind = "xlsx" /\ op.fetch \in Fetches BY DEF TableOpenOK
  <1>4. RangeSourceOK(file, source) BY DEF SourcesOK
  <1>5. StoreOK(source.indexed) /\ SourceOK(file, source) BY <1>4 DEF RangeSourceOK
  <1>6. IsIndex(source.index) /\ source.tables \in Seq(Range(source.tables))
    BY <1>3, <1>5 DEF SourceOK
  <1>7. IsPackage(file) BY <1>1, <1>3, DocumentIs
  <1>8. SettleTable(o, op, S, got) OBVIOUS
  <1>9. /\ got.fetch \in Fetches
        /\ got.error = "more" => got.value \in Missing(source.indexed)
    <2> HIDE DEF source
    <2>1. QED BY <1>3, <1>5, <1>6, <1>7, AdvanceIs
  <1>10. \/ /\ got.error = "more" /\ operations' = With(operations, o, waits) /\ rangeSources' = S
            /\ runtime' = runtime /\ tableSources' = tableSources
         \/ /\ operations' = Without(operations, {o}) /\ rangeSources' = S
            /\ runtime' = runtime /\ tableSources' = tableSources
         \/ operations' = Without(operations, {o}) /\ OpenCompact(S, op.source, op.table, compact)
    <2> HIDE DEF got
    <2>1. QED BY <1>8 DEF SettleTable
  <1>11. CompactOK(file, compact)
    <2> DEFINE entries == got.fetch.entries
               sheets == source.tables
               selected == TableOf(source, op.table).path
    <2>1. entries \in Seq(Entries) BY <1>9 DEF Fetches
    <2>2. sheets \in Seq(Range(sheets)) BY <1>6
    <2> HIDE DEF entries, sheets, selected
    <2>3. PackageOK(CompactPackage(entries, sheets, selected)) BY <2>1, <2>2, PackageIs
    <2>4. QED BY <1>3, <2>3 DEF CompactOK, entries, sheets, selected
  <1>12. OpsOK(file, Without(operations, {o})) BY <1>1, OpsWithout
  <1> HIDE DEF compact, source
  <1>13. CASE /\ got.error = "more" /\ operations' = With(operations, o, waits) /\ rangeSources' = S
              /\ runtime' = runtime /\ tableSources' = tableSources
    <2> HIDE DEF got
    <2>1. got.value \in HostRanges BY <1>9, <1>13 DEF Missing
    <2>2. OperationOK(file, waits) BY <1>9, <2>1, TableWaits
    <2> HIDE DEF waits
    <2>3. OpsOK(file, With(operations, o, waits)) BY <1>1, <2>2, OpsWith
    <2>4. QED BY <1>2, <1>13, <2>3 DEF Rests
  <1> HIDE DEF got, waits
  <1>14. CASE /\ operations' = Without(operations, {o}) /\ rangeSources' = S
              /\ runtime' = runtime /\ tableSources' = tableSources
    BY <1>2, <1>12, <1>14 DEF Rests
  <1>15. CASE operations' = Without(operations, {o}) /\ OpenCompact(S, op.source, op.table, compact)
    <2>1. SourcesOK(file, rangeSources', next.source) /\ BooksOK(runtime', rangeSources', tableSources')
      BY <1>1, <1>2, <1>11, <1>15, Adopts
    <2>2. QED BY <1>12, <1>15, <2>1 DEF Rests
  <1>16. QED BY <1>10, <1>13, <1>14, <1>15

\* begin_open_table starts from the ranges the source already has.
LEMMA BeginTableStep ==
  ASSUME IInv, NEW s \in DOMAIN rangeSources, NEW id, BeginOpenTable(s, id)
  PROVE  IInv'
  <1> DEFINE source == rangeSources[s]
             path == TableOf(source, id).path
             fetch == NewFetch(RequiredPaths(file, source.index, path), source.entries)
             op == [kind |-> "table", source |-> s, table |-> id, expected |-> None, fetch |-> fetch]
  <1>1. /\ file \in Files /\ next \in [operation : Nat, source : Nat] /\ OpsOK(file, operations)
        /\ SourcesOK(file, rangeSources, next.source) /\ BooksOK(runtime, rangeSources, tableSources)
    BY DEF IInv
  <1>2. RangeSourceOK(file, source) BY <1>1 DEF SourcesOK
  <1>3. SourceOK(file, source) BY <1>2 DEF RangeSourceOK
  <1>4. file' = file /\ next' = [next EXCEPT !.operation = @ + 1] BY DEF BeginOpenTable
  <1>5. next' \in [operation : Nat, source : Nat] /\ next'.source = next.source
    BY <1>1, <1>4, NextHandle
  <1>6. \/ source.kind = "xls" /\ OpenCompact(rangeSources, s, id, source.compact) /\ operations' = operations
        \/ source.kind # "xls" /\ AdvanceTable(next.operation, op, rangeSources)
    BY DEF BeginOpenTable
  <1>7. CASE source.kind = "xls" /\ OpenCompact(rangeSources, s, id, source.compact) /\ operations' = operations
    <2>1. CompactOK(file, source.compact) BY <1>3, <1>7 DEF SourceOK, CompactOK
    <2> HIDE DEF source
    <2>2. SourcesOK(file, rangeSources', next.source) /\ BooksOK(runtime', rangeSources', tableSources')
      BY <1>1, <1>7, <2>1, Adopts
    <2>3. Rests BY <1>1, <1>4, <1>7, <2>2 DEF Rests
    <2>4. QED BY <1>5, <2>3, RestsIs
  <1>8. CASE source.kind # "xls" /\ AdvanceTable(next.operation, op, rangeSources)
    <2>1. source.kind = "xlsx" /\ file.kind = "xlsx" /\ source.entries \in Seq(Entries)
      BY <1>3, <1>8 DEF SourceOK
    <2>2. file.paths \in Seq(Paths) BY <1>1, <2>1, DocumentIs DEF IsPackage
    <2>3. fetch \in Fetches
      <3> DEFINE index == source.index
      <3> HIDE DEF path, index
      <3>1. RequiredPaths(file, index, path) \in Seq(PartPaths) BY <2>2, RequiredAre
      <3>2. QED BY <2>1, <3>1 DEF NewFetch, Fetches, index
    <2> HIDE DEF fetch
    <2>4. op.kind = "table" /\ op.source = s /\ TableOpenOK(file, op) BY <2>1, <2>3 DEF TableOpenOK
    <2>5. SameInner(rangeSources, rangeSources) BY DEF SameInner
    <2> HIDE DEF op, source
    <2>6. SettleTable(next.operation, op, rangeSources,
            AdvanceFetch(file, rangeSources[op.source].indexed, rangeSources[op.source].index, op.fetch))
      BY <1>8 DEF AdvanceTable
    <2>7. Rests BY <1>1, <1>4, <2>4, <2>5, <2>6, SettlesTable
    <2>8. QED BY <1>5, <2>7, RestsIs
  <1>9. QED BY <1>6, <1>7, <1>8

\* continue of a worksheet open: the answer goes to the ranges of its source.
LEMMA ContinueTableStep ==
  ASSUME IInv, NEW o \in DOMAIN operations, ContinueTable(o)
  PROVE  IInv'
  <1> DEFINE op == operations[o]
             ix == rangeSources[op.source].indexed
             fed == Insert(ix, op.expected, HostBytes(op.expected))
             S == [rangeSources EXCEPT ![op.source].indexed = fed.indexed]
  <1>1. op.kind = "table" /\ op.expected # None BY DEF ContinueTable
  <1>2. \/ RefuseResult(o, "closed")
        \/ RefuseResult(o, fed.error)
        \/ op.source \in DOMAIN rangeSources /\ AdvanceTable(o, op, S) /\ UNCHANGED <<file, next>>
    BY DEF ContinueTable
  <1>3. CASE RefuseResult(o, "closed") BY <1>3, Refuses
  <1>4. CASE RefuseResult(o, fed.error)
    <2> HIDE DEF fed
    <2>1. QED BY <1>4, Refuses
  <1>5. CASE op.source \in DOMAIN rangeSources /\ AdvanceTable(o, op, S) /\ UNCHANGED <<file, next>>
    <2>1. OperationOK(file, op) BY DEF IInv, OpsOK
    <2>2. TableOpenOK(file, op) BY <1>1, <2>1 DEF OperationOK
    <2>3. op.expected \in HostRanges BY <1>1, <2>2 DEF TableOpenOK
    <2>4. SourcesOK(file, rangeSources, next.source) /\ next \in [operation : Nat, source : Nat]
      BY DEF IInv
    <2>5. StoreOK(ix) BY <1>5, <2>4 DEF SourcesOK, RangeSourceOK
    <2> HIDE DEF ix
    <2>6. StoreOK(fed.indexed) BY <2>3, <2>5, InsertKeeps
    <2> DEFINE jx == fed.indexed
    <2>7. StoreOK(jx) BY <2>6
    <2>8. S = [rangeSources EXCEPT ![op.source].indexed = jx] OBVIOUS
    <2> HIDE DEF fed, jx, op
    <2>9. /\ SourcesOK(file, [rangeSources EXCEPT ![op.source].indexed = jx], next.source)
          /\ SameInner(rangeSources, [rangeSources EXCEPT ![op.source].indexed = jx])
      BY <1>5, <2>4, <2>7, IndexesMore
    <2>10. SourcesOK(file, S, next.source) /\ SameInner(rangeSources, S) BY <2>8, <2>9
    <2>11. DOMAIN S = DOMAIN rangeSources BY <2>10 DEF SameInner
    <2> HIDE DEF S
    <2>12. SettleTable(o, op, S, AdvanceFetch(file, S[op.source].indexed, S[op.source].index, op.fetch))
      BY <1>5 DEF AdvanceTable
    <2>13. Rests BY <1>1, <1>5, <2>2, <2>10, <2>11, <2>12, SettlesTable
    <2>14. QED BY <1>5, <2>4, <2>13, RestsIs
  <1> HIDE DEF op, fed, S
  <1>6. QED BY <1>2, <1>3, <1>4, <1>5

-----------------------------------------------------------------------------
(* Reads, cancellation and closing. *)
\* begin_read takes a handle and leaves the books alone.
LEMMA BeginReadStep ==
  ASSUME IInv, NEW t, NEW request, BeginRead(t, request)
  PROVE  IInv'
  <1>1. OpsOK(file, operations) /\ next \in [operation : Nat, source : Nat] BY DEF IInv
  <1>2. UNCHANGED <<file, runtime, operations, rangeSources, tableSources>> BY DEF BeginRead
  <1>3. next' = next \/ next' = [next EXCEPT !.operation = @ + 1] BY DEF BeginRead
  <1>4. next' \in [operation : Nat, source : Nat] /\ next'.source = next.source
    BY <1>1, <1>3, NextHandle
  <1>5. OpsOK(file, operations') BY <1>1, <1>2
  <1>6. QED BY <1>2, <1>4, <1>5, SameBooks

\* cancel_operation drops the operation and nothing else.
LEMMA CancelStep ==
  ASSUME IInv, NEW o, CancelOperation(o)
  PROVE  IInv'
  <1>1. OpsOK(file, operations) /\ next \in [operation : Nat, source : Nat] BY DEF IInv
  <1>2. UNCHANGED <<file, runtime, rangeSources, tableSources, next>> BY DEF CancelOperation
  <1>3. operations' = Without(operations, {o}) BY DEF CancelOperation, EndOperation
  <1>4. OpsOK(file, operations') BY <1>1, <1>3, OpsWithout
  <1>5. QED BY <1>1, <1>2, <1>4, SameBooks

\* close_table closes the worksheet and the workbook that was opened for it.
LEMMA CloseTableStep ==
  ASSUME IInv, NEW t \in DOMAIN tableSources, CloseTable(t)
  PROVE  IInv'
  <1> DEFINE T == tableSources
             S == rangeSources
             s == T[t].source
             i == T[t].inner
             I == S[s].inner \ {i}
             S2 == [S EXCEPT ![s].inner = I]
             q == CloseSourceOf(CloseTableOf(runtime, t), i)
  <1>1. /\ next \in [operation : Nat, source : Nat] /\ OpsOK(file, operations)
        /\ SourcesOK(file, S, next.source)
        /\ RegistryOK(runtime) /\ runtime.retained <= MemoryBudget /\ Linked(runtime, S, T)
    BY DEF IInv, BooksOK
  <1>2. s \in DOMAIN S BY <1>1 DEF Linked
  <1>3. runtime' = q /\ T' = Without(T, {t}) /\ UNCHANGED <<file, operations, next>>
    BY DEF CloseTable
  <1>4. rangeSources' = S2 BY DEF CloseTable
  <1>5. /\ SourcesOK(file, S2, next.source) /\ DOMAIN S2 = DOMAIN S /\ S2[s].inner = I
        /\ \A k \in DOMAIN S : k # s => S2[k].inner = S[k].inner
    <2> HIDE DEF I, s
    <2>1. QED BY <1>1, <1>2, OwnsMore
  <1> HIDE DEF S2
  <1>6. RegistryOK(q) /\ Linked(q, S2, Without(T, {t})) /\ q.retained <= runtime.retained
    <2>1. Shed(S2, S, T[t].source, T[t].inner) BY <1>5 DEF Shed
    <2>2. RegistryOK(runtime) /\ Linked(runtime, S, T) /\ t \in DOMAIN T BY <1>1
    <2> HIDE DEF S, T, s, I
    <2>3. QED BY <2>1, <2>2, LinkClose
  <1> HIDE DEF q
  <1>7. q.retained \in Nat /\ runtime.retained \in Nat BY <1>1, <1>6, InRegistry
  <1>8. MemoryBudget \in Nat BY RuntimeAssumption
  <1>9. q.retained <= MemoryBudget BY <1>1, <1>6, <1>7, <1>8
  <1>10. BooksOK(runtime', rangeSources', tableSources') BY <1>3, <1>4, <1>6, <1>9 DEF BooksOK
  <1>11. Rests BY <1>1, <1>3, <1>4, <1>5, <1>10 DEF Rests
  <1>12. QED BY <1>1, <1>3, <1>11, RestsIs

\* close_source closes the source and every worksheet opened from it.
LEMMA CloseSourceStep ==
  ASSUME IInv, NEW s \in DOMAIN rangeSources, CloseSource(s)
  PROVE  IInv'
  <1> DEFINE T == tableSources
             S == rangeSources
             tables == {t \in DOMAIN T : T[t].source = s}
             q == FoldLeft(CloseSourceOf, FoldLeft(CloseTableOf, runtime, SetToSeq(tables)), SetToSeq(S[s].inner))
             S2 == Without(S, {s})
             T2 == Without(T, tables)
  <1>1. /\ next \in [operation : Nat, source : Nat] /\ OpsOK(file, operations)
        /\ SourcesOK(file, S, next.source)
        /\ RegistryOK(runtime) /\ runtime.retained <= MemoryBudget /\ Linked(runtime, S, T)
    BY DEF IInv, BooksOK
  <1>2. runtime' = q /\ rangeSources' = S2 /\ T' = T2 /\ UNCHANGED <<file, operations, next>>
    BY DEF CloseSource
  <1>3. RegistryOK(q) /\ Linked(q, S2, T2) /\ q.retained <= runtime.retained
    BY <1>1, LinkCloseSource
  <1>4. SourcesOK(file, S2, next.source) BY <1>1 DEF SourcesOK, Without
  <1> HIDE DEF q, S2, T2
  <1>5. q.retained \in Nat /\ runtime.retained \in Nat BY <1>1, <1>3, InRegistry
  <1>6. MemoryBudget \in Nat BY RuntimeAssumption
  <1>7. q.retained <= MemoryBudget BY <1>1, <1>3, <1>5, <1>6
  <1>8. BooksOK(runtime', rangeSources', tableSources') BY <1>2, <1>3, <1>7 DEF BooksOK
  <1>9. Rests BY <1>1, <1>2, <1>4, <1>8 DEF Rests
  <1>10. QED BY <1>1, <1>2, <1>9, RestsIs

\* Every step keeps the invariant.
LEMMA StepIs == IInv /\ [Next]_vars => IInv'
  <1> SUFFICES ASSUME IInv, [Next]_vars PROVE IInv'
    OBVIOUS
  <1>1. CASE BeginOpen BY <1>1, BeginOpenStep
  <1>2. ASSUME NEW o \in DOMAIN operations, Continue(o) \/ CancelOperation(o) PROVE IInv'
    BY <1>2, ContinueOpenStep, ContinueTableStep, CancelStep DEF Continue
  <1>3. ASSUME NEW s \in DOMAIN rangeSources, CloseSource(s) PROVE IInv'
    BY <1>3, CloseSourceStep
  <1>4. ASSUME NEW s \in DOMAIN rangeSources, NEW k \in 1 .. Len(rangeSources[s].tables),
               BeginOpenTable(s, rangeSources[s].tables[k].id)
        PROVE  IInv'
    <2> DEFINE id == rangeSources[s].tables[k].id
    <2>1. BeginOpenTable(s, id) BY <1>4
    <2> HIDE DEF id
    <2>2. QED BY <2>1, BeginTableStep
  <1>5. ASSUME NEW t \in DOMAIN tableSources, CloseTable(t) PROVE IInv'
    BY <1>5, CloseTableStep
  <1>6. ASSUME NEW t, NEW request, BeginRead(t, request) PROVE IInv'
    BY <1>6, BeginReadStep
  <1>7. CASE Shutdown BY <1>7, ShutdownStep
  <1>8. CASE UNCHANGED vars BY <1>8 DEF vars, IInv
  <1>9. QED BY <1>1, <1>2, <1>3, <1>4, <1>5, <1>6, <1>7, <1>8, Zenon DEF Next

\* ExcelInv, for any files, budgets, costs and limits: the runtime holds exactly the workbooks and
\* worksheets that the open handles reach, its retained bytes are what those reserve and stay within the
\* memory budget, the ranges of every open and source are sound and disjoint, and an open waits only for
\* bytes it does not have (begin_open, continue, cancel, close_table, close_source and shutdown in any order).
THEOREM Books == Spec => []ExcelInv
  <1>1. Init => IInv BY InitIs
  <1>2. IInv /\ [Next]_vars => IInv' BY StepIs
  <1>3. IInv => ExcelInv BY Implied
  <1>4. QED BY <1>1, <1>2, <1>3, PTL DEF Spec

=============================================================================
