----------------------------- MODULE FoldTheorems -----------------------------
(***************************************************************************)
(* What the folds of the community modules compute, for sets and sequences *)
(* of any size, and what SetToSeq enumerates.  Induction is by the least   *)
(* element of a set of counterexamples, so that every fact is first-order: *)
(* the step of a fold is a function h from an element and the value so far *)
(* to the next value.                                                      *)
(***************************************************************************)
EXTENDS SequencesExt, FiniteSetTheorems, SequenceTheorems, TLAPS

LEMMA Least ==
  ASSUME NEW U \in SUBSET Nat, U # {}
  PROVE  \E m \in U : \A k \in U : m <= k
  <1>1. PICK m \in U : \A k \in U : <<k, m>> \notin OpToRel(<, Nat)
    BY WFMin, NatLessThanWellFounded, Zenon
  <1>2. ASSUME NEW k \in U, k < m PROVE FALSE
    <2>1. k \in Nat /\ m \in Nat OBVIOUS
    <2>2. <<k, m>> \in Nat \X Nat /\ <<k, m>>[1] < <<k, m>>[2] BY <1>2, <2>1
    <2>3. <<k, m>> \in OpToRel(<, Nat) BY <2>2, Zenon DEF OpToRel
    <2>4. QED BY <1>1, <2>3, Zenon
  <1>3. ASSUME NEW k \in U PROVE m <= k
    <2>1. ~(k < m) /\ k \in Nat /\ m \in Nat BY <1>2
    <2>2. QED BY <2>1
  <1>4. QED BY <1>3

\* A set of naturals that holds 0 and every successor is all of them.
LEMMA Induct ==
  ASSUME NEW T \in SUBSET Nat, 0 \in T, \A n \in T : n + 1 \in T
  PROVE  T = Nat
  <1> SUFFICES ASSUME Nat \ T # {} PROVE FALSE OBVIOUS
  <1> DEFINE U == Nat \ T
  <1>1. PICK m \in U : \A k \in U : m <= k BY Least
  <1>2. m \in Nat /\ m \notin T /\ m # 0 OBVIOUS
  <1>3. m - 1 \in Nat /\ ~(m <= m - 1) /\ (m - 1) + 1 = m BY <1>2
  <1>4. m - 1 \notin U BY <1>1, <1>3
  <1>5. QED BY <1>2, <1>3, <1>4

\* A property of the finite sets, up to a size.
LEMMA InductSize ==
  ASSUME NEW S, IsFiniteSet(S), NEW P \in SUBSET SUBSET S,
         \A s \in SUBSET S : (\A t \in SUBSET s : t # s => t \in P) => s \in P
  PROVE  SUBSET S \subseteq P
  <1> DEFINE T == {n \in Nat : \A s \in SUBSET S : Cardinality(s) <= n => s \in P}
  <1>1. \A s \in SUBSET S : IsFiniteSet(s) /\ Cardinality(s) \in Nat
    BY FS_Subset, FS_CardinalityType
  <1>2. \A s \in SUBSET S : \A t \in SUBSET s : t # s => Cardinality(t) < Cardinality(s)
    <2> SUFFICES ASSUME NEW s \in SUBSET S, NEW t \in SUBSET s, t # s
                 PROVE  Cardinality(t) < Cardinality(s)
      OBVIOUS
    <2>1. t \in SUBSET S /\ IsFiniteSet(s) BY <1>1
    <2>2. Cardinality(t) <= Cardinality(s) /\ Cardinality(t) # Cardinality(s)
      BY <2>1, FS_Subset
    <2>3. QED BY <1>1, <2>1, <2>2
  <1>3. 0 \in T
    BY <1>1, <1>2 DEF T
  <1>4. ASSUME NEW n \in T PROVE n + 1 \in T
    <2> SUFFICES ASSUME NEW s \in SUBSET S, Cardinality(s) <= n + 1 PROVE s \in P
      BY DEF T
    <2>1. \A t \in SUBSET s : t # s => t \in SUBSET S /\ Cardinality(t) <= n
      <3> SUFFICES ASSUME NEW t \in SUBSET s, t # s PROVE t \in SUBSET S /\ Cardinality(t) <= n
        OBVIOUS
      <3>1. Cardinality(t) < Cardinality(s) /\ t \in SUBSET S BY <1>2
      <3>2. QED BY <1>1, <3>1
    <2>2. QED BY <2>1
  <1> HIDE DEF T
  <1>5. T = Nat BY <1>3, <1>4, Induct DEF T
  <1>6. QED BY <1>1, <1>5 DEF T

\* A step h of a fold over the parts of S, where c picks the element to go on
\* with, and the function g it iterates.
FoldStep(S, V, base, c, h) ==
    /\ IsFiniteSet(S) /\ base \in V /\ h \in [S \X V -> V]
    /\ \A s \in SUBSET S : s # {} => c[s] \in s

Iterates(g, S, V, base, c, h) ==
    /\ g \in [SUBSET S -> V] /\ g[{}] = base
    /\ \A s \in SUBSET S : s # {} => g[s] = h[<<c[s], g[s \ {c[s]}]>>]

LEMMA SubsetRecursion ==
  ASSUME NEW S, NEW V, NEW base, NEW c, NEW h, FoldStep(S, V, base, c, h)
  PROVE  \E g : Iterates(g, S, V, base, c, h)
  <1> USE DEF FoldStep
  <1> DEFINE Upto(n) == {s \in SUBSET S : Cardinality(s) <= n}
             Solves(g, n) == /\ g \in [Upto(n) -> V]
                             /\ \A s \in Upto(n) :
                                  g[s] = IF s = {} THEN base ELSE h[<<c[s], g[s \ {c[s]}]>>]
             T == {n \in Nat : \E g : Solves(g, n)}
  <1>1. \A s \in SUBSET S : IsFiniteSet(s) /\ Cardinality(s) \in Nat
                            /\ (Cardinality(s) = 0 <=> s = {})
    BY FS_Subset, FS_CardinalityType, FS_EmptySet
  <1>2. \A s \in SUBSET S : s # {} => /\ s \ {c[s]} \in SUBSET S /\ c[s] \in S
                                      /\ Cardinality(s \ {c[s]}) = Cardinality(s) - 1
    BY <1>1, FS_RemoveElement
  <1>3. 0 \in T
    <2> DEFINE g == [s \in Upto(0) |-> base]
    <2>1. \A s \in Upto(0) : s = {} BY <1>1
    <2>2. Solves(g, 0) BY <2>1
    <2>3. QED BY <2>2
  <1>4. ASSUME NEW n \in T PROVE n + 1 \in T
    <2>1. PICK g : Solves(g, n) OBVIOUS
    <2> DEFINE G == [s \in Upto(n + 1) |-> IF s = {} THEN base ELSE h[<<c[s], g[s \ {c[s]}]>>]]
    <2>2. \A s \in Upto(n + 1) : s # {} => s \ {c[s]} \in Upto(n)
      BY <1>1, <1>2
    <2>3. \A s \in Upto(n + 1) : s # {} => g[s \ {c[s]}] \in V
      BY <2>1, <2>2
    <2>4. G \in [Upto(n + 1) -> V]
      BY <1>2, <2>3
    <2>5. Upto(n) \subseteq Upto(n + 1) BY <1>1
    <2>6. \A s \in Upto(n) : G[s] = g[s]
      BY <2>1, <2>5
    <2>7. \A s \in Upto(n + 1) :
             G[s] = IF s = {} THEN base ELSE h[<<c[s], G[s \ {c[s]}]>>]
      BY <2>2, <2>6
    <2>8. Solves(G, n + 1) BY <2>4, <2>7
    <2> HIDE DEF Solves, G
    <2>9. n + 1 \in Nat /\ \E f : Solves(f, n + 1) BY <2>8
    <2>10. QED BY <2>9, Zenon
  <1>T. T \in SUBSET Nat OBVIOUS
  <1> HIDE DEF T
  <1>5. T = Nat BY <1>3, <1>4, <1>T, Induct
  <1>6. PICK g : Solves(g, Cardinality(S))
    <2>1. Cardinality(S) \in T BY <1>1, <1>5
    <2>2. QED BY <2>1 DEF T
  <1>7. Upto(Cardinality(S)) = SUBSET S BY FS_Subset
  <1>8. Iterates(g, S, V, base, c, h) BY <1>6, <1>7 DEF Iterates
  <1>9. QED BY <1>8

-----------------------------------------------------------------------------
(* Sums.  Total(f, S) is FoldSet(LAMBDA x, n : f[x] + n, 0, S).            *)
Pick(s) == CHOOSE x \in s : TRUE

SumOver(f, S) ==
    CHOOSE g : g = [s \in SUBSET S |->
                      IF s = {} THEN 0
                      ELSE f[Pick(s)] + g[s \ {Pick(s)}]]

Total(f, S) == SumOver(f, S)[S]

NatOn(f, S) == IsFiniteSet(S) /\ \A x \in S : f[x] \in Nat

LEMMA SumOverExists ==
  ASSUME NEW f, NEW S, NatOn(f, S)
  PROVE  /\ SumOver(f, S) \in [SUBSET S -> Nat]
         /\ \A s \in SUBSET S :
              SumOver(f, S)[s] = IF s = {} THEN 0
                                 ELSE f[Pick(s)] + SumOver(f, S)[s \ {Pick(s)}]
  <1> DEFINE c == [s \in SUBSET S |-> Pick(s)]
             h == [p \in S \X Nat |-> f[p[1]] + p[2]]
  <1>1. \A s \in SUBSET S : s # {} => c[s] \in s BY DEF Pick
  <1>2. h \in [S \X Nat -> Nat] BY DEF NatOn
  <1>3. \A x \in S, v \in Nat : h[<<x, v>>] = f[x] + v OBVIOUS
  <1>c. \A s \in SUBSET S : c[s] = Pick(s) OBVIOUS
  <1> HIDE DEF c, h
  <1>f. FoldStep(S, Nat, 0, c, h) BY <1>1, <1>2 DEF NatOn, FoldStep
  <1>p. PICK g : Iterates(g, S, Nat, 0, c, h) BY <1>f, SubsetRecursion
  <1>4. /\ g \in [SUBSET S -> Nat] /\ g[{}] = 0
        /\ \A s \in SUBSET S : s # {} => g[s] = h[<<c[s], g[s \ {c[s]}]>>]
    BY <1>p DEF Iterates
  <1>5. \A s \in SUBSET S : s # {} => h[<<c[s], g[s \ {c[s]}]>>] = f[c[s]] + g[s \ {c[s]}]
    BY <1>1, <1>3, <1>4
  <1>6. g = [s \in SUBSET S |-> IF s = {} THEN 0
               ELSE f[Pick(s)] + g[s \ {Pick(s)}]]
    BY <1>4, <1>5, <1>c
  <1>7. SumOver(f, S) = [s \in SUBSET S |-> IF s = {} THEN 0
               ELSE f[Pick(s)] + SumOver(f, S)[s \ {Pick(s)}]]
    BY <1>6, Zenon DEF SumOver
  <1> DEFINE G == SumOver(f, S)
  <1>8. \A s \in SUBSET S : G[s] = IF s = {} THEN 0
               ELSE f[Pick(s)] + G[s \ {Pick(s)}]
    BY <1>7
  <1>d. G = [s \in SUBSET S |-> G[s]]
    BY <1>7
  <1> HIDE DEF G
  <1>9. \A s \in SUBSET S : G[s] \in Nat
    <2> DEFINE P == {s \in SUBSET S : G[s] \in Nat}
    <2>1. ASSUME NEW s \in SUBSET S, \A t \in SUBSET s : t # s => t \in P PROVE s \in P
      <3>1. CASE s = {}
        <4>1. G[s] = 0 BY <1>8, <3>1
        <4>2. QED BY <4>1
      <3>2. CASE s # {}
        <4> DEFINE x == Pick(s)
        <4>1. x \in s /\ s \ {x} \in SUBSET s /\ s \ {x} # s BY <3>2 DEF Pick
        <4>2. G[s] = f[x] + G[s \ {x}] BY <1>8, <3>2
        <4> HIDE DEF x
        <4>3. G[s \ {x}] \in Nat BY <2>1, <4>1
        <4>4. f[x] \in Nat BY <4>1 DEF NatOn
        <4>5. QED BY <4>2, <4>3, <4>4
      <3>3. QED BY <3>1, <3>2
    <2> HIDE DEF P
    <2>2. P \in SUBSET SUBSET S BY DEF P
    <2>3. SUBSET S \subseteq P BY <2>1, <2>2, InductSize DEF NatOn
    <2>4. QED BY <2>3 DEF P
  <1>10. G \in [SUBSET S -> Nat] BY <1>9, <1>d
  <1>11. QED BY <1>8, <1>10 DEF G

\* The sum over a part does not depend on the whole it is computed in.
LEMMA SumOverPart ==
  ASSUME NEW f, NEW S, NatOn(f, S), NEW t \in SUBSET S
  PROVE  NatOn(f, t) /\ SumOver(f, S)[t] = Total(f, t)
  <1>1. NatOn(f, t) BY FS_Subset DEF NatOn
  <1> DEFINE F == SumOver(f, S)
             G == SumOver(f, t)
             P == {u \in SUBSET t : F[u] = G[u]}
  <1>2. \A s \in SUBSET S : F[s] = IF s = {} THEN 0
               ELSE f[Pick(s)] + F[s \ {Pick(s)}]
    BY SumOverExists
  <1>3. \A s \in SUBSET t : G[s] = IF s = {} THEN 0
               ELSE f[Pick(s)] + G[s \ {Pick(s)}]
    BY <1>1, SumOverExists
  <1> HIDE DEF F, G
  <1>4. ASSUME NEW s \in SUBSET t, \A u \in SUBSET s : u # s => u \in P PROVE s \in P
    <2>1. CASE s = {} BY <1>2, <1>3, <2>1
    <2>2. CASE s # {}
      <3> DEFINE x == Pick(s)
      <3>1. x \in s /\ s \ {x} \in SUBSET s /\ s \ {x} # s BY <2>2 DEF Pick
      <3>2. F[s] = f[x] + F[s \ {x}] /\ G[s] = f[x] + G[s \ {x}] BY <1>2, <1>3, <2>2
      <3> HIDE DEF x
      <3>3. F[s \ {x}] = G[s \ {x}] BY <1>4, <3>1
      <3>4. QED BY <3>2, <3>3
    <2>3. QED BY <2>1, <2>2
  <1> HIDE DEF P
  <1>5. P \in SUBSET SUBSET t BY DEF P
  <1>6. SUBSET t \subseteq P BY <1>1, <1>4, <1>5, InductSize DEF NatOn
  <1>7. F[t] = G[t] BY <1>6 DEF P
  <1>8. QED BY <1>1, <1>7 DEF F, G, Total

LEMMA TotalEmpty == ASSUME NEW f PROVE Total(f, {}) = 0
  <1>1. NatOn(f, {}) BY FS_EmptySet DEF NatOn
  <1>2. QED BY <1>1, SumOverExists DEF Total

LEMMA TotalType == ASSUME NEW f, NEW S, NatOn(f, S) PROVE Total(f, S) \in Nat
  <1>1. S \in SUBSET S OBVIOUS
  <1>2. SumOver(f, S) \in [SUBSET S -> Nat] BY SumOverExists
  <1>3. QED BY <1>1, <1>2 DEF Total

\* Whichever element the fold picked first, any one may be taken out.
LEMMA TotalRemove ==
  ASSUME NEW f, NEW S, NatOn(f, S), NEW a \in S
  PROVE  NatOn(f, S \ {a}) /\ Total(f, S) = f[a] + Total(f, S \ {a})
  <1> DEFINE P == {s \in SUBSET S : \A x \in s : Total(f, s) = f[x] + Total(f, s \ {x})}
  <1>1. \A s \in SUBSET S : NatOn(f, s) /\ Total(f, s) \in Nat
    BY SumOverPart, TotalType
  <1>2. ASSUME NEW s \in SUBSET S, \A t \in SUBSET s : t # s => t \in P PROVE s \in P
    <2> SUFFICES ASSUME NEW x \in s PROVE Total(f, s) = f[x] + Total(f, s \ {x})
      OBVIOUS
    <2> DEFINE c == Pick(s)
    <2>1. c \in s BY DEF Pick
    <2>s. s \in SUBSET s /\ s # {} OBVIOUS
    <2>2. SumOver(f, s)[s] = f[c] + SumOver(f, s)[s \ {c}]
      <3>1. NatOn(f, s) BY <1>1
      <3>2. \A u \in SUBSET s : SumOver(f, s)[u] =
               IF u = {} THEN 0 ELSE f[Pick(u)] + SumOver(f, s)[u \ {Pick(u)}]
        BY <3>1, SumOverExists
      <3>3. QED BY <3>2, <2>s
    <2> HIDE DEF c
    <2>3. SumOver(f, s)[s \ {c}] = Total(f, s \ {c}) BY <1>1, SumOverPart
    <2>4. Total(f, s) = f[c] + Total(f, s \ {c}) BY <2>2, <2>3 DEF Total
    <2>5. CASE x = c BY <2>4, <2>5
    <2>6. CASE x # c
      <3>1. x \in s \ {c} /\ c \in s \ {x} BY <2>1, <2>6
      <3>2. s \ {c} \in P /\ s \ {x} \in P BY <1>2, <3>1
      <3>3. Total(f, s \ {c}) = f[x] + Total(f, (s \ {c}) \ {x}) BY <3>1, <3>2
      <3>4. Total(f, s \ {x}) = f[c] + Total(f, (s \ {x}) \ {c}) BY <3>1, <3>2
      <3>5. (s \ {c}) \ {x} = (s \ {x}) \ {c} OBVIOUS
      <3>6. f[x] \in Nat /\ f[c] \in Nat BY <2>1 DEF NatOn
      <3>7. (s \ {x}) \ {c} \in SUBSET S OBVIOUS
      <3>8. Total(f, (s \ {x}) \ {c}) \in Nat BY <1>1, <3>7
      <3>9. Total(f, s) = f[c] + (f[x] + Total(f, (s \ {x}) \ {c})) BY <2>4, <3>3, <3>5
      <3>10. f[x] + Total(f, s \ {x}) = f[x] + (f[c] + Total(f, (s \ {x}) \ {c})) BY <3>4
      <3>11. QED BY <3>6, <3>8, <3>9, <3>10
    <2>7. QED BY <2>5, <2>6
  <1> HIDE DEF P
  <1>3. P \in SUBSET SUBSET S BY DEF P
  <1>4. SUBSET S \subseteq P BY <1>2, <1>3, InductSize DEF NatOn
  <1>5. QED BY <1>1, <1>4 DEF P

LEMMA TotalAdd ==
  ASSUME NEW f, NEW S, NatOn(f, S), NEW a, a \notin S, f[a] \in Nat
  PROVE  NatOn(f, S \cup {a}) /\ Total(f, S \cup {a}) = f[a] + Total(f, S)
  <1>1. NatOn(f, S \cup {a}) BY FS_AddElement DEF NatOn
  <1>2. (S \cup {a}) \ {a} = S OBVIOUS
  <1>3. QED BY <1>1, <1>2, TotalRemove

LEMMA TotalUnion ==
  ASSUME NEW f, NEW S, NatOn(f, S), NEW R, NatOn(f, R), S \cap R = {}
  PROVE  NatOn(f, S \cup R) /\ Total(f, S \cup R) = Total(f, S) + Total(f, R)
  <1> DEFINE P == {t \in SUBSET R : NatOn(f, S \cup t) /\ Total(f, S \cup t) = Total(f, S) + Total(f, t)}
  <1>1. Total(f, S) \in Nat BY TotalType
  <1>2. ASSUME NEW s \in SUBSET R, \A t \in SUBSET s : t # s => t \in P PROVE s \in P
    <2>1. CASE s = {}
      <3>1. S \cup s = S /\ Total(f, s) = 0 BY <2>1, TotalEmpty
      <3>2. Total(f, S \cup s) = Total(f, S) + Total(f, s) BY <1>1, <3>1
      <3>3. NatOn(f, S \cup s) BY <3>1
      <3>4. QED BY <3>2, <3>3
    <2>2. CASE s # {}
      <3>1. PICK x \in s : TRUE BY <2>2
      <3>2. s \ {x} \in P BY <1>2, <3>1
      <3>3. NatOn(f, s) /\ f[x] \in Nat BY <3>1, SumOverPart DEF NatOn
      <3>4. Total(f, s) = f[x] + Total(f, s \ {x}) /\ NatOn(f, s \ {x})
        BY <3>1, <3>3, TotalRemove
      <3>5. x \notin S \cup (s \ {x}) BY <3>1
      <3>6. NatOn(f, S \cup (s \ {x})) /\ Total(f, S \cup (s \ {x})) = Total(f, S) + Total(f, s \ {x})
        BY <3>2
      <3>7. NatOn(f, (S \cup (s \ {x})) \cup {x})
            /\ Total(f, (S \cup (s \ {x})) \cup {x}) = f[x] + Total(f, S \cup (s \ {x}))
        BY <3>3, <3>5, <3>6, TotalAdd
      <3>8. (S \cup (s \ {x})) \cup {x} = S \cup s BY <3>1
      <3>9. Total(f, s \ {x}) \in Nat BY <3>4, TotalType
      <3>10. Total(f, S \cup s) = f[x] + (Total(f, S) + Total(f, s \ {x}))
        BY <3>6, <3>7, <3>8
      <3>12. Total(f, S) + Total(f, s) = Total(f, S) + (f[x] + Total(f, s \ {x})) BY <3>4
      <3>13. Total(f, S \cup s) = Total(f, S) + Total(f, s) BY <1>1, <3>3, <3>9, <3>10, <3>12
      <3>14. NatOn(f, S \cup s) BY <3>7, <3>8
      <3>15. QED BY <3>13, <3>14
    <2>3. QED BY <2>1, <2>2
  <1> HIDE DEF P
  <1>3. P \in SUBSET SUBSET R BY DEF P
  <1>4. SUBSET R \subseteq P BY <1>2, <1>3, InductSize DEF NatOn
  <1>5. QED BY <1>4 DEF P

LEMMA TotalSame ==
  ASSUME NEW f, NEW g, NEW S, NatOn(f, S), \A x \in S : g[x] = f[x]
  PROVE  NatOn(g, S) /\ Total(g, S) = Total(f, S)
  <1> DEFINE P == {s \in SUBSET S : Total(g, s) = Total(f, s)}
  <1>1. \A s \in SUBSET S : NatOn(f, s) /\ NatOn(g, s) BY FS_Subset DEF NatOn
  <1>2. ASSUME NEW s \in SUBSET S, \A t \in SUBSET s : t # s => t \in P PROVE s \in P
    <2>1. CASE s = {} BY <2>1, TotalEmpty
    <2>2. CASE s # {}
      <3>1. PICK x \in s : TRUE BY <2>2
      <3>2. Total(f, s) = f[x] + Total(f, s \ {x}) /\ Total(g, s) = g[x] + Total(g, s \ {x})
        BY <1>1, <3>1, TotalRemove
      <3>3. s \ {x} \in P BY <1>2, <3>1
      <3>4. Total(g, s) = Total(f, s) BY <3>1, <3>2, <3>3
      <3>5. QED BY <3>4
    <2>3. QED BY <2>1, <2>2
  <1>3. P \in SUBSET SUBSET S OBVIOUS
  <1> HIDE DEF P
  <1>4. SUBSET S \subseteq P BY <1>2, <1>3, InductSize DEF NatOn
  <1>5. S \in P BY <1>4
  <1>6. QED BY <1>1, <1>5 DEF P

LEMMA TotalFold == ASSUME NEW f, NEW S PROVE FoldSet(LAMBDA x, n : f[x] + n, 0, S) = Total(f, S)
  BY DEF FoldSet, MapThenFoldSet, Total, SumOver, Pick

-----------------------------------------------------------------------------
(* Sequences.  FoldLeft goes through the parts 1..i of the domain, because *)
(* it takes the largest index first.                                       *)
Largest(n) == [s \in SUBSET (1..n) |-> Max(s)]

LEMMA MaxExists ==
  ASSUME NEW n \in Nat, NEW s \in SUBSET (1..n), s # {}
  PROVE  Max(s) \in s
  <1> DEFINE T == {m \in Nat : \A t \in SUBSET (1..m) : t # {} => \E x \in t : \A y \in t : x >= y}
  <1>1. 0 \in T
    <2>1. 1..0 = {} OBVIOUS
    <2>2. QED BY <2>1
  <1>2. ASSUME NEW m \in T PROVE m + 1 \in T
    <2> SUFFICES ASSUME NEW t \in SUBSET (1..(m + 1)), t # {}
                 PROVE  \E x \in t : \A y \in t : x >= y
      OBVIOUS
    <2>1. CASE m + 1 \in t
      BY <2>1
    <2>2. CASE m + 1 \notin t
      <3>1. t \in SUBSET (1..m) BY <2>2
      <3>2. QED BY <3>1
    <2>3. QED BY <2>1, <2>2
  <1>3. T \in SUBSET Nat OBVIOUS
  <1> HIDE DEF T
  <1>4. T = Nat BY <1>1, <1>2, <1>3, Induct
  <1>5. \E x \in s : \A y \in s : x >= y BY <1>4 DEF T
  <1>6. QED BY <1>5 DEF Max

LEMMA MaxPrefix ==
  ASSUME NEW n \in Nat, NEW i \in 1..n
  PROVE  /\ 1..i \in SUBSET (1..n) /\ 1..i # {}
         /\ Max(1..i) = i /\ (1..i) \ {Max(1..i)} = 1..(i - 1)
  <1>1. 1..i \in SUBSET (1..n) /\ 1..i # {} OBVIOUS
  <1>2. Max(1..i) \in 1..i
    <2>1. i \in Nat /\ 1..i \in SUBSET (1..i) BY <1>1
    <2>2. QED BY <1>1, <2>1, MaxExists
  <1>3. \E x \in 1..i : \A y \in 1..i : x >= y OBVIOUS
  <1>4. \A y \in 1..i : Max(1..i) >= y BY <1>3 DEF Max
  <1>5. Max(1..i) = i BY <1>2, <1>4
  <1>6. QED BY <1>1, <1>5

LEMMA PrefixRecursion ==
  ASSUME NEW n \in Nat, NEW V, NEW base \in V, NEW h \in [(1..n) \X V -> V]
  PROVE  \E g : Iterates(g, 1..n, V, base, Largest(n), h)
  <1>1. \A s \in SUBSET (1..n) : s # {} => Largest(n)[s] \in s BY MaxExists DEF Largest
  <1>2. FoldStep(1..n, V, base, Largest(n), h) BY <1>1, FS_Interval DEF FoldStep
  <1>3. QED BY <1>2, SubsetRecursion

\* A property of every i up to n.
LEMMA InductUpto ==
  ASSUME NEW n \in Nat, NEW T \in SUBSET (0..n), 0 \in T, \A i \in 1..n : i - 1 \in T => i \in T
  PROVE  T = 0..n
  <1> DEFINE U == {i \in Nat : i <= n => i \in T}
  <1>1. 0 \in U OBVIOUS
  <1>2. \A i \in U : i + 1 \in U OBVIOUS
  <1>3. U \in SUBSET Nat OBVIOUS
  <1> HIDE DEF U
  <1>4. U = Nat BY <1>1, <1>2, <1>3, Induct
  <1>5. \A i \in Nat : i <= n => i \in T BY <1>4 DEF U
  <1>6. 0..n \subseteq T BY <1>5
  <1>7. QED BY <1>6, Zenon

\* An enumeration of a finite set is a sequence over every set it is part of.
LEMMA EnumerationIn ==
  ASSUME NEW S, IsFiniteSet(S), NEW T, S \subseteq T
  PROVE  /\ SetToSeq(S) \in Seq(T)
         /\ \A i \in 1..Len(SetToSeq(S)) : SetToSeq(S)[i] \in S
  <1> DEFINE n == Cardinality(S)
             E == {f \in [1..n -> S] : IsInjective(f)}
  <1>1. n \in Nat /\ ExistsBijection(1..n, S) BY FS_CardinalityType
  <1>2. E # {}
    BY <1>1, Zenon DEF ExistsBijection, Bijection, Injection, IsInjective
  <1>3. SetToSeq(S) \in [1..n -> S]
    BY <1>2, Zenon DEF SetToSeq
  <1> HIDE DEF n
  <1>4. QED BY <1>1, <1>3

-----------------------------------------------------------------------------
(* What a fold over a sequence comes to, as a function of the sequence:    *)
(* the step h takes an element and the value so far.                       *)
RunOf(h, base, s) ==
    CHOOSE f : f = [i \in 0..Len(s) |-> IF i = 0 THEN base ELSE h[<<s[i], f[i - 1]>>]]

Run(h, base, s) == RunOf(h, base, s)[Len(s)]

\* A step and a first value.
Stepwise(h, E, V, base) == base \in V /\ h \in [E \X V -> V]

\* A function that follows the steps of a fold, and one there is.
Follows(f, h, base, s) ==
    /\ f[0] = base
    /\ \A i \in 1..Len(s) : f[i] = h[<<s[i], f[i - 1]>>]

AgreeUpto(s, t, n) ==
    /\ n \in Nat /\ Len(s) \in Nat /\ Len(t) \in Nat
    /\ n <= Len(s) /\ n <= Len(t) /\ \A i \in 1..n : s[i] = t[i]

LEMMA FollowsOnce ==
  ASSUME NEW h, NEW base, NEW s, NEW t, NEW n, AgreeUpto(s, t, n),
         NEW f, Follows(f, h, base, s), NEW g, Follows(g, h, base, t)
  PROVE  f[n] = g[n]
  <1> USE DEF AgreeUpto
  <1> DEFINE T == {i \in 0..n : f[i] = g[i]}
  <1>1. 0 \in T BY DEF Follows
  <1>2. ASSUME NEW i \in 1..n, i - 1 \in T PROVE i \in T
    <2>1. i \in 1..Len(s) /\ i \in 1..Len(t) /\ s[i] = t[i] OBVIOUS
    <2>2. f[i - 1] = g[i - 1] BY <1>2
    <2>3. f[i] = h[<<s[i], f[i - 1]>>] /\ g[i] = h[<<t[i], g[i - 1]>>]
      BY <2>1 DEF Follows
    <2>4. f[i] = g[i] BY <2>1, <2>2, <2>3
    <2>5. QED BY <2>4
  <1>3. T \in SUBSET (0..n) OBVIOUS
  <1> HIDE DEF T
  <1>4. T = 0..n BY <1>1, <1>2, <1>3, InductUpto
  <1>5. n \in T BY <1>4
  <1>6. QED BY <1>5 DEF T

LEMMA RunFollows ==
  ASSUME NEW E, NEW V, NEW base, NEW h, Stepwise(h, E, V, base), NEW s \in Seq(E)
  PROVE  Follows(RunOf(h, base, s), h, base, s) /\ Run(h, base, s) \in V
  <1> USE DEF Stepwise
  <1> DEFINE n == Len(s)
             k == [p \in (1..n) \X V |-> h[<<s[p[1]], p[2]>>]]
  <1>1. n \in Nat /\ \A i \in 1..n : s[i] \in E OBVIOUS
  <1>2. k \in [(1..n) \X V -> V] /\ \A i \in 1..n, v \in V : k[<<i, v>>] = h[<<s[i], v>>]
    BY <1>1
  <1> HIDE DEF n, k
  <1>3. PICK g : Iterates(g, 1..n, V, base, Largest(n), k) BY <1>1, <1>2, PrefixRecursion
  <1> DEFINE f == [i \in 0..n |-> g[1..i]]
  <1>4. \A i \in 0..n : f[i] = g[1..i] /\ 1..i \in SUBSET (1..n) BY <1>1
  <1>5. f \in [0..n -> V] /\ f[0] = base
    <2>1. g \in [SUBSET (1..n) -> V] /\ g[{}] = base BY <1>3 DEF Iterates
    <2>2. 1..0 = {} /\ 0 \in 0..n BY <1>1
    <2>3. f[0] = base BY <1>4, <2>1, <2>2
    <2>4. QED BY <1>4, <2>1, <2>3
  <1>6. ASSUME NEW i \in 1..n PROVE f[i] = h[<<s[i], f[i - 1]>>]
    <2>1. 1..i \in SUBSET (1..n) /\ 1..i # {} /\ Max(1..i) = i /\ (1..i) \ {Max(1..i)} = 1..(i - 1)
      BY <1>1, MaxPrefix
    <2>2. Largest(n)[1..i] = i BY <2>1 DEF Largest
    <2>3. g[1..i] = k[<<i, g[1..(i - 1)]>>]
      <3>1. g[1..i] = k[<<Largest(n)[1..i], g[(1..i) \ {Largest(n)[1..i]}]>>]
        BY <1>3, <2>1 DEF Iterates
      <3>2. QED BY <2>1, <2>2, <3>1
    <2>4. i \in 0..n /\ i - 1 \in 0..n BY <1>1
    <2>5. f[i] = k[<<i, f[i - 1]>>] /\ f[i - 1] \in V BY <1>4, <1>5, <2>3, <2>4
    <2> HIDE DEF f
    <2>6. QED BY <1>2, <2>5
  <1> DEFINE w == [i \in 0..n |-> IF i = 0 THEN base ELSE h[<<s[i], f[i - 1]>>]]
  <1>7. f = w
    <2>1. \A i \in 0..n : f[i] = w[i]
      <3> SUFFICES ASSUME NEW i \in 0..n PROVE f[i] = w[i] OBVIOUS
      <3>1. CASE i = 0 BY <1>5, <3>1
      <3>2. CASE i # 0
        <4>1. i \in 1..n BY <1>1, <3>2
        <4> HIDE DEF f
        <4>2. QED BY <1>6, <3>2, <4>1
      <3>3. QED BY <3>1, <3>2
    <2>2. DOMAIN f = 0..n /\ DOMAIN w = 0..n OBVIOUS
    <2>3. f = [i \in 0..n |-> f[i]] /\ w = [i \in 0..n |-> w[i]] OBVIOUS
    <2> HIDE DEF f, w
    <2>4. QED BY <2>1, <2>3, Zenon
  <1> HIDE DEF f
  <1>8. f = [i \in 0..n |-> IF i = 0 THEN base ELSE h[<<s[i], f[i - 1]>>]] BY <1>7
  <1> DEFINE R == RunOf(h, base, s)
  <1>9. R = [i \in 0..n |-> IF i = 0 THEN base ELSE h[<<s[i], R[i - 1]>>]]
    BY <1>8, Zenon DEF RunOf, n
  <1> HIDE DEF R
  <1>10. Follows(R, h, base, s)
    <2>1. R[0] = base BY <1>1, <1>9
    <2>2. \A i \in 1..n : i \in 0..n /\ i # 0 BY <1>1
    <2>3. \A i \in 1..n : R[i] = h[<<s[i], R[i - 1]>>] BY <1>9, <2>2
    <2>4. QED BY <2>1, <2>3 DEF Follows, n
  <1>11. Follows(f, h, base, s) BY <1>5, <1>6 DEF Follows, n
  <1>12. R[n] = f[n]
    <2>1. AgreeUpto(s, s, n) BY <1>1 DEF n, AgreeUpto
    <2>2. QED BY <1>10, <1>11, <2>1, FollowsOnce
  <1>13. R[n] \in V BY <1>1, <1>5, <1>12
  <1>14. QED BY <1>10, <1>13 DEF Run, R, n

LEMMA RunEmpty ==
  ASSUME NEW E, NEW V, NEW base, NEW h, Stepwise(h, E, V, base)
  PROVE  Run(h, base, <<>>) = base
  <1>1. <<>> \in Seq(E) /\ Len(<<>>) = 0 OBVIOUS
  <1>2. Follows(RunOf(h, base, <<>>), h, base, <<>>) BY <1>1, RunFollows
  <1>3. QED BY <1>1, <1>2 DEF Run, Follows

LEMMA RunAppend ==
  ASSUME NEW E, NEW V, NEW base, NEW h, Stepwise(h, E, V, base),
         NEW s \in Seq(E), NEW e \in E
  PROVE  Run(h, base, Append(s, e)) = h[<<e, Run(h, base, s)>>]
  <1> DEFINE t == Append(s, e)
             n == Len(s)
  <1>1. t \in Seq(E) /\ Len(t) = n + 1 /\ t[n + 1] = e /\ n \in Nat /\ \A i \in 1..n : s[i] = t[i]
    OBVIOUS
  <1> HIDE DEF t
  <1>2. Follows(RunOf(h, base, s), h, base, s) BY RunFollows
  <1>3. Follows(RunOf(h, base, t), h, base, t) BY <1>1, RunFollows
  <1>4. RunOf(h, base, s)[n] = RunOf(h, base, t)[n]
    <2>1. AgreeUpto(s, t, n) BY <1>1 DEF AgreeUpto
    <2> HIDE DEF n
    <2>2. QED BY <1>2, <1>3, <2>1, FollowsOnce
  <1>5. n + 1 \in 1..Len(t) /\ (n + 1) - 1 = n BY <1>1
  <1>6. RunOf(h, base, t)[n + 1] = h[<<t[n + 1], RunOf(h, base, t)[n]>>]
    BY <1>3, <1>5 DEF Follows
  <1>7. QED BY <1>1, <1>4, <1>6 DEF Run, t

\* The fold of the community modules over a sequence runs through its
\* prefixes.
Recurs(w, V, h, base, s) ==
    /\ w[{}] = base
    /\ \A u \in SUBSET (1..Len(s)) : u # {} /\ w[u \ {Max(u)}] \in V =>
          w[u] = h[<<s[Max(u)], w[u \ {Max(u)}]>>]

LEMMA FoldIsRun ==
  ASSUME NEW E, NEW V, NEW base, NEW h, Stepwise(h, E, V, base), NEW s \in Seq(E),
         NEW w, Recurs(w, V, h, base, s)
  PROVE  w[1..Len(s)] = Run(h, base, s)
  <1> USE DEF Recurs, Stepwise
  <1> DEFINE n == Len(s)
             R == RunOf(h, base, s)
             f == [i \in 0..n |-> w[1..i]]
             T == {i \in 0..n : f[i] \in V /\ (i > 0 => f[i] = h[<<s[i], f[i - 1]>>])}
  <1>1. n \in Nat /\ \A i \in 1..n : s[i] \in E OBVIOUS
  <1>2. f[0] = base
    <2>1. 1..0 = {} /\ 0 \in 0..n BY <1>1
    <2>2. QED BY <2>1
  <1>3. 0 \in T BY <1>1, <1>2
  <1>4. ASSUME NEW i \in 1..n, i - 1 \in T PROVE i \in T
    <2>1. 1..i \in SUBSET (1..n) /\ 1..i # {} /\ Max(1..i) = i /\ (1..i) \ {Max(1..i)} = 1..(i - 1)
      BY <1>1, MaxPrefix
    <2>2. i \in 0..n /\ i - 1 \in 0..n BY <1>1
    <2>3. f[i] = w[1..i] /\ f[i - 1] = w[1..(i - 1)] BY <2>2
    <2>4. f[i - 1] \in V BY <1>4
    <2>5. w[1..i] = h[<<s[i], w[1..(i - 1)]>>] BY <2>1, <2>3, <2>4
    <2>6. h[<<s[i], f[i - 1]>>] \in V BY <1>1, <2>4
    <2>7. f[i] = h[<<s[i], f[i - 1]>>] BY <2>3, <2>5
    <2> HIDE DEF f
    <2>8. QED BY <2>2, <2>6, <2>7
  <1>5. T \in SUBSET (0..n) OBVIOUS
  <1> HIDE DEF T
  <1>6. T = 0..n BY <1>1, <1>3, <1>4, <1>5, InductUpto
  <1>7. Follows(f, h, base, s)
    <2>1. \A i \in 1..n : f[i] = h[<<s[i], f[i - 1]>>]
      <3> SUFFICES ASSUME NEW i \in 1..n PROVE f[i] = h[<<s[i], f[i - 1]>>] OBVIOUS
      <3>1. i \in T /\ i > 0 BY <1>1, <1>6
      <3> HIDE DEF f
      <3>2. QED BY <3>1 DEF T
    <2> HIDE DEF f
    <2>2. QED BY <1>2, <2>1 DEF Follows
  <1>8. Follows(R, h, base, s) BY RunFollows
  <1>9. f[n] = w[1..n] BY <1>1
  <1> HIDE DEF f, R
  <1>10. f[n] = R[n]
    <2>1. AgreeUpto(s, s, n) BY <1>1 DEF AgreeUpto
    <2> HIDE DEF n
    <2>2. QED BY <1>7, <1>8, <2>1, FollowsOnce
  <1>11. QED BY <1>9, <1>10 DEF Run, R

\* The recursion a fold chooses has a solution with values in V.
Solution(g, V, h, base, s) ==
    /\ g \in [SUBSET (1..Len(s)) -> V] /\ g[{}] = base
    /\ \A u \in SUBSET (1..Len(s)) : u # {} =>
          /\ Max(u) \in 1..Len(s) /\ u \ {Max(u)} \in SUBSET (1..Len(s))
          /\ g[u] = h[<<s[Max(u)], g[u \ {Max(u)}]>>]

LEMMA FoldSolved ==
  ASSUME NEW E, NEW V, NEW base, NEW h, Stepwise(h, E, V, base), NEW s \in Seq(E)
  PROVE  \E g : Solution(g, V, h, base, s)
  <1> USE DEF Stepwise
  <1> DEFINE n == Len(s)
             k == [p \in (1..n) \X V |-> h[<<s[p[1]], p[2]>>]]
  <1>1. n \in Nat /\ \A i \in 1..n : s[i] \in E OBVIOUS
  <1>2. k \in [(1..n) \X V -> V] /\ \A i \in 1..n, v \in V : k[<<i, v>>] = h[<<s[i], v>>]
    BY <1>1
  <1> HIDE DEF n, k
  <1>3. PICK g : Iterates(g, 1..n, V, base, Largest(n), k) BY <1>1, <1>2, PrefixRecursion
  <1>4. g \in [SUBSET (1..n) -> V] /\ g[{}] = base BY <1>3 DEF Iterates
  <1>5. ASSUME NEW u \in SUBSET (1..n), u # {}
        PROVE  /\ Max(u) \in 1..n /\ u \ {Max(u)} \in SUBSET (1..n)
               /\ g[u] = h[<<s[Max(u)], g[u \ {Max(u)}]>>]
    <2>1. Max(u) \in u /\ Largest(n)[u] = Max(u) BY <1>1, <1>5, MaxExists DEF Largest
    <2>2. g[u] = k[<<Largest(n)[u], g[u \ {Largest(n)[u]}]>>] BY <1>3, <1>5 DEF Iterates
    <2>3. u \ {Max(u)} \in SUBSET (1..n) /\ Max(u) \in 1..n BY <2>1
    <2>4. g[u \ {Max(u)}] \in V BY <1>4, <2>3
    <2>5. QED BY <1>2, <2>1, <2>2, <2>3, <2>4
  <1>6. Solution(g, V, h, base, s) BY <1>4, <1>5 DEF Solution, n
  <1>7. QED BY <1>6

\* What holds of the empty sequence and survives appending holds of all.
LEMMA InductSeq ==
  ASSUME NEW E, NEW P \in SUBSET Seq(E), <<>> \in P, \A s \in P, e \in E : Append(s, e) \in P
  PROVE  P = Seq(E)
  <1> DEFINE T == {n \in Nat : \A s \in Seq(E) : Len(s) = n => s \in P}
  <1>1. 0 \in T
    <2>1. \A s \in Seq(E) : Len(s) = 0 => s = <<>> OBVIOUS
    <2>2. QED BY <2>1
  <1>2. ASSUME NEW n \in T PROVE n + 1 \in T
    <2> SUFFICES ASSUME NEW s \in Seq(E), Len(s) = n + 1 PROVE s \in P
      OBVIOUS
    <2>1. n \in Nat /\ s # <<>> OBVIOUS
    <2>2. PICK r \in Seq(E), e \in E : s = Append(r, e) BY <2>1, SequenceEmptyOrAppend
    <2>3. Len(s) = Len(r) + 1 /\ Len(r) \in Nat BY <2>2, AppendProperties
    <2>4. r \in P BY <2>1, <2>3
    <2>5. QED BY <2>2, <2>4
  <1>3. T \in SUBSET Nat OBVIOUS
  <1> HIDE DEF T
  <1>4. T = Nat BY <1>1, <1>2, <1>3, Induct
  <1>5. \A s \in Seq(E) : Len(s) \in Nat OBVIOUS
  <1>6. QED BY <1>4, <1>5 DEF T
=============================================================================
