---------------------------- MODULE SumTheorems ----------------------------
(* What the ledgers need to know about SumOver, for any finite set.  Each  *)
(* induction is over subsets of a finite set: a set of counterexamples     *)
(* would have a minimal element under strict inclusion.                    *)
(* The last lemmas show that a fold over a finite set, taking out one      *)
(* chosen element at a time, has exactly one value.                        *)
EXTENDS Sums, FiniteSetTheorems, TLAPS

\* Every nonempty set of naturals has a least element.
LEMMA LeastOfNaturals ==
    ASSUME NEW S \in SUBSET Nat, S /= {}
    PROVE  \E i \in S : \A j \in S : i <= j
<1> DEFINE R == OpToRel(<, Nat)
<1>1. IsWellFoundedOn(R, Nat)
  BY NatLessThanWellFounded
<1>2. PICK i \in S : \A j \in S : <<j, i>> \notin R
  BY <1>1, WFMin
<1>3. \A j \in S : ~(j < i)
  BY <1>2 DEF OpToRel
<1> QED
  BY <1>3

\* Among sets of subsets of a finite set, every nonempty one has a minimal
\* element under inclusion.
LEMMA MinimalSubset ==
    ASSUME NEW S, IsFiniteSet(S), NEW Bad \in SUBSET (SUBSET S), Bad /= {}
    PROVE  \E T \in Bad : \A U \in Bad : ~(U \subseteq T /\ U /= T)
<1> DEFINE R == StrictSubsetOrdering(S)
<1>1. IsWellFoundedOn(R, SUBSET S)
  BY FS_StrictSubsetOrderingWellFounded, FS_FiniteSubsetsOfFinite
<1>2. PICK T \in Bad : \A U \in Bad : <<U, T>> \notin R
  BY <1>1, WFMin
<1>3. \A U \in Bad : U \subseteq T /\ U /= T => <<U, T>> \in R
  BY DEF StrictSubsetOrdering
<1> HIDE DEF R
<1>4. ASSUME NEW U \in Bad PROVE ~(U \subseteq T /\ U /= T)
  BY <1>2, <1>3
<1> QED
  BY <1>4

\* The element that the fold takes out of a set first.
Pick(s) == CHOOSE x \in s : TRUE

\* The recursion of the fold, for the subsets of S.
Recursion(f, S, g) ==
    g = [s \in SUBSET S |-> IF s = {} THEN 0 ELSE f[Pick(s)] + g[s \ {Pick(s)}]]

\* SumOver is the value at S of some function that obeys the recursion, if
\* there is one.
LEMMA SumIsFold ==
    ASSUME NEW f, NEW S
    PROVE  SumOver(f, S) = (CHOOSE g : Recursion(f, S, g))[S]
  BY DEF SumOver, MapThenSumSet, MapThenFoldSet, Recursion, Pick

\* What is taken out of a nonempty set is an element of it.
LEMMA PickType == ASSUME NEW s, s /= {} PROVE Pick(s) \in s
  BY DEF Pick

\* The sum of a set unfolds by one element.
Unfolds(f, s) ==
    /\ SumOver(f, s) \in Nat
    /\ SumOver(f, s) = IF s = {} THEN 0 ELSE f[Pick(s)] + SumOver(f, s \ {Pick(s)})

\* If the sums of the proper subsets of T unfold, every solution of the
\* recursion for T has them as its values.
LEMMA RecursionAgrees ==
    ASSUME NEW S, IsFiniteSet(S), NEW T \in SUBSET S, NEW f \in [S -> Nat], NEW g, Recursion(f, T, g),
           \A s \in SUBSET T : s /= T => Unfolds(f, s)
    PROVE  \A s \in SUBSET T : s /= T => g[s] = SumOver(f, s)
<1> DEFINE Bad == {s \in SUBSET T : s /= T /\ g[s] /= SumOver(f, s)}
<1> SUFFICES ASSUME Bad /= {} PROVE FALSE
  OBVIOUS
<1>1. Bad \in SUBSET (SUBSET S)
  OBVIOUS
<1>2. PICK s \in Bad : \A u \in Bad : ~(u \subseteq s /\ u /= s)
  <2> HIDE DEF Bad
  <2> QED BY <1>1, MinimalSubset
<1>3. s \in SUBSET T /\ s /= T /\ Unfolds(f, s)
  OBVIOUS
<1>4. g[s] = IF s = {} THEN 0 ELSE f[Pick(s)] + g[s \ {Pick(s)}]
  BY <1>3 DEF Recursion
<1>5. CASE s = {}
  BY <1>3, <1>4, <1>5 DEF Unfolds
<1>6. CASE s /= {}
  <2> DEFINE u == s \ {Pick(s)}
  <2>1. u \in SUBSET T /\ u /= T /\ u \subseteq s /\ u /= s
    BY <1>3, <1>6, PickType
  <2>2. g[u] = SumOver(f, u)
    BY <1>2, <2>1
  <2> QED
    BY <1>3, <1>4, <1>6, <2>2 DEF Unfolds
<1> QED
  BY <1>5, <1>6

\* The sum of naturals over a finite set is a natural, and unfolds.
LEMMA SumUnfolds ==
    ASSUME NEW S, IsFiniteSet(S), NEW f \in [S -> Nat]
    PROVE  \A T \in SUBSET S : Unfolds(f, T)
<1> DEFINE Bad == {T \in SUBSET S : ~Unfolds(f, T)}
<1> SUFFICES ASSUME Bad /= {} PROVE FALSE
  OBVIOUS
<1>1. Bad \in SUBSET (SUBSET S)
  OBVIOUS
<1>2. PICK T \in Bad : \A U \in Bad : ~(U \subseteq T /\ U /= T)
  <2> HIDE DEF Bad
  <2> QED BY <1>1, MinimalSubset
<1> DEFINE W == (SUBSET T) \ {T}
<1>3. \A s \in W : Unfolds(f, s)
  BY <1>2
<1> DEFINE h == [s \in SUBSET T |-> IF s = {} THEN 0 ELSE f[Pick(s)] + SumOver(f, s \ {Pick(s)})]
<1>4. ASSUME NEW s \in SUBSET T, s /= {}
      PROVE  /\ Pick(s) \in S
             /\ s \ {Pick(s)} \in W
             /\ h[s \ {Pick(s)}] = SumOver(f, s \ {Pick(s)})
  <2>1. Pick(s) \in s
    BY <1>4, PickType
  <2>2. s \ {Pick(s)} \in W
    BY <2>1
  <2> QED
    BY <1>3, <2>1, <2>2 DEF Unfolds
<1>5. Recursion(f, T, h)
  <2>1. \A s \in SUBSET T : h[s] = IF s = {} THEN 0 ELSE f[Pick(s)] + h[s \ {Pick(s)}]
    BY <1>4
  <2>2. h = [s \in SUBSET T |-> h[s]]
    OBVIOUS
  <2> HIDE DEF h
  <2>3. h = [s \in SUBSET T |-> IF s = {} THEN 0 ELSE f[Pick(s)] + h[s \ {Pick(s)}]]
    BY <2>1, <2>2, Zenon
  <2> QED
    BY <2>3 DEF Recursion
<1> DEFINE g == CHOOSE g : Recursion(f, T, g)
<1>6. Recursion(f, T, g)
  BY <1>5
<1>7. SumOver(f, T) = g[T]
  BY SumIsFold
<1> HIDE DEF g, h
<1>8. \A s \in W : g[s] = SumOver(f, s)
  <2>1. \A s \in SUBSET T : s /= T => Unfolds(f, s)
    BY <1>3
  <2>2. T \in SUBSET S
    OBVIOUS
  <2>3. \A s \in SUBSET T : s /= T => g[s] = SumOver(f, s)
    <3> HIDE DEF Bad, W
    <3> QED BY <1>6, <2>1, <2>2, RecursionAgrees
  <2> QED
    BY <2>3
<1>9. g[T] = IF T = {} THEN 0 ELSE f[Pick(T)] + g[T \ {Pick(T)}]
  BY <1>6 DEF Recursion
<1>10. CASE T = {}
  BY <1>7, <1>9, <1>10 DEF Unfolds
<1>11. CASE T /= {}
  <2>1. g[T \ {Pick(T)}] = SumOver(f, T \ {Pick(T)})
    BY <1>4, <1>8, <1>11
  <2>2. f[Pick(T)] \in Nat /\ SumOver(f, T \ {Pick(T)}) \in Nat
    BY <1>3, <1>4, <1>11 DEF Unfolds
  <2> QED
    BY <1>7, <1>9, <1>11, <2>1, <2>2 DEF Unfolds
<1> QED
  BY <1>10, <1>11

\* A sum of naturals is a natural.
LEMMA SumType ==
    ASSUME NEW S, IsFiniteSet(S), NEW f \in [S -> Nat], NEW T \in SUBSET S
    PROVE  SumOver(f, T) \in Nat
  BY SumUnfolds DEF Unfolds

\* Any element may be taken out first.
LEMMA SumRemove ==
    ASSUME NEW S, IsFiniteSet(S), NEW f \in [S -> Nat]
    PROVE  \A T \in SUBSET S : \A x \in T : SumOver(f, T) = f[x] + SumOver(f, T \ {x})
<1> DEFINE Holds(T) == \A x \in T : SumOver(f, T) = f[x] + SumOver(f, T \ {x})
           Bad == {T \in SUBSET S : ~Holds(T)}
<1> SUFFICES ASSUME Bad /= {} PROVE FALSE
  OBVIOUS
<1>1. Bad \in SUBSET (SUBSET S)
  OBVIOUS
<1>2. PICK T \in Bad : \A U \in Bad : ~(U \subseteq T /\ U /= T)
  <2> HIDE DEF Bad
  <2> QED BY <1>1, MinimalSubset
<1>3. \A U \in SUBSET T : U /= T => Holds(U)
  BY <1>2
<1>4. PICK x \in T : SumOver(f, T) /= f[x] + SumOver(f, T \ {x})
  OBVIOUS
<1> DEFINE y == Pick(T)
<1>5. y \in T
  BY PickType
<1>6. SumOver(f, T) = f[y] + SumOver(f, T \ {y})
  BY <1>4, SumUnfolds DEF Unfolds
<1>0. T \in SUBSET S
  OBVIOUS
<1> HIDE DEF y, Bad, Holds
<1>7. x /= y
  BY <1>4, <1>6
<1>8. SumOver(f, T \ {y}) = f[x] + SumOver(f, (T \ {x}) \ {y})
  <2>1. (T \ {y}) \ {x} = (T \ {x}) \ {y}
    OBVIOUS
  <2> QED
    BY <1>3, <1>4, <1>5, <1>7, <2>1 DEF Holds
<1>9. SumOver(f, T \ {x}) = f[y] + SumOver(f, (T \ {x}) \ {y})
  BY <1>3, <1>4, <1>5, <1>7 DEF Holds
<1>10. f[x] \in Nat /\ f[y] \in Nat /\ SumOver(f, (T \ {x}) \ {y}) \in Nat
  BY <1>0, <1>4, <1>5, SumType
<1> QED
  BY <1>4, <1>6, <1>8, <1>9, <1>10

\* Functions that agree on a set have the same sum over it.
LEMMA SumCongruence ==
    ASSUME NEW S, IsFiniteSet(S), NEW f \in [S -> Nat], NEW g \in [S -> Nat]
    PROVE  \A T \in SUBSET S : (\A x \in T : f[x] = g[x]) => SumOver(f, T) = SumOver(g, T)
<1> DEFINE Holds(T) == (\A x \in T : f[x] = g[x]) => SumOver(f, T) = SumOver(g, T)
           Bad == {T \in SUBSET S : ~Holds(T)}
<1> SUFFICES ASSUME Bad /= {} PROVE FALSE
  OBVIOUS
<1>1. Bad \in SUBSET (SUBSET S)
  OBVIOUS
<1>2. PICK T \in Bad : \A U \in Bad : ~(U \subseteq T /\ U /= T)
  <2> HIDE DEF Bad
  <2> QED BY <1>1, MinimalSubset
<1>3. (\A x \in T : f[x] = g[x]) /\ SumOver(f, T) /= SumOver(g, T)
  OBVIOUS
<1>4. Unfolds(f, T) /\ Unfolds(g, T)
  BY SumUnfolds
<1>5. CASE T = {}
  BY <1>3, <1>4, <1>5 DEF Unfolds
<1>6. CASE T /= {}
  <2>1. Pick(T) \in T
    BY <1>6, PickType
  <2>2. SumOver(f, T \ {Pick(T)}) = SumOver(g, T \ {Pick(T)})
    BY <1>2, <1>3, <2>1
  <2> QED
    BY <1>3, <1>4, <1>6, <2>1, <2>2 DEF Unfolds
<1> QED
  BY <1>5, <1>6

\* No term exceeds the sum.
LEMMA SumTerm ==
    ASSUME NEW S, IsFiniteSet(S), NEW f \in [S -> Nat], NEW x \in S
    PROVE  f[x] <= SumOver(f, S)
<1>1. SumOver(f, S) = f[x] + SumOver(f, S \ {x})
  BY SumRemove
<1>2. f[x] \in Nat /\ SumOver(f, S \ {x}) \in Nat
  BY SumType
<1> QED
  BY <1>1, <1>2

\* Where all terms are zero, so is the sum.
LEMMA SumZero ==
    ASSUME NEW S, IsFiniteSet(S), NEW f \in [S -> Nat], \A x \in S : f[x] = 0
    PROVE  SumOver(f, S) = 0
<1> DEFINE Bad == {T \in SUBSET S : SumOver(f, T) /= 0}
<1> SUFFICES ASSUME Bad /= {} PROVE FALSE
  OBVIOUS
<1>1. Bad \in SUBSET (SUBSET S)
  OBVIOUS
<1>2. PICK T \in Bad : \A U \in Bad : ~(U \subseteq T /\ U /= T)
  <2> HIDE DEF Bad
  <2> QED BY <1>1, MinimalSubset
<1>3. Unfolds(f, T)
  BY SumUnfolds
<1>4. CASE T = {}
  BY <1>3, <1>4 DEF Unfolds
<1>5. CASE T /= {}
  <2>1. Pick(T) \in T
    BY <1>5, PickType
  <2>2. SumOver(f, T \ {Pick(T)}) = 0
    BY <1>2, <2>1
  <2> QED
    BY <1>3, <1>5, <2>1, <2>2 DEF Unfolds
<1> QED
  BY <1>4, <1>5

\* When one term changes, the sum changes by the difference.
LEMMA SumUpdate ==
    ASSUME NEW S, IsFiniteSet(S), NEW f \in [S -> Nat], NEW g \in [S -> Nat], NEW x \in S,
           \A y \in S \ {x} : g[y] = f[y]
    PROVE  SumOver(g, S) = SumOver(f, S) - f[x] + g[x]
<1>1. SumOver(f, S) = f[x] + SumOver(f, S \ {x}) /\ SumOver(g, S) = g[x] + SumOver(g, S \ {x})
  BY SumRemove
<1>2. SumOver(f, S \ {x}) = SumOver(g, S \ {x})
  BY SumCongruence
<1>3. f[x] \in Nat /\ g[x] \in Nat /\ SumOver(f, S \ {x}) \in Nat
  BY SumType
<1> QED
  BY <1>1, <1>2, <1>3

\* When no term changes, neither does the sum.
LEMMA SumSame ==
    ASSUME NEW S, IsFiniteSet(S), NEW f \in [S -> Nat], NEW g \in [S -> Nat],
           \A x \in S : g[x] = f[x]
    PROVE  SumOver(g, S) = SumOver(f, S)
  BY SumCongruence

-----------------------------------------------------------------------------
(* Folds over a finite set.                                                *)

\* What holds of the empty set, and of a set whenever it holds of the set
\* without what the fold takes out first, holds of every subset.
LEMMA SubsetInduction ==
    ASSUME NEW S, IsFiniteSet(S), NEW P \in SUBSET (SUBSET S), {} \in P,
           \A s \in SUBSET S : s /= {} /\ s \ {Pick(s)} \in P => s \in P
    PROVE  \A s \in SUBSET S : s \in P
<1> DEFINE Bad == (SUBSET S) \ P
<1> SUFFICES ASSUME Bad /= {} PROVE FALSE
  OBVIOUS
<1>1. PICK T \in Bad : \A U \in Bad : ~(U \subseteq T /\ U /= T)
  <2>1. Bad \in SUBSET (SUBSET S)
    OBVIOUS
  <2> HIDE DEF Bad
  <2> QED BY <2>1, MinimalSubset
<1>2. T /= {} /\ Pick(T) \in T
  BY PickType
<1>3. T \ {Pick(T)} \in P
  BY <1>1, <1>2
<1> QED
  BY <1>2, <1>3

\* The recursion of a fold whose step is a function.
Folding(F, b, S, g) ==
    g = [s \in SUBSET S |-> IF s = {} THEN b ELSE F[<<Pick(s), g[s \ {Pick(s)}]>>]]

\* Its solutions agree where both are defined.
LEMMA FoldingAgrees ==
    ASSUME NEW F, NEW b, NEW S, IsFiniteSet(S)
    PROVE  \A T, U \in SUBSET S : \A g, h : Folding(F, b, T, g) /\ Folding(F, b, U, h)
               => \A s \in SUBSET (T \cap U) : g[s] = h[s]
<1> SUFFICES ASSUME NEW T \in SUBSET S, NEW U \in SUBSET S, NEW g, NEW h,
                    Folding(F, b, T, g), Folding(F, b, U, h)
             PROVE  \A s \in SUBSET (T \cap U) : g[s] = h[s]
  OBVIOUS
<1> DEFINE P == {s \in SUBSET (T \cap U) : g[s] = h[s]}
<1>1. ASSUME NEW s \in SUBSET (T \cap U)
      PROVE  /\ g[s] = IF s = {} THEN b ELSE F[<<Pick(s), g[s \ {Pick(s)}]>>]
             /\ h[s] = IF s = {} THEN b ELSE F[<<Pick(s), h[s \ {Pick(s)}]>>]
  <2>1. s \in SUBSET T /\ s \in SUBSET U
    OBVIOUS
  <2>2. g[s] = IF s = {} THEN b ELSE F[<<Pick(s), g[s \ {Pick(s)}]>>]
    BY <2>1 DEF Folding
  <2>3. h[s] = IF s = {} THEN b ELSE F[<<Pick(s), h[s \ {Pick(s)}]>>]
    BY <2>1 DEF Folding
  <2> QED
    BY <2>2, <2>3
<1>2. {} \in P
  BY <1>1
<1>3. \A s \in SUBSET (T \cap U) : s /= {} /\ s \ {Pick(s)} \in P => s \in P
  BY <1>1
<1>4. IsFiniteSet(T \cap U)
  BY FS_Subset
<1>5. P \in SUBSET (SUBSET (T \cap U))
  OBVIOUS
<1>6. \A s \in SUBSET (T \cap U) : s \in P
  <2> HIDE DEF P
  <2> QED BY <1>2, <1>3, <1>4, <1>5, SubsetInduction
<1> QED
  BY <1>6

\* It has a solution.
LEMMA FoldingSolved ==
    ASSUME NEW S, IsFiniteSet(S), NEW V, NEW b \in V, NEW F, \A x \in S, v \in V : F[<<x, v>>] \in V
    PROVE  \E g \in [SUBSET S -> V] : Folding(F, b, S, g)
<1>0. \A t, u \in SUBSET S : \A p, q : Folding(F, b, t, p) /\ Folding(F, b, u, q)
               => \A x \in SUBSET (t \cap u) : p[x] = q[x]
  BY FoldingAgrees
<1> DEFINE Solved(T) == \E g \in [SUBSET T -> V] : Folding(F, b, T, g)
           Bad == {T \in SUBSET S : ~Solved(T)}
<1> SUFFICES ASSUME Bad /= {} PROVE FALSE
  OBVIOUS
<1>1. PICK T \in Bad : \A U \in Bad : ~(U \subseteq T /\ U /= T)
  <2>1. Bad \in SUBSET (SUBSET S)
    OBVIOUS
  <2> HIDE DEF Bad
  <2> QED BY <2>1, MinimalSubset
<1> DEFINE W == (SUBSET T) \ {T}
           G(U) == CHOOSE g \in [SUBSET U -> V] : Folding(F, b, U, g)
           at(s) == G(s)[s]
<1>2. ASSUME NEW U \in W PROVE G(U) \in [SUBSET U -> V] /\ Folding(F, b, U, G(U))
  <2>1. Solved(U)
    BY <1>1
  <2> QED
    BY <2>1
<1> DEFINE h == [s \in SUBSET T |-> IF s = {} THEN b ELSE F[<<Pick(s), at(s \ {Pick(s)})>>]]
<1>3. T \in SUBSET S /\ ~Solved(T)
  BY <1>1
<1> HIDE DEF G, Bad
<1>4. ASSUME NEW s \in SUBSET T, s /= {}
      PROVE  Pick(s) \in S /\ s \ {Pick(s)} \in W
  BY <1>3, <1>4, PickType
<1>5. \A s \in W : at(s) \in V
  BY <1>2
<1>6. ASSUME NEW s \in W PROVE at(s) = h[s]
  <2>1. s \in SUBSET T
    OBVIOUS
  <2>2. at(s) = IF s = {} THEN b ELSE F[<<Pick(s), G(s)[s \ {Pick(s)}]>>]
    BY <1>2 DEF Folding
  <2>3. CASE s = {}
    BY <2>1, <2>2, <2>3
  <2>4. CASE s /= {}
    <3> DEFINE u == s \ {Pick(s)}
    <3>1. u \in W /\ u \in SUBSET s /\ s \in SUBSET S /\ u \in SUBSET S
      BY <1>3, <1>4, <2>4
    <3>2. \A x \in SUBSET (s \cap u) : G(s)[x] = G(u)[x]
      <4> DEFINE p == G(s)
                 q == G(u)
      <4>1. Folding(F, b, s, p) /\ Folding(F, b, u, q)
        BY <1>2, <3>1
      <4>2. s \in SUBSET S /\ u \in SUBSET S
        BY <3>1
      <4> HIDE DEF u, p, q, W, at, h, Solved
      <4>3. \A x \in SUBSET (s \cap u) : p[x] = q[x]
        <5>1. \A y, z : Folding(F, b, s, y) /\ Folding(F, b, u, z)
                 => \A x \in SUBSET (s \cap u) : y[x] = z[x]
          BY <4>2, <1>0
        <5> QED
          BY <4>1, <5>1
      <4> QED
        BY <4>3 DEF p, q
    <3>3. G(s)[u] = at(u)
      BY <3>1, <3>2
    <3> QED
      BY <2>1, <2>2, <2>4, <3>3
  <2> QED
    BY <2>3, <2>4
<1>7. h \in [SUBSET T -> V]
  <2>1. ASSUME NEW s \in SUBSET T, s /= {}
        PROVE  F[<<Pick(s), at(s \ {Pick(s)})>>] \in V
    BY <1>4, <1>5, <2>1
  <2> QED
    BY <2>1
<1>8. Folding(F, b, T, h)
  <2>1. \A s \in SUBSET T : h[s] = IF s = {} THEN b ELSE F[<<Pick(s), h[s \ {Pick(s)}]>>]
    <3> SUFFICES ASSUME NEW s \in SUBSET T, s /= {}
                 PROVE  h[s] = F[<<Pick(s), h[s \ {Pick(s)}]>>]
      OBVIOUS
    <3>1. h[s] = F[<<Pick(s), at(s \ {Pick(s)})>>]
      OBVIOUS
    <3>2. at(s \ {Pick(s)}) = h[s \ {Pick(s)}]
      BY <1>4, <1>6
    <3> HIDE DEF h, at
    <3> QED
      BY <3>1, <3>2
  <2>2. h = [s \in SUBSET T |-> h[s]]
    OBVIOUS
  <2> HIDE DEF h
  <2>3. h = [s \in SUBSET T |-> IF s = {} THEN b ELSE F[<<Pick(s), h[s \ {Pick(s)}]>>]]
    BY <2>1, <2>2, Zenon
  <2> QED
    BY <2>3 DEF Folding
<1> QED
  BY <1>3, <1>7, <1>8
=============================================================================
