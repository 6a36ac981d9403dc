---------------------------- MODULE AmountsProofs ----------------------------
(***************************************************************************)
(* Proofs about Amounts, for quotes of any number of lines, any quantities, *)
(* prices and rates.  The sums are folds of the community modules; what the *)
(* proofs need of them is shown first: one index can be taken after the    *)
(* other, sums over disjoint groups add up, a bound on every index is one   *)
(* on the sums.  Then the roundings, then what is kept of a saved quote:    *)
(* its lines and its total are those of the rows sent.                      *)
(***************************************************************************)
EXTENDS Amounts, FiniteSetTheorems, WellFoundedInduction, TLAPS

-----------------------------------------------------------------------------
(* Sums.  A fold is a recursive function chosen once; that there is one to  *)
(* choose, and that it does not depend on the order in which the indices    *)
(* are taken, is shown on a smallest set for which it would fail.           *)

First(s) == CHOOSE x \in s : TRUE

(* iter is what the fold of f over S chooses *)
Adds(f, S, iter) ==
    iter = [s \in SUBSET S |-> IF s = {} THEN 0 ELSE f[First(s)] + iter[s \ {First(s)}]]

Total(f, S) == SumFunctionOnSet(f, S)

(* A sum is the value at its whole index set of the recursive function.     *)
LEMMA TotalIsChosen ==
    ASSUME NEW f, NEW S
    PROVE  Total(f, S) = (CHOOSE iter : Adds(f, S, iter))[S]
  BY DEF Total, SumFunctionOnSet, FoldFunctionOnSet, MapThenFoldSet, First, Adds

(* A nonempty collection of subsets of a finite set has a smallest member.  *)
LEMMA SmallestSubset ==
    ASSUME NEW S, IsFiniteSet(S), NEW B, B \subseteq SUBSET S, B # {}
    PROVE  \E T \in B : \A U \in B : U \subseteq T => U = T
  <1>1. B \subseteq FiniteSubsetsOf(S) BY FS_Subset DEF FiniteSubsetsOf
  <1>2. PICK T \in B : \A U \in B : <<U, T>> \notin StrictSubsetOrdering(S)
    BY <1>1, WFMin, FS_StrictSubsetOrderingWellFounded
  <1>3. \A U \in B : U \subseteq T => U = T
    BY <1>2 DEF StrictSubsetOrdering
  <1> QED BY <1>3

(* Induction over the subsets of a finite set, one more index at a time.    *)
LEMMA SubsetInduction ==
    ASSUME NEW S, IsFiniteSet(S), NEW G, {} \in G,
           \A T \in SUBSET S : \A x \in S \ T : T \in G => T \cup {x} \in G
    PROVE  S \in G
  <1> SUFFICES ASSUME S \notin G PROVE FALSE OBVIOUS
  <1> DEFINE B == (SUBSET S) \ G
  <1>1. B # {} OBVIOUS
  <1>2. PICK T \in B : \A U \in B : U \subseteq T => U = T
    <2> HIDE DEF B
    <2>1. B \subseteq SUBSET S BY DEF B
    <2> QED BY <1>1, <2>1, SmallestSubset
  <1>3. PICK x \in T : TRUE BY <1>2
  <1>4. T \ {x} \in G BY <1>2, <1>3
  <1>5. T \ {x} \in SUBSET S /\ x \in S \ (T \ {x}) BY <1>2, <1>3
  <1>6. (T \ {x}) \cup {x} \in G BY <1>4, <1>5
  <1>7. (T \ {x}) \cup {x} = T BY <1>3
  <1> QED BY <1>2, <1>6, <1>7

(* Two such functions agree wherever both are defined.                      *)
LEMMA AddsAgree ==
    ASSUME NEW f, NEW S, IsFiniteSet(S), NEW R, NEW i, NEW j,
           Adds(f, S, i), Adds(f, R, j)
    PROVE  \A T \in SUBSET (S \cap R) : i[T] = j[T]
  <1> DEFINE B == {T \in SUBSET (S \cap R) : i[T] # j[T]}
  <1> SUFFICES ASSUME B # {} PROVE FALSE OBVIOUS
  <1>1. PICK T \in B : \A U \in B : U \subseteq T => U = T
    <2> HIDE DEF B
    <2>1. B \subseteq SUBSET S BY DEF B
    <2> QED BY <2>1, SmallestSubset
  <1>2. CASE T = {}
    <2>1. i[T] = 0 /\ j[T] = 0 BY <1>1, <1>2 DEF Adds
    <2> QED BY <1>1, <2>1
  <1>3. CASE T # {}
    <2> DEFINE c == First(T)
    <2>1. c \in T BY <1>3 DEF First
    <2>2. i[T] = f[c] + i[T \ {c}] BY <1>1, <1>3 DEF Adds
    <2>3. j[T] = f[c] + j[T \ {c}] BY <1>1, <1>3 DEF Adds
    <2> HIDE DEF c
    <2>4. T \ {c} # T /\ T \ {c} \subseteq T BY <2>1
    <2>5. i[T \ {c}] = j[T \ {c}] BY <1>1, <2>4
    <2> QED BY <1>1, <2>2, <2>3, <2>5
  <1> QED BY <1>2, <1>3

(* Where there is one for every smaller set, a sum unfolds once.            *)
LEMMA UnfoldWhereDefined ==
    ASSUME NEW f, NEW S, IsFiniteSet(S), S # {},
           \E i : Adds(f, S, i), \E j : Adds(f, S \ {First(S)}, j)
    PROVE  Total(f, S) = f[First(S)] + Total(f, S \ {First(S)})
  <1> DEFINE c == First(S)
             i == CHOOSE k : Adds(f, S, k)
             j == CHOOSE k : Adds(f, S \ {c}, k)
  <1>1. Adds(f, S, i) OBVIOUS
  <1>2. Adds(f, S \ {c}, j) OBVIOUS
  <1>3. Total(f, S) = i[S] /\ Total(f, S \ {c}) = j[S \ {c}] BY TotalIsChosen
  <1>4. i[S] = f[c] + i[S \ {c}] BY <1>1 DEF Adds
  <1> HIDE DEF i, j, c
  <1>5. i[S \ {c}] = j[S \ {c}] BY <1>1, <1>2, AddsAgree
  <1> QED BY <1>3, <1>4, <1>5 DEF c

(* There is such a function for every finite set.                           *)
LEMMA AddsExists ==
    ASSUME NEW f, NEW S, IsFiniteSet(S)
    PROVE  \E i : Adds(f, S, i)
  <1> DEFINE B == {T \in SUBSET S : ~ \E i : Adds(f, T, i)}
  <1> SUFFICES ASSUME B # {} PROVE FALSE OBVIOUS
  <1>1. PICK T \in B : \A U \in B : U \subseteq T => U = T
    <2> HIDE DEF B
    <2>1. B \subseteq SUBSET S BY DEF B
    <2> QED BY <2>1, SmallestSubset
  <1>2. ASSUME NEW U \in SUBSET T, U # T PROVE \E i : Adds(f, U, i)
    BY <1>1, <1>2
  <1> DEFINE iter == [s \in SUBSET T |->
                        IF s = {} THEN 0 ELSE f[First(s)] + Total(f, s \ {First(s)})]
  <1>3. ASSUME NEW s \in SUBSET T, s # {}
        PROVE  iter[s \ {First(s)}] = Total(f, s \ {First(s)})
    <2> DEFINE u == s \ {First(s)}
    <2>1. First(s) \in s BY <1>3 DEF First
    <2>2. u \in SUBSET T /\ u # T BY <2>1
    <2>3. IsFiniteSet(u) BY <1>1, FS_Subset
    <2>4. CASE u = {}
      <3>1. iter[u] = 0 BY <2>2, <2>4
      <3>2. PICK j : Adds(f, u, j) BY <1>2, <2>2
      <3>3. Adds(f, u, CHOOSE i : Adds(f, u, i)) BY <3>2
      <3>4. Total(f, u) = 0 BY <2>4, <3>3, TotalIsChosen DEF Adds
      <3> QED BY <3>1, <3>4
    <2>5. CASE u # {}
      <3>1. First(u) \in u BY <2>5 DEF First
      <3>2. u \ {First(u)} \in SUBSET T /\ u \ {First(u)} # T BY <2>2, <3>1
      <3>3. \E i : Adds(f, u, i) BY <1>2, <2>2
      <3>4. \E i : Adds(f, u \ {First(u)}, i) BY <1>2, <3>2
      <3>5. iter[u] = f[First(u)] + Total(f, u \ {First(u)}) BY <2>2, <2>5
      <3> HIDE DEF u, iter
      <3>6. Total(f, u) = f[First(u)] + Total(f, u \ {First(u)})
        BY <2>3, <2>5, <3>3, <3>4, UnfoldWhereDefined
      <3> QED BY <3>5, <3>6 DEF u
    <2> QED BY <2>4, <2>5
  <1>4. iter = [s \in SUBSET T |-> IF s = {} THEN 0
                                   ELSE f[First(s)] + iter[s \ {First(s)}]]
    BY <1>3
  <1>5. Adds(f, T, iter)
    <2> HIDE DEF iter
    <2> QED BY <1>4 DEF Adds
  <1> QED BY <1>1, <1>5

(* Nothing adds up to zero.                                                 *)
LEMMA TotalOfNone == ASSUME NEW f PROVE Total(f, {}) = 0
  <1>1. \E i : Adds(f, {}, i) BY AddsExists, FS_EmptySet
  <1>2. Adds(f, {}, CHOOSE i : Adds(f, {}, i)) BY <1>1
  <1> QED BY <1>2, TotalIsChosen DEF Adds

(* A sum takes one index, and adds the sum of the others.                   *)
LEMMA TotalTakesFirst ==
    ASSUME NEW f, NEW S, IsFiniteSet(S), S # {}
    PROVE  Total(f, S) = f[First(S)] + Total(f, S \ {First(S)})
  <1>1. \E i : Adds(f, S, i) BY AddsExists
  <1>2. IsFiniteSet(S \ {First(S)}) BY FS_Subset
  <1>3. \E i : Adds(f, S \ {First(S)}, i) BY <1>2, AddsExists
  <1> QED BY <1>1, <1>3, UnfoldWhereDefined

(* A sum of integers is an integer.                                         *)
LEMMA TotalType ==
    ASSUME NEW f, NEW S, IsFiniteSet(S), \A x \in S : f[x] \in Int
    PROVE  Total(f, S) \in Int
  <1> DEFINE B == {T \in SUBSET S : Total(f, T) \notin Int}
  <1> SUFFICES ASSUME B # {} PROVE FALSE OBVIOUS
  <1>1. PICK T \in B : \A U \in B : U \subseteq T => U = T
    <2> HIDE DEF B
    <2>1. B \subseteq SUBSET S BY DEF B
    <2> QED BY <2>1, SmallestSubset
  <1>2. T # {}
    <2>1. Total(f, {}) \in Int BY TotalOfNone
    <2>2. Total(f, T) \notin Int BY <1>1
    <2> QED BY <2>1, <2>2
  <1>3. First(T) \in T BY <1>2 DEF First
  <1>4. Total(f, T \ {First(T)}) \in Int BY <1>1, <1>3
  <1>5. Total(f, T) = f[First(T)] + Total(f, T \ {First(T)})
    BY <1>1, <1>2, FS_Subset, TotalTakesFirst
  <1> QED BY <1>1, <1>3, <1>4, <1>5

(* Any index can be the one that is taken first.                            *)
LEMMA TotalTakesAny ==
    ASSUME NEW f, NEW S, IsFiniteSet(S), \A x \in S : f[x] \in Int
    PROVE  \A x \in S : Total(f, S) = f[x] + Total(f, S \ {x})
  <1> DEFINE B == {T \in SUBSET S : \E x \in T : Total(f, T) # f[x] + Total(f, T \ {x})}
  <1> SUFFICES ASSUME B # {} PROVE FALSE OBVIOUS
  <1>1. PICK T \in B : \A U \in B : U \subseteq T => U = T
    <2> HIDE DEF B
    <2>1. B \subseteq SUBSET S BY DEF B
    <2> QED BY <2>1, SmallestSubset
  <1>2. PICK x \in T : Total(f, T) # f[x] + Total(f, T \ {x}) BY <1>1
  <1> DEFINE c == First(T)
  <1>3. T \subseteq S /\ c \in T BY <1>1, <1>2 DEF First
  <1>4. \A U \in SUBSET T : IsFiniteSet(U) /\ Total(f, U) \in Int
    BY <1>3, FS_Subset, TotalType
  <1>5. Total(f, T) = f[c] + Total(f, T \ {c})
    BY <1>2, <1>4, TotalTakesFirst
  <1>6. c # x BY <1>2, <1>5
  <1> HIDE DEF c
  <1>7. ASSUME NEW a \in T, NEW b \in T, a # b
        PROVE  Total(f, T \ {a}) = f[b] + Total(f, (T \ {a}) \ {b})
    <2>1. T \ {a} \in SUBSET S /\ T \ {a} \subseteq T /\ T \ {a} # T BY <1>3
    <2>2. T \ {a} \notin B
      <3> HIDE DEF B
      <3> QED BY <1>1, <2>1
    <2>3. b \in T \ {a} BY <1>7
    <2> QED BY <2>1, <2>2, <2>3
  <1>8. /\ Total(f, T \ {c}) = f[x] + Total(f, (T \ {c}) \ {x})
        /\ Total(f, T \ {x}) = f[c] + Total(f, (T \ {x}) \ {c})
    BY <1>2, <1>3, <1>6, <1>7
  <1>9. (T \ {x}) \ {c} = (T \ {c}) \ {x} OBVIOUS
  <1>10. Total(f, (T \ {c}) \ {x}) \in Int /\ f[c] \in Int /\ f[x] \in Int
    <2>1. (T \ {c}) \ {x} \in SUBSET T OBVIOUS
    <2> QED BY <1>2, <1>3, <1>4, <2>1
  <1> QED BY <1>2, <1>5, <1>8, <1>9, <1>10

(* One more index adds its value.                                           *)
LEMMA TotalAddsOne ==
    ASSUME NEW f, NEW T, IsFiniteSet(T), NEW x, x \notin T,
           \A y \in T \cup {x} : f[y] \in Int
    PROVE  Total(f, T \cup {x}) = f[x] + Total(f, T)
  <1>1. IsFiniteSet(T \cup {x}) BY FS_AddElement
  <1>2. (T \cup {x}) \ {x} = T OBVIOUS
  <1> QED BY <1>1, <1>2, TotalTakesAny
(* A linear bound that holds for every index holds for the sums.            *)
LEMMA TotalsCompare ==
    ASSUME NEW S, IsFiniteSet(S), NEW f, NEW g, NEW h,
           \A x \in S : f[x] \in Int /\ g[x] \in Int /\ h[x] \in Int,
           NEW k \in Int, NEW m \in Int, NEW n \in Int,
           \A x \in S : k * f[x] <= m * g[x] + n * h[x]
    PROVE  k * Total(f, S) <= m * Total(g, S) + n * Total(h, S)
  <1> DEFINE G == {T \in SUBSET S : k * Total(f, T) <= m * Total(g, T) + n * Total(h, T)}
  <1>1. {} \in G BY TotalOfNone
  <1>2. ASSUME NEW T \in SUBSET S, NEW x \in S \ T, T \in G PROVE T \cup {x} \in G
    <2>1. IsFiniteSet(T) BY FS_Subset
    <2>2. Total(f, T) \in Int /\ Total(g, T) \in Int /\ Total(h, T) \in Int
      BY <2>1, TotalType
    <2>3. /\ Total(f, T \cup {x}) = f[x] + Total(f, T)
          /\ Total(g, T \cup {x}) = g[x] + Total(g, T)
          /\ Total(h, T \cup {x}) = h[x] + Total(h, T)
      BY <2>1, TotalAddsOne
    <2>4. \A a, b, c \in Int : a * (b + c) = a * b + a * c OBVIOUS
    <2>5. /\ k * Total(f, T \cup {x}) = k * f[x] + k * Total(f, T)
          /\ m * Total(g, T \cup {x}) = m * g[x] + m * Total(g, T)
          /\ n * Total(h, T \cup {x}) = n * h[x] + n * Total(h, T)
      BY <2>2, <2>3, <2>4
    <2>6. /\ k * Total(f, T) <= m * Total(g, T) + n * Total(h, T)
          /\ k * f[x] <= m * g[x] + n * h[x]
      BY <1>2
    <2>7. \A a, b \in Int : a * b \in Int OBVIOUS
    <2>8. /\ k * f[x] \in Int /\ k * Total(f, T) \in Int
          /\ m * g[x] \in Int /\ m * Total(g, T) \in Int
          /\ n * h[x] \in Int /\ n * Total(h, T) \in Int
      BY <2>2, <2>7
    <2>9. \A a, b, c, d, p, q \in Int : a <= c + p /\ b <= d + q => a + b <= c + d + (p + q)
      OBVIOUS
    <2>10. k * Total(f, T \cup {x}) <= m * Total(g, T \cup {x}) + n * Total(h, T \cup {x})
      <3> DEFINE a == k * Total(f, T)  c == m * Total(g, T)  p == n * Total(h, T)
                 b == k * f[x]  d == m * g[x]  q == n * h[x]
      <3>1. a \in Int /\ b \in Int /\ c \in Int /\ d \in Int /\ p \in Int /\ q \in Int
        BY <2>8
      <3>2. a <= c + p /\ b <= d + q BY <2>6
      <3> HIDE DEF a, b, c, d, p, q
      <3>3. b + a <= (d + c) + (q + p) BY <3>1, <3>2
      <3> QED BY <2>5, <3>3 DEF a, b, c, d, p, q
    <2> QED BY <2>10
  <1>3. S \in G
    <2> HIDE DEF G
    <2> QED BY <1>1, <1>2, SubsetInduction
  <1> QED BY <1>3

(* What is a multiple for every index is one for the sums.                  *)
LEMMA TotalScales ==
    ASSUME NEW S, IsFiniteSet(S), NEW f, NEW g, NEW k \in Int,
           \A x \in S : f[x] \in Int /\ g[x] \in Int /\ f[x] = k * g[x]
    PROVE  Total(f, S) = k * Total(g, S)
  <1>1. Total(f, S) \in Int /\ Total(g, S) \in Int BY TotalType
  <1> DEFINE one == 1  zero == 0
  <1>2. one \in Int /\ zero \in Int OBVIOUS
  <1>3. /\ \A x \in S : one * f[x] <= k * g[x] + zero * g[x]
        /\ \A x \in S : k * g[x] <= one * f[x] + zero * f[x]
    OBVIOUS
  <1>4. /\ one * Total(f, S) <= k * Total(g, S) + zero * Total(g, S)
        /\ k * Total(g, S) <= one * Total(f, S) + zero * Total(f, S)
    <2> HIDE DEF one, zero
    <2>1. one * Total(f, S) <= k * Total(g, S) + zero * Total(g, S)
      BY <1>2, <1>3, TotalsCompare
    <2>2. k * Total(g, S) <= one * Total(f, S) + zero * Total(f, S)
      BY <1>2, <1>3, TotalsCompare
    <2> QED BY <2>1, <2>2
  <1> QED BY <1>1, <1>4

(* Sums of the same values are the same.                                    *)
LEMMA TotalSame ==
    ASSUME NEW S, IsFiniteSet(S), NEW f, NEW g, \A x \in S : g[x] \in Int /\ f[x] = g[x]
    PROVE  Total(f, S) = Total(g, S)
  <1>1. Total(g, S) \in Int BY TotalType
  <1>2. Total(f, S) = 1 * Total(g, S) BY TotalScales
  <1> QED BY <1>1, <1>2

(* The sum over two disjoint sets is that over their union.                 *)
LEMMA TotalOfTwo ==
    ASSUME NEW R, IsFiniteSet(R), NEW S, IsFiniteSet(S), R \cap S = {},
           NEW f, \A x \in R \cup S : f[x] \in Int
    PROVE  Total(f, R \cup S) = Total(f, R) + Total(f, S)
  <1> DEFINE G == {T \in SUBSET S : Total(f, R \cup T) = Total(f, R) + Total(f, T)}
  <1>0. Total(f, R) \in Int BY TotalType
  <1>1. {} \in G
    <2>1. R \cup {} = R OBVIOUS
    <2> QED BY <1>0, <2>1, TotalOfNone
  <1>2. ASSUME NEW T \in SUBSET S, NEW x \in S \ T, T \in G PROVE T \cup {x} \in G
    <2>1. IsFiniteSet(T) /\ IsFiniteSet(R \cup T) BY FS_Subset, FS_Union
    <2>2. Total(f, T) \in Int BY <2>1, TotalType
    <2>3. x \notin R \cup T OBVIOUS
    <2>4. Total(f, (R \cup T) \cup {x}) = f[x] + Total(f, R \cup T)
      BY <2>1, <2>3, TotalAddsOne
    <2>5. Total(f, T \cup {x}) = f[x] + Total(f, T) BY <2>1, TotalAddsOne
    <2>6. (R \cup T) \cup {x} = R \cup (T \cup {x}) OBVIOUS
    <2>7. f[x] \in Int OBVIOUS
    <2>8. Total(f, R \cup T) = Total(f, R) + Total(f, T) BY <1>2
    <2>9. Total(f, R \cup (T \cup {x})) = Total(f, R) + Total(f, T \cup {x})
      <3>1. Total(f, R \cup (T \cup {x})) = f[x] + (Total(f, R) + Total(f, T))
        BY <2>4, <2>6, <2>8, Zenon
      <3>2. f[x] + (Total(f, R) + Total(f, T)) = Total(f, R) + (f[x] + Total(f, T))
        BY <1>0, <2>2, <2>7
      <3> QED BY <2>5, <3>1, <3>2, Zenon
    <2> QED BY <2>9
  <1>3. S \in G
    <2> HIDE DEF G
    <2> QED BY <1>1, <1>2, SubsetInduction
  <1> QED BY <1>3

(* The sums over disjoint groups add up to the sum over all of them.        *)
LEMMA TotalOfGroups ==
    ASSUME NEW S, IsFiniteSet(S), NEW f, \A x \in S : f[x] \in Int,
           NEW B, IsFiniteSet(B), NEW h \in [B -> SUBSET S],
           \A b, c \in B : b # c => h[b] \cap h[c] = {},
           NEW g, \A b \in B : g[b] = Total(f, h[b])
    PROVE  Total(g, B) = Total(f, UNION {h[b] : b \in B})
  <1> DEFINE Of(C) == UNION {h[b] : b \in C}
             G == {C \in SUBSET B : Total(g, C) = Total(f, Of(C))}
  <1>1. {} \in G
    <2>1. Of({}) = {} OBVIOUS
    <2> QED BY <2>1, TotalOfNone
  <1>2. ASSUME NEW C \in SUBSET B, NEW b \in B \ C, C \in G PROVE C \cup {b} \in G
    <2>1. Of(C) \subseteq S /\ h[b] \subseteq S OBVIOUS
    <2>2. IsFiniteSet(C) /\ IsFiniteSet(Of(C)) /\ IsFiniteSet(h[b]) BY <2>1, FS_Subset
    <2>3. Of(C) \cap h[b] = {} OBVIOUS
    <2>4. Of(C \cup {b}) = Of(C) \cup h[b] OBVIOUS
    <2>5. \A c \in B : g[c] \in Int BY FS_Subset, TotalType
    <2>6. Total(g, C \cup {b}) = g[b] + Total(g, C) BY <2>2, <2>5, TotalAddsOne
    <2>7. \A x \in Of(C) \cup h[b] : f[x] \in Int BY <2>1
    <2>8. Total(g, C) = Total(f, Of(C)) BY <1>2
    <2> HIDE DEF Of
    <2>9. Total(f, Of(C) \cup h[b]) = Total(f, Of(C)) + Total(f, h[b])
      BY <2>2, <2>3, <2>7, TotalOfTwo
    <2>10. Total(f, Of(C)) \in Int /\ Total(f, h[b]) \in Int BY <2>2, <2>7, TotalType
    <2>11. g[b] = Total(f, h[b]) OBVIOUS
    <2>12. Total(g, C \cup {b}) = Total(f, Of(C \cup {b}))
      <3>1. Total(f, Of(C \cup {b})) = Total(f, Of(C)) + Total(f, h[b])
        BY <2>4, <2>9, Zenon
      <3>2. Total(g, C \cup {b}) = Total(f, h[b]) + Total(f, Of(C))
        BY <2>6, <2>8, <2>11, Zenon
      <3>3. Total(f, Of(C)) + Total(f, h[b]) = Total(f, h[b]) + Total(f, Of(C))
        BY <2>10
      <3> QED BY <3>1, <3>2, <3>3, Zenon
    <2> QED BY <2>12
  <1>3. B \in G
    <2> HIDE DEF G
    <2> QED BY <1>1, <1>2, SubsetInduction
  <1> QED BY <1>3

(* One for every index counts them.                                         *)
LEMMA TotalCounts ==
    ASSUME NEW S, IsFiniteSet(S), NEW f, \A x \in S : f[x] = 1
    PROVE  Total(f, S) = Cardinality(S)
  <1> DEFINE G == {T \in SUBSET S : Total(f, T) = Cardinality(T)}
  <1>1. {} \in G BY TotalOfNone, FS_EmptySet
  <1>2. ASSUME NEW T \in SUBSET S, NEW x \in S \ T, T \in G PROVE T \cup {x} \in G
    <2>1. IsFiniteSet(T) BY FS_Subset
    <2>2. Total(f, T \cup {x}) = 1 + Total(f, T) BY <2>1, TotalAddsOne
    <2>3. Cardinality(T \cup {x}) = Cardinality(T) + 1 /\ Cardinality(T) \in Nat
      BY <2>1, FS_AddElement, FS_CardinalityType
    <2> QED BY <1>2, <2>2, <2>3
  <1>3. S \in G
    <2> HIDE DEF G
    <2> QED BY <1>1, <1>2, SubsetInduction
  <1> QED BY <1>3

(* A sum of natural numbers is one.                                         *)
LEMMA TotalNatural ==
    ASSUME NEW f, NEW S, IsFiniteSet(S), \A x \in S : f[x] \in Nat
    PROVE  Total(f, S) \in Nat
  <1> DEFINE G == {T \in SUBSET S : Total(f, T) \in Nat}
  <1>1. {} \in G BY TotalOfNone
  <1>2. ASSUME NEW T \in SUBSET S, NEW x \in S \ T, T \in G PROVE T \cup {x} \in G
    <2>1. IsFiniteSet(T) BY FS_Subset
    <2>2. Total(f, T \cup {x}) = f[x] + Total(f, T) BY <2>1, TotalAddsOne
    <2>3. f[x] \in Nat /\ Total(f, T) \in Nat BY <1>2
    <2>4. f[x] + Total(f, T) \in Nat BY <2>3
    <2> QED BY <2>2, <2>4
  <1>3. S \in G
    <2> HIDE DEF G
    <2> QED BY <1>1, <1>2, SubsetInduction
  <1> QED BY <1>3

-----------------------------------------------------------------------------
(* Rounding *)

(* Multiplying by what is not negative keeps an order.                      *)
LEMMA TimesKeepsOrder ==
    ASSUME NEW a \in Int, NEW b \in Int, NEW k \in Nat, a <= b
    PROVE  k * a <= k * b
  <1>1. (b - a) * k >= 0 OBVIOUS
  <1> QED BY <1>1

(* So it does a distance.                                                   *)
LEMMA TimesNear ==
    ASSUME NEW a \in Int, NEW b \in Int, NEW d \in Int, NEW k \in Nat, Apart(a, b, d)
    PROVE  Apart(k * a, k * b, k * d)
  <1>1. a <= b + d /\ b <= a + d /\ b + d \in Int /\ a + d \in Int BY DEF Apart
  <1>2. k * a <= k * (b + d) /\ k * b <= k * (a + d) BY <1>1, TimesKeepsOrder
  <1>3. k * (b + d) = k * b + k * d /\ k * (a + d) = k * a + k * d OBVIOUS
  <1>4. k * a \in Int /\ k * b \in Int /\ k * d \in Int OBVIOUS
  <1> QED BY <1>2, <1>3, <1>4 DEF Apart

(* A common factor that is not zero can be left out.                        *)
LEMMA FactorLeftOut ==
    ASSUME NEW e \in Nat \ {0}, NEW x \in Int, NEW y \in Int, e * x <= e * y
    PROVE  x <= y
  <1> SUFFICES ASSUME y + 1 <= x PROVE FALSE OBVIOUS
  <1>1. e * (y + 1) <= e * x BY TimesKeepsOrder
  <1>2. e * (y + 1) = e * y + e /\ e * y \in Int /\ e * x \in Int OBVIOUS
  <1> QED BY <1>1, <1>2

(* The units are natural numbers and none is zero.                          *)
LEMMA UnitsType ==
    /\ FineQty \in Nat \ {0} /\ FinePrice \in Nat \ {0}
    /\ Unit \in Nat \ {0} /\ Cent \in Nat \ {0}
  <1>1. \A a, b \in Nat \ {0} : a * b \in Nat \ {0}
    <2> SUFFICES ASSUME NEW a \in Nat \ {0}, NEW b \in Nat \ {0} PROVE a * b \in Nat \ {0}
      OBVIOUS
    <2>1. a * 1 <= a * b BY TimesKeepsOrder
    <2> QED BY <2>1
  <1>2. Step \in Nat \ {0} /\ FineQty \in Nat \ {0} /\ FinePrice \in Nat \ {0}
    BY AmountsAssumption
  <1> QED BY <1>1, <1>2 DEF Unit, Cent

(* The decimal module is off by no more than half of what it rounds to.     *)
LEMMA HalfEvenNear ==
    ASSUME NEW n \in Nat, NEW d \in Nat \ {0}
    PROVE  /\ HalfEven(n, d) \in Nat
           /\ Apart(d * (2 * HalfEven(n, d)), 2 * n, d)
  <1> DEFINE f == n \div d  m == n % d
  <1>1. f \in Nat /\ m \in 0..(d - 1) /\ n = d * f + m OBVIOUS
  <1>2. HalfEven(n, d) \in {f, f + 1} BY DEF HalfEven
  <1>3. /\ HalfEven(n, d) = f => 2 * m <= d
        /\ HalfEven(n, d) = f + 1 => 2 * m >= d
    BY <1>1 DEF HalfEven
  <1> HIDE DEF f, m
  <1>4. d * (2 * f) = 2 * (d * f) /\ d * (2 * (f + 1)) = 2 * (d * f) + 2 * d /\ d * f \in Int
    BY <1>1
  <1> QED BY <1>1, <1>2, <1>3, <1>4 DEF Apart

(* So is the database.                                                      *)
LEMMA HalfUpNear ==
    ASSUME NEW n \in Nat, NEW d \in Nat \ {0}
    PROVE  /\ HalfUp(n, d) \in Nat
           /\ Apart(d * (2 * HalfUp(n, d)), 2 * n, d)
  <1> DEFINE e == 2 * d  p == 2 * n + d  f == p \div e  m == p % e
  <1>1. e \in Nat \ {0} /\ p \in Nat OBVIOUS
  <1>2. f \in Nat /\ m \in 0..(e - 1) /\ p = e * f + m
    <2> HIDE DEF e, p
    <2> QED BY <1>1
  <1>3. HalfUp(n, d) = f BY DEF HalfUp
  <1> HIDE DEF f, m
  <1>4. e * f = d * (2 * f) /\ d * (2 * f) \in Int BY <1>2
  <1> QED BY <1>2, <1>3, <1>4 DEF Apart

(* Roundings of two amounts that are close are as close, and one more.      *)
LEMMA HalfEvenClose ==
    ASSUME NEW a \in Nat, NEW b \in Nat, NEW k \in Nat, NEW d \in Nat \ {0},
           Apart(2 * a, 2 * b, k)
    PROVE  Apart(2 * d * HalfEven(a, d), 2 * d * HalfEven(b, d), 2 * d + k)
  <1> DEFINE u == HalfEven(a, d)  v == HalfEven(b, d)
  <1>1. /\ u \in Nat /\ Apart(d * (2 * u), 2 * a, d)
        /\ v \in Nat /\ Apart(d * (2 * v), 2 * b, d)
    BY HalfEvenNear
  <1> HIDE DEF u, v
  <1>2. /\ d * (2 * u) = 2 * d * u /\ d * (2 * v) = 2 * d * v
        /\ 2 * d * u \in Nat /\ 2 * d * v \in Nat
    BY <1>1
  <1>3. Apart(2 * d * u, 2 * d * v, 2 * d + k) BY <1>1, <1>2 DEF Apart
  <1> QED BY <1>3 DEF u, v

(* A bound that holds for every index holds for the sums.                   *)
LEMMA TotalsApart ==
    ASSUME NEW S, IsFiniteSet(S), NEW f, NEW g, NEW h,
           \A x \in S : f[x] \in Int /\ g[x] \in Int /\ h[x] \in Int,
           NEW k \in Int, NEW j \in Int, NEW m \in Int,
           \A x \in S : Apart(k * f[x], j * g[x], m * h[x])
    PROVE  Apart(k * Total(f, S), j * Total(g, S), m * Total(h, S))
  <1>1. /\ Total(f, S) \in Int /\ Total(g, S) \in Int /\ Total(h, S) \in Int
    BY TotalType
  <1>2. \A x \in S : /\ k * f[x] <= j * g[x] + m * h[x]
                     /\ j * g[x] <= k * f[x] + m * h[x]
    <2> SUFFICES ASSUME NEW x \in S
                 PROVE  /\ k * f[x] <= j * g[x] + m * h[x]
                        /\ j * g[x] <= k * f[x] + m * h[x]
      OBVIOUS
    <2>1. k * f[x] \in Int /\ m * h[x] \in Int /\ j * g[x] \in Int OBVIOUS
    <2>2. k * f[x] - j * g[x] <= m * h[x] /\ j * g[x] - k * f[x] <= m * h[x] BY DEF Apart
    <2> QED BY <2>1, <2>2
  <1>3. k * Total(f, S) <= j * Total(g, S) + m * Total(h, S)
    BY <1>2, TotalsCompare
  <1>4. j * Total(g, S) <= k * Total(f, S) + m * Total(h, S)
    BY <1>2, TotalsCompare
  <1>5. k * Total(f, S) \in Int /\ m * Total(h, S) \in Int /\ j * Total(g, S) \in Int
    BY <1>1
  <1> QED BY <1>3, <1>4, <1>5 DEF Apart

-----------------------------------------------------------------------------
(* What is kept *)

Row == [qty : Nat, price : Nat, rate : Nat]

Billed(ls) ==
    [items |-> Items(ls), fee |-> SplitInvoiceAmounts(ls).fee,
     total |-> SplitInvoiceAmounts(ls).total, caterer |-> SplitInvoiceAmounts(ls).caterer]

Kept ==
    /\ form \in Seq(Row) /\ quoted \in Seq(Row)
    /\ Valid(quoted)
    /\ lines = [i \in DOMAIN quoted |-> Stored(quoted[i])]
    /\ total = TotalHT(quoted)
    /\ editor # "closed" => status = "draft"
    /\ status = "billed" => bill = Billed(lines)

(* What the columns keep of a row, and what the editor shows, is a row.     *)
LEMMA StoredIsRow ==
    ASSUME NEW l \in Row
    PROVE  Stored(l) \in Row /\ Shown(l) \in Row
  <1>1. l.qty \in Nat /\ l.price \in Nat BY DEF Row
  <1>2. HalfUp(l.qty, FineQty) \in Nat /\ HalfUp(l.price, FinePrice) \in Nat
    BY <1>1, UnitsType, HalfUpNear
  <1>3. FineQty * HalfUp(l.qty, FineQty) \in Nat /\ FinePrice * HalfUp(l.price, FinePrice) \in Nat
    BY <1>2, UnitsType
  <1>4. Unit \in Nat BY UnitsType
  <1> QED BY <1>3, <1>4 DEF Stored, Shown, Row

LEMMA StoredLines ==
    ASSUME Kept
    PROVE  /\ lines \in Seq(Row) /\ DOMAIN lines = DOMAIN quoted
           /\ DOMAIN lines = 1..Len(quoted)
  <1>1. DOMAIN quoted = 1..Len(quoted) /\ Len(quoted) \in Nat
    BY DEF Kept
  <1>2. \A i \in 1..Len(quoted) : Stored(quoted[i]) \in Row BY <1>1, StoredIsRow DEF Kept
  <1>3. lines = [i \in 1..Len(quoted) |-> Stored(quoted[i])] BY <1>1 DEF Kept
  <1> QED BY <1>1, <1>2, <1>3

LEMMA KeptHolds == Spec => []Kept
  <1>1. Init => Kept
    <2> SUFFICES ASSUME Init PROVE Kept OBVIOUS
    <2>1. TotalHT(<< >>) = 0
      <3>1. DOMAIN << >> = {} OBVIOUS
      <3>2. Sum(<< >>, HT) = Total([i \in {} |-> HT(<< >>[i])], {})
        BY <3>1 DEF Sum, SumOver, SumFunction, Total
      <3>3. Sum(<< >>, HT) = 0 BY <3>2, TotalOfNone
      <3>4. HalfEven(0, Cent) = 0
        <4> DEFINE e == Cent
        <4>1. e \in Nat \ {0} BY UnitsType
        <4> HIDE DEF e
        <4>2. HalfEven(0, e) \in Nat /\ Apart(e * (2 * HalfEven(0, e)), 2 * 0, e)
          BY <4>1, HalfEvenNear
        <4>3. e * (2 * HalfEven(0, e)) <= e * 1 BY <4>1, <4>2 DEF Apart
        <4>4. 2 * HalfEven(0, e) <= 1 BY <4>1, <4>2, <4>3, FactorLeftOut
        <4> QED BY <4>2, <4>4 DEF e
      <3> QED BY <3>3, <3>4 DEF TotalHT
    <2> QED BY <2>1 DEF Init, Kept, Valid
  <1>2. Kept /\ [Next]_vars => Kept'
    <2> SUFFICES ASSUME Kept, [Next]_vars PROVE Kept' OBVIOUS
    <2> DEFINE Saved == UNCHANGED <<lines, total, quoted>>
    <2>1. CASE UNCHANGED vars BY <2>1 DEF vars, Kept
    <2>2. CASE OpenEditor
      <3>1. form' \in Seq(Row)
        <4>1. lines \in Seq(Row) BY StoredLines
        <4>2. \A i \in DOMAIN lines : Shown(lines[i]) \in Row BY <4>1, StoredIsRow
        <4>3. DOMAIN lines = 1..Len(lines) /\ Len(lines) \in Nat BY <4>1
        <4>4. form' = [i \in 1..Len(lines) |-> Shown(lines[i])] BY <2>2, <4>3 DEF OpenEditor
        <4> QED BY <4>2, <4>3, <4>4
      <3> QED BY <2>2, <3>1 DEF OpenEditor, Kept
    <2>3. ASSUME NEW l \in Line, AddLine(l) PROVE Kept'
      <3>1. l \in Row BY AmountsAssumption DEF Line, Row
      <3>2. form' \in Seq(Row) BY <2>3, <3>1 DEF AddLine, Kept
      <3> QED BY <2>3, <3>2 DEF AddLine, Kept
    <2>4. ASSUME NEW i \in DOMAIN form, RemoveLine(i) PROVE Kept'
      <3>1. /\ form \in Seq(Row) /\ Len(form) \in Nat /\ DOMAIN form = 1..Len(form)
            /\ i \in 1..Len(form)
        BY DEF Kept
      <3>2. \A j \in 1..(Len(form) - 1) :
              (IF j < i THEN form[j] ELSE form[j + 1]) \in Row
        BY <3>1
      <3>3. form' \in Seq(Row) BY <2>4, <3>1, <3>2 DEF RemoveLine
      <3> QED BY <2>4, <3>3 DEF RemoveLine, Kept
    <2>5. CASE SaveQuote
      <3>1. form' \in Seq(Row) BY <2>5 DEF SaveQuote
      <3>2. editor # "closed" => status = "draft" BY DEF Kept
      <3> QED BY <2>5, <3>1, <3>2 DEF SaveQuote, SavedTotal, Kept, Valid
    <2>6. CASE SendQuote BY <2>6 DEF SendQuote, Kept
    <2>7. CASE CreateInvoice BY <2>7 DEF CreateInvoice, Kept, Billed
    <2> QED BY <2>1, <2>2, <2>3, <2>4, <2>5, <2>6, <2>7 DEF Next
  <1> QED BY <1>1, <1>2, PTL DEF Spec
-----------------------------------------------------------------------------
(* The amounts of a line are numbers, and so are the sums.                  *)
LEMMA AmountTypes ==
    ASSUME NEW ls \in Seq(Row)
    PROVE  /\ IsFiniteSet(DOMAIN ls)
           /\ \A i \in DOMAIN ls : HT(ls[i]) \in Nat /\ VAT(ls[i]) \in Nat
  <1>1. \A a, b \in Nat : a * b \in Nat OBVIOUS
  <1>2. DOMAIN ls = 1..Len(ls) /\ Len(ls) \in Nat OBVIOUS
  <1>3. \A i \in DOMAIN ls : ls[i] \in Row OBVIOUS
  <1>4. IsFiniteSet(DOMAIN ls)
    <2>1. 1 \in Int /\ Len(ls) \in Int BY <1>2
    <2> QED BY <1>2, <2>1, FS_Interval
  <1>5. ASSUME NEW i \in DOMAIN ls PROVE HT(ls[i]) \in Nat /\ VAT(ls[i]) \in Nat
    <2>1. ls[i].qty \in Nat /\ ls[i].price \in Nat /\ ls[i].rate \in Nat
      BY <1>3 DEF Row
    <2> QED BY <1>1, <2>1 DEF HT, VAT
  <1> QED BY <1>4, <1>5

(* A sum over the lines of a quote is a total of its values.                *)
LEMMA SumIsTotal ==
    ASSUME NEW ls
    PROVE  /\ Sum(ls, HT) = Total([i \in DOMAIN ls |-> HT(ls[i])], DOMAIN ls)
           /\ Sum(ls, VAT) = Total([i \in DOMAIN ls |-> VAT(ls[i])], DOMAIN ls)
  BY DEF Sum, SumOver, SumFunction, Total

(* A quantity times a price, before and after their columns.                *)
LEMMA StoredNear ==
    ASSUME NEW l \in Row
    PROVE  /\ HT(Stored(l)) \in Nat /\ Loss(l) \in Nat
           /\ Apart(2 * HT(l), 2 * HT(Stored(l)), Loss(l))
  <1> DEFINE q == l.qty  p == l.price
             s == HalfUp(q, FineQty)  c == HalfUp(p, FinePrice)
             u == FineQty * s  v == FinePrice * c
             a == IF v = p THEN 0 ELSE q * FinePrice
             b == IF u = q THEN 0 ELSE v * FineQty
  <1>1. q \in Nat /\ p \in Nat /\ FineQty \in Nat \ {0} /\ FinePrice \in Nat \ {0}
    BY UnitsType DEF Row
  <1>2. HT(l) = q * p /\ HT(Stored(l)) = u * v /\ Loss(l) = a + b
    BY DEF HT, Stored, Loss, Row
  <1> HIDE DEF q, p
  <1>3. /\ s \in Nat /\ Apart(FineQty * (2 * s), 2 * q, FineQty)
        /\ c \in Nat /\ Apart(FinePrice * (2 * c), 2 * p, FinePrice)
    BY <1>1, HalfUpNear
  <1> HIDE DEF s, c
  <1>4. /\ u \in Nat /\ v \in Nat
        /\ FineQty * (2 * s) = 2 * u /\ FinePrice * (2 * c) = 2 * v
    BY <1>1, <1>3
  <1>5. Apart(2 * u, 2 * q, FineQty) /\ Apart(2 * v, 2 * p, FinePrice)
    BY <1>3, <1>4
  <1> HIDE DEF u, v
  <1>6. a \in Nat /\ b \in Nat BY <1>1, <1>4
  <1>7. Apart(q * (2 * v), q * (2 * p), a)
    <2>1. CASE v = p BY <1>1, <2>1 DEF Apart
    <2>2. CASE v # p
      <3> DEFINE x == 2 * v  y == 2 * p
      <3>1. x \in Int /\ y \in Int /\ Apart(x, y, FinePrice) BY <1>1, <1>4, <1>5
      <3> HIDE DEF x, y
      <3>2. Apart(q * x, q * y, q * FinePrice) BY <1>1, <3>1, TimesNear
      <3> QED BY <2>2, <3>2 DEF x, y
    <2> QED BY <2>1, <2>2
  <1>8. Apart(v * (2 * u), v * (2 * q), b)
    <2>1. CASE u = q BY <1>1, <1>4, <2>1 DEF Apart
    <2>2. CASE u # q
      <3> DEFINE x == 2 * u  y == 2 * q
      <3>1. x \in Int /\ y \in Int /\ Apart(x, y, FineQty) BY <1>1, <1>4, <1>5
      <3> HIDE DEF x, y
      <3>2. Apart(v * x, v * y, v * FineQty) BY <1>1, <1>4, <3>1, TimesNear
      <3> QED BY <2>2, <3>2 DEF x, y
    <2> QED BY <2>1, <2>2
  <1> HIDE DEF a, b
  <1>9. /\ q * (2 * v) = v * (2 * q) /\ q * (2 * p) = 2 * (q * p) /\ v * (2 * u) = 2 * (u * v)
        /\ v * (2 * q) \in Nat /\ q * p \in Nat /\ u * v \in Nat
    BY <1>1, <1>4
  <1>10. Apart(2 * (q * p), 2 * (u * v), a + b) BY <1>6, <1>7, <1>8, <1>9 DEF Apart
  <1> QED BY <1>2, <1>6, <1>9, <1>10

(* TotalIsOfTheLines: the total is computed from the rows as they were      *)
(* sent, the columns round quantities and prices; what that can change is   *)
(* what each rounded row can lose, and a cent when any is rounded.          *)
THEOREM TotalFollowsTheLines == Spec => []TotalIsOfTheLines
  <1>1. Kept => TotalIsOfTheLines
    <2> SUFFICES ASSUME Kept PROVE TotalIsOfTheLines OBVIOUS
    <2> DEFINE S == DOMAIN quoted
               f == [i \in S |-> HT(quoted[i])]
               g == [i \in S |-> HT(lines[i])]
               h == [i \in S |-> Loss(quoted[i])]
    <2>1. DOMAIN lines = S /\ \A i \in S : lines[i] = Stored(quoted[i])
      BY DEF Kept
    <2>2. \A i \in S : quoted[i] \in Row BY DEF Kept
    <2>3. IsFiniteSet(S) BY AmountTypes DEF Kept
    <2>4. Sum(quoted, HT) = Total(f, S) /\ Sum(lines, HT) = Total(g, S)
      BY <2>1, SumIsTotal
    <2>5. Sum(quoted, Loss) = Total(h, S)
      BY DEF Sum, SumOver, SumFunction, Total
    <2>6. total = HalfEven(Total(f, S), Cent) /\ TotalHT(lines) = HalfEven(Total(g, S), Cent)
      BY <2>4 DEF Kept, TotalHT
    <2>7. (\A i \in S : Stored(quoted[i]) = quoted[i]) => total = TotalHT(lines)
      <3> SUFFICES ASSUME \A i \in S : Stored(quoted[i]) = quoted[i] PROVE f = g
        BY <2>6
      <3> QED BY <2>1
    <2>8. \A i \in S : /\ f[i] \in Nat /\ g[i] \in Nat /\ h[i] \in Nat
                       /\ Apart(2 * f[i], 2 * g[i], h[i])
      <3> SUFFICES ASSUME NEW i \in S
                   PROVE  /\ f[i] \in Nat /\ g[i] \in Nat /\ h[i] \in Nat
                          /\ Apart(2 * f[i], 2 * g[i], h[i])
        OBVIOUS
      <3>1. f[i] = HT(quoted[i]) /\ g[i] = HT(Stored(quoted[i])) /\ h[i] = Loss(quoted[i])
        BY <2>1
      <3>2. quoted[i] \in Row BY <2>2
      <3>3. HT(quoted[i]) \in Nat BY AmountTypes DEF Kept
      <3> QED BY <3>1, <3>2, <3>3, StoredNear
    <2> HIDE DEF f, g, h, S
    <2>9. Total(f, S) \in Nat /\ Total(g, S) \in Nat /\ Total(h, S) \in Nat
      BY <2>3, <2>8, TotalNatural
    <2>10. Apart(2 * Total(f, S), 2 * Total(g, S), Total(h, S))
      <3> DEFINE one == 1  two == 2
      <3>1. one \in Int /\ two \in Int OBVIOUS
      <3>2. \A i \in S : /\ f[i] \in Int /\ g[i] \in Int /\ h[i] \in Int
                         /\ Apart(two * f[i], two * g[i], one * h[i])
        BY <2>8 DEF Apart
      <3>3. Apart(two * Total(f, S), two * Total(g, S), one * Total(h, S))
        <4> HIDE DEF one, two
        <4> QED BY <2>3, <3>1, <3>2, TotalsApart
      <3> QED BY <2>9, <3>3 DEF Apart
    <2>11. Apart(2 * Cent * HalfEven(Total(f, S), Cent), 2 * Cent * HalfEven(Total(g, S), Cent),
                 2 * Cent + Total(h, S))
      BY <2>9, <2>10, UnitsType, HalfEvenClose
    <2>12. Apart(2 * Cent * total, 2 * Cent * TotalHT(lines), 2 * Cent + Sum(quoted, Loss))
      BY <2>5, <2>6, <2>11
    <2> QED BY <2>7, <2>12 DEF TotalIsOfTheLines, S
  <1> QED BY <1>1, KeptHolds, PTL
-----------------------------------------------------------------------------
(* The items of the Stripe invoice *)

HTs(ls) == [i \in DOMAIN ls |-> HT(ls[i])]

(* what a line costs with its tax, in the unit of its VAT *)
TTCs(ls) == [i \in DOMAIN ls |-> 1000 * HT(ls[i]) + VAT(ls[i])]

OfItem(f, ls) == [b \in Items(ls) |-> Total(f, OfRate(ls, b.rate))]

Cents(ls) == [b \in Items(ls) |-> b.cents]

Charged(ls) == [b \in Items(ls) |-> b.cents + HalfUp(b.cents * b.rate, 1000)]

(* Sums of sums.                                                            *)
LEMMA TotalAdds ==
    ASSUME NEW S, IsFiniteSet(S), NEW f, NEW g, NEW h, NEW k \in Int,
           \A x \in S : /\ f[x] \in Int /\ g[x] \in Int /\ h[x] \in Int
                        /\ f[x] = k * g[x] + h[x]
    PROVE  Total(f, S) = k * Total(g, S) + Total(h, S)
  <1> DEFINE one == 1  less == -1
  <1>1. one \in Int /\ less \in Int OBVIOUS
  <1>2. Total(f, S) \in Int /\ Total(g, S) \in Int /\ Total(h, S) \in Int BY TotalType
  <1>3. /\ \A x \in S : one * f[x] <= k * g[x] + one * h[x]
        /\ \A x \in S : k * g[x] <= one * f[x] + less * h[x]
    <2> SUFFICES ASSUME NEW x \in S
                 PROVE  /\ one * f[x] <= k * g[x] + one * h[x]
                        /\ k * g[x] <= one * f[x] + less * h[x]
      OBVIOUS
    <2>1. k * g[x] \in Int OBVIOUS
    <2> QED BY <2>1
  <1>4. /\ one * Total(f, S) <= k * Total(g, S) + one * Total(h, S)
        /\ k * Total(g, S) <= one * Total(f, S) + less * Total(h, S)
    <2> HIDE DEF one, less
    <2>1. one * Total(f, S) <= k * Total(g, S) + one * Total(h, S)
      BY <1>1, <1>3, TotalsCompare
    <2>2. k * Total(g, S) <= one * Total(f, S) + less * Total(h, S)
      BY <1>1, <1>3, TotalsCompare
    <2> QED BY <2>1, <2>2
  <1>5. k * Total(g, S) \in Int BY <1>2
  <1> QED BY <1>2, <1>4, <1>5

(* There is one item for each rate of a line, with the lines of that rate.  *)
LEMMA ItemsGroup ==
    ASSUME NEW ls \in Seq(Row)
    PROVE  /\ IsFiniteSet(Items(ls))
           /\ \A b, c \in Items(ls) : b # c => OfRate(ls, b.rate) \cap OfRate(ls, c.rate) = {}
           /\ UNION {OfRate(ls, b.rate) : b \in Items(ls)} = DOMAIN ls
           /\ \A b \in Items(ls) : /\ OfRate(ls, b.rate) \subseteq DOMAIN ls
                                   /\ b.cents = HalfEven(Total(HTs(ls), OfRate(ls, b.rate)), Cent)
                                   /\ \E i \in DOMAIN ls : b.rate = ls[i].rate
  <1> DEFINE item(r) == [rate |-> r, cents |-> HalfEven(GroupHT(ls, r), Cent)]
             it == [i \in DOMAIN ls |-> item(ls[i].rate)]
  <1>1. Items(ls) = {it[i] : i \in DOMAIN ls}
    <2>1. Items(ls) = {item(r) : r \in {ls[i].rate : i \in DOMAIN ls}} BY DEF Items
    <2> QED BY <2>1
  <1>2. IsFiniteSet(Items(ls))
    <2>1. IsFiniteSet(DOMAIN ls) BY AmountTypes
    <2>2. it \in Surjection(DOMAIN ls, Items(ls)) BY <1>1 DEF Surjection
    <2> QED BY <2>1, <2>2, FS_Surjection
  <1>3. \A i \in DOMAIN ls : it[i].rate = ls[i].rate /\ it[i] = item(it[i].rate) OBVIOUS
  <1>4. \A b \in Items(ls) : b = item(b.rate) BY <1>1, <1>3
  <1>5. \A b, c \in Items(ls) : b # c => OfRate(ls, b.rate) \cap OfRate(ls, c.rate) = {}
    BY <1>4 DEF OfRate
  <1>6. UNION {OfRate(ls, b.rate) : b \in Items(ls)} = DOMAIN ls
    <2>1. \A i \in DOMAIN ls : it[i] \in Items(ls) /\ i \in OfRate(ls, it[i].rate)
      BY <1>1, <1>3 DEF OfRate
    <2> HIDE DEF it
    <2>2. \A b : OfRate(ls, b.rate) \subseteq DOMAIN ls BY DEF OfRate
    <2> QED BY <2>1, <2>2
  <1>7. ASSUME NEW b \in Items(ls)
        PROVE  /\ OfRate(ls, b.rate) \subseteq DOMAIN ls
               /\ b.cents = HalfEven(Total(HTs(ls), OfRate(ls, b.rate)), Cent)
               /\ \E i \in DOMAIN ls : b.rate = ls[i].rate
    <2> DEFINE T == OfRate(ls, b.rate)  f == [i \in T |-> HT(ls[i])]
    <2>1. T \subseteq DOMAIN ls BY DEF OfRate
    <2>2. b.cents = HalfEven(GroupHT(ls, b.rate), Cent) BY <1>4
    <2>3. GroupHT(ls, b.rate) = Total(f, T) BY DEF GroupHT, SumOver, SumFunction, Total
    <2>4. IsFiniteSet(T) BY <2>1, AmountTypes, FS_Subset
    <2>5. \A i \in T : HTs(ls)[i] \in Int /\ f[i] = HTs(ls)[i]
      BY <2>1, AmountTypes DEF HTs
    <2> HIDE DEF T, f
    <2>6. Total(f, T) = Total(HTs(ls), T) BY <2>4, <2>5, TotalSame
    <2> QED BY <1>1, <1>3, <2>1, <2>2, <2>3, <2>6 DEF T
  <1> QED BY <1>2, <1>5, <1>6, <1>7

(* What the items stand for adds up to what the lines do.                   *)
LEMMA ItemsAddUp ==
    ASSUME NEW ls \in Seq(Row), NEW f, \A i \in DOMAIN ls : f[i] \in Int
    PROVE  Total(OfItem(f, ls), Items(ls)) = Total(f, DOMAIN ls)
  <1> DEFINE B == Items(ls)  S == DOMAIN ls  h == [b \in B |-> OfRate(ls, b.rate)]
  <1>1. IsFiniteSet(B) /\ IsFiniteSet(S) BY ItemsGroup, AmountTypes
  <1>2. h \in [B -> SUBSET S] BY ItemsGroup
  <1>3. \A b, c \in B : b # c => h[b] \cap h[c] = {} BY ItemsGroup
  <1>4. \A b \in B : OfItem(f, ls)[b] = Total(f, h[b]) BY DEF OfItem
  <1>5. UNION {h[b] : b \in B} = S
    <2>1. {h[b] : b \in B} = {OfRate(ls, b.rate) : b \in B} OBVIOUS
    <2> QED BY <2>1, ItemsGroup
  <1>6. \A i \in S : f[i] \in Int OBVIOUS
  <1> HIDE DEF B, S, h
  <1>7. Total(OfItem(f, ls), B) = Total(f, UNION {h[b] : b \in B})
    BY <1>1, <1>2, <1>3, <1>4, <1>6, TotalOfGroups
  <1> QED BY <1>5, <1>7 DEF B, S

(* how far an item of c cents is from the amount n it stands for *)
NearItem(c, r, n) ==
    /\ c + HalfUp(c * r, 1000) \in Nat /\ 1000 * n + n * r \in Nat
    /\ Apart((2 * Cent) * c, 2 * n, Cent)
    /\ Apart((2000 * Cent) * (c + HalfUp(c * r, 1000)), 2 * (1000 * n + n * r), 3000 * Cent)

(* The rounding of one item, in its cents and in what it costs with tax.    *)
LEMMA ItemNear ==
    ASSUME NEW r \in 0..1000, NEW n \in Nat
    PROVE  NearItem(HalfEven(n, Cent), r, n)
  <1> DEFINE e == Cent  c == HalfEven(n, e)  w == HalfUp(c * r, 1000)
  <1>0. e \in Nat \ {0} BY UnitsType
  <1> HIDE DEF e
  <1>1. c \in Nat /\ Apart(e * (2 * c), 2 * n, e) BY <1>0, HalfEvenNear
  <1> HIDE DEF c
  <1>2. c * r \in Nat BY <1>1
  <1>3. w \in Nat /\ Apart(1000 * (2 * w), 2 * (c * r), 1000)
    <2>1. 1000 \in Nat \ {0} OBVIOUS
    <2> QED BY <1>2, <2>1, HalfUpNear
  <1> HIDE DEF w
  <1>4. Apart(r * (e * (2 * c)), r * (2 * n), r * e)
    <2> DEFINE x == e * (2 * c)  y == 2 * n
    <2>1. x \in Int /\ y \in Int /\ Apart(x, y, e) BY <1>0, <1>1
    <2> HIDE DEF x, y
    <2>2. Apart(r * x, r * y, r * e) BY <1>0, <2>1, TimesNear
    <2> QED BY <2>2 DEF x, y
  <1>5. Apart(e * (1000 * (2 * w)), e * (2 * (c * r)), e * 1000)
    <2> DEFINE x == 1000 * (2 * w)  y == 2 * (c * r)  d == 1000
    <2>1. x \in Int /\ y \in Int /\ d \in Int /\ Apart(x, y, d) BY <1>2, <1>3
    <2> HIDE DEF x, y, d
    <2>2. Apart(e * x, e * y, e * d) BY <1>0, <2>1, TimesNear
    <2> QED BY <2>2 DEF x, y, d
  <1>6. r * e <= 1000 * e
    <2>1. e * r <= e * 1000 BY <1>0, TimesKeepsOrder
    <2> QED BY <1>0, <2>1
  <1> DEFINE ec == e * c  ew == e * w  ecr == e * (c * r)  nr == n * r  re == r * e
  <1>7. /\ e * (2 * c) = 2 * ec /\ r * (e * (2 * c)) = 2 * ecr /\ r * (2 * n) = 2 * nr
        /\ e * (1000 * (2 * w)) = 2000 * ew /\ e * (2 * (c * r)) = 2 * ecr
        /\ (2 * e) * c = 2 * ec /\ (2000 * e) * (c + w) = 2000 * ec + 2000 * ew
        /\ ec \in Nat /\ ew \in Nat /\ ecr \in Nat /\ nr \in Nat /\ re \in Nat
    BY <1>0, <1>1, <1>3
  <1>8. /\ Apart(2 * ec, 2 * n, e) /\ Apart(2 * ecr, 2 * nr, re)
        /\ Apart(2000 * ew, 2 * ecr, e * 1000) /\ re <= 1000 * e
    BY <1>1, <1>4, <1>5, <1>6, <1>7
  <1>9. /\ (2 * e) * c = 2 * ec /\ (2000 * e) * (c + w) = 2000 * ec + 2000 * ew
        /\ ec \in Nat /\ ew \in Nat /\ ecr \in Nat /\ nr \in Nat /\ re \in Nat
    BY <1>7
  <1> HIDE DEF ec, ew, ecr, nr, re
  <1>10. Apart(2000 * ec + 2000 * ew, 2 * (1000 * n + nr), 3000 * e)
    BY <1>0, <1>8, <1>9 DEF Apart
  <1>11. Apart((2000 * e) * (c + w), 2 * (1000 * n + n * r), 3000 * e)
    BY <1>9, <1>10 DEF nr
  <1>12. Apart((2 * e) * c, 2 * n, e) BY <1>8, <1>9
  <1>13. c + w \in Nat /\ 1000 * n + n * r \in Nat
    BY <1>1, <1>3, <1>9 DEF nr
  <1> QED BY <1>11, <1>12, <1>13 DEF c, w, e, NearItem

(* The tax of the lines of one item is that of their sum.                   *)
LEMMA ItemTax ==
    ASSUME NEW ls \in Seq(Row), NEW b \in Items(ls)
    PROVE  /\ OfItem(HTs(ls), ls)[b] \in Nat
           /\ OfItem(TTCs(ls), ls)[b]
                = 1000 * OfItem(HTs(ls), ls)[b] + OfItem(HTs(ls), ls)[b] * b.rate
           /\ b.rate \in Nat
  <1> DEFINE T == OfRate(ls, b.rate)
  <1>1. T \subseteq DOMAIN ls /\ IsFiniteSet(T)
    BY ItemsGroup, AmountTypes, FS_Subset
  <1>2. b.rate \in Nat
    <2>1. PICK i \in DOMAIN ls : b.rate = ls[i].rate BY ItemsGroup
    <2>2. ls[i] \in Row OBVIOUS
    <2> QED BY <2>1, <2>2 DEF Row
  <1>3. ASSUME NEW i \in T
        PROVE  /\ HTs(ls)[i] \in Nat /\ TTCs(ls)[i] \in Int
               /\ TTCs(ls)[i] = (1000 + b.rate) * HTs(ls)[i]
    <2>1. i \in DOMAIN ls /\ ls[i].rate = b.rate BY DEF OfRate
    <2>2. HT(ls[i]) \in Nat BY <2>1, AmountTypes
    <2>3. HTs(ls)[i] = HT(ls[i]) /\ TTCs(ls)[i] = 1000 * HT(ls[i]) + HT(ls[i]) * b.rate
      BY <2>1 DEF HTs, TTCs, VAT
    <2> QED BY <1>2, <2>2, <2>3
  <1> HIDE DEF T
  <1>4. Total(HTs(ls), T) \in Nat BY <1>1, <1>3, TotalNatural
  <1>5. Total(TTCs(ls), T) = (1000 + b.rate) * Total(HTs(ls), T)
    <2> DEFINE k == 1000 + b.rate
    <2>1. k \in Int BY <1>2
    <2>2. \A i \in T : TTCs(ls)[i] \in Int /\ HTs(ls)[i] \in Int
                       /\ TTCs(ls)[i] = k * HTs(ls)[i]
      BY <1>3
    <2> HIDE DEF k
    <2>3. Total(TTCs(ls), T) = k * Total(HTs(ls), T) BY <1>1, <2>1, <2>2, TotalScales
    <2> QED BY <2>3 DEF k
  <1>6. (1000 + b.rate) * Total(HTs(ls), T)
          = 1000 * Total(HTs(ls), T) + Total(HTs(ls), T) * b.rate
    BY <1>2, <1>4
  <1> QED BY <1>2, <1>4, <1>5, <1>6 DEF OfItem, T

(* The items together: what was rounded item by item is apart from what was *)
(* not by half a cent an item before tax, and a cent and a half after it.   *)
LEMMA ItemsNear ==
    ASSUME NEW ls \in Seq(Row), Valid(ls)
    PROVE  /\ Total(Cents(ls), Items(ls)) \in Nat /\ Total(Charged(ls), Items(ls)) \in Nat
           /\ Sum(ls, HT) \in Nat /\ 1000 * Sum(ls, HT) + Sum(ls, VAT) \in Nat
           /\ Apart((2 * Cent) * Total(Cents(ls), Items(ls)), 2 * Sum(ls, HT),
                    Cent * Cardinality(Items(ls)))
           /\ Apart((2000 * Cent) * Total(Charged(ls), Items(ls)),
                    2 * (1000 * Sum(ls, HT) + Sum(ls, VAT)),
                    (3000 * Cent) * Cardinality(Items(ls)))
  <1> DEFINE B == Items(ls)  S == DOMAIN ls
             G == OfItem(HTs(ls), ls)  E == OfItem(TTCs(ls), ls)
             once == [b \in B |-> 1]
             VATs == [i \in S |-> VAT(ls[i])]
  <1>1. IsFiniteSet(B) /\ IsFiniteSet(S) BY ItemsGroup, AmountTypes
  <1>2. \A i \in S : /\ HTs(ls)[i] \in Nat /\ VATs[i] \in Nat /\ TTCs(ls)[i] \in Nat
                     /\ TTCs(ls)[i] = 1000 * HTs(ls)[i] + VATs[i]
    BY AmountTypes DEF HTs, TTCs
  <1>3. Sum(ls, HT) = Total(HTs(ls), S) /\ Sum(ls, VAT) = Total(VATs, S)
    BY SumIsTotal DEF HTs
  <1>4. Total(TTCs(ls), S) = 1000 * Sum(ls, HT) + Sum(ls, VAT)
    <2> DEFINE k == 1000
    <2>1. k \in Int OBVIOUS
    <2>2. \A i \in S : /\ TTCs(ls)[i] \in Int /\ HTs(ls)[i] \in Int /\ VATs[i] \in Int
                       /\ TTCs(ls)[i] = k * HTs(ls)[i] + VATs[i]
      BY <1>2
    <2> HIDE DEF k, VATs, S
    <2>3. Total(TTCs(ls), S) = k * Total(HTs(ls), S) + Total(VATs, S)
      BY <1>1, <2>1, <2>2, TotalAdds
    <2> QED BY <1>3, <2>3 DEF k
  <1>5. Total(HTs(ls), S) \in Nat /\ Total(TTCs(ls), S) \in Nat
    <2> HIDE DEF VATs, S
    <2> QED BY <1>1, <1>2, TotalNatural
  <1>6. Total(G, B) = Total(HTs(ls), S) /\ Total(E, B) = Total(TTCs(ls), S)
    <2> HIDE DEF VATs
    <2>1. \A i \in S : HTs(ls)[i] \in Int /\ TTCs(ls)[i] \in Int BY <1>2
    <2> QED BY <2>1, ItemsAddUp
  <1>7. Total(once, B) = Cardinality(B)
    <2>1. \A b \in B : once[b] = 1 OBVIOUS
    <2> HIDE DEF once, B
    <2> QED BY <1>1, <2>1, TotalCounts
  <1>8. ASSUME NEW b \in B
        PROVE  /\ Cents(ls)[b] \in Nat /\ Charged(ls)[b] \in Nat
               /\ G[b] \in Nat /\ E[b] \in Nat /\ once[b] \in Int
               /\ Apart((2 * Cent) * Cents(ls)[b], 2 * G[b], Cent * once[b])
               /\ Apart((2000 * Cent) * Charged(ls)[b], 2 * E[b], (3000 * Cent) * once[b])
    <2>1. b.rate \in 0..1000
      <3>1. PICK i \in S : b.rate = ls[i].rate BY ItemsGroup
      <3> QED BY <3>1, AmountsAssumption DEF Valid
    <2>2. G[b] \in Nat /\ E[b] = 1000 * G[b] + G[b] * b.rate BY ItemTax
    <2>3. b.cents = HalfEven(G[b], Cent) BY ItemsGroup DEF OfItem
    <2>4. b.cents \in Nat
      <3> HIDE DEF G
      <3> QED BY <2>2, <2>3, UnitsType, HalfEvenNear
    <2>5. Cents(ls)[b] = b.cents /\ Charged(ls)[b] = b.cents + HalfUp(b.cents * b.rate, 1000)
      BY DEF Cents, Charged
    <2>6. once[b] = 1 OBVIOUS
    <2> HIDE DEF G, E, once, B
    <2>7. /\ b.cents + HalfUp(b.cents * b.rate, 1000) \in Nat
          /\ 1000 * G[b] + G[b] * b.rate \in Nat
          /\ Apart((2 * Cent) * b.cents, 2 * G[b], Cent)
          /\ Apart((2000 * Cent) * (b.cents + HalfUp(b.cents * b.rate, 1000)),
                   2 * (1000 * G[b] + G[b] * b.rate), 3000 * Cent)
      <3>1. G[b] \in Nat BY <2>2
      <3>2. NearItem(HalfEven(G[b], Cent), b.rate, G[b]) BY <2>1, <3>1, ItemNear
      <3>3. NearItem(b.cents, b.rate, G[b]) BY <2>3, <3>2
      <3> QED BY <3>3 DEF NearItem
    <2>8. Cent * once[b] = Cent /\ (3000 * Cent) * once[b] = 3000 * Cent /\ once[b] \in Int
      BY <2>6, UnitsType
    <2> QED BY <2>2, <2>4, <2>5, <2>7, <2>8
  <1> HIDE DEF B, S, G, E, once, VATs
  <1>9. Total(Cents(ls), B) \in Nat /\ Total(Charged(ls), B) \in Nat
    BY <1>1, <1>8, TotalNatural
  <1>10. Apart((2 * Cent) * Total(Cents(ls), B), 2 * Total(G, B), Cent * Total(once, B))
    <2> DEFINE k == 2 * Cent  j == 2  m == Cent
    <2>1. k \in Int /\ j \in Int /\ m \in Int BY UnitsType
    <2>2. \A b \in B : /\ Cents(ls)[b] \in Int /\ G[b] \in Int /\ once[b] \in Int
                       /\ Apart(k * Cents(ls)[b], j * G[b], m * once[b])
      BY <1>8
    <2> HIDE DEF k, j, m
    <2>3. Apart(k * Total(Cents(ls), B), j * Total(G, B), m * Total(once, B))
      BY <1>1, <2>1, <2>2, TotalsApart
    <2> QED BY <2>3 DEF k, j, m
  <1>11. Apart((2000 * Cent) * Total(Charged(ls), B), 2 * Total(E, B),
               (3000 * Cent) * Total(once, B))
    <2> DEFINE k == 2000 * Cent  j == 2  m == 3000 * Cent
    <2>1. k \in Int /\ j \in Int /\ m \in Int BY UnitsType
    <2>2. \A b \in B : /\ Charged(ls)[b] \in Int /\ E[b] \in Int /\ once[b] \in Int
                       /\ Apart(k * Charged(ls)[b], j * E[b], m * once[b])
      BY <1>8
    <2> HIDE DEF k, j, m
    <2>3. Apart(k * Total(Charged(ls), B), j * Total(E, B), m * Total(once, B))
      BY <1>1, <2>1, <2>2, TotalsApart
    <2> QED BY <2>3 DEF k, j, m
  <1> QED BY <1>3, <1>4, <1>5, <1>6, <1>7, <1>9, <1>10, <1>11 DEF B

(* No item, no line.                                                        *)
LEMMA NoItems ==
    ASSUME NEW ls \in Seq(Row), Cardinality(Items(ls)) = 0
    PROVE  /\ Sum(ls, HT) = 0 /\ Sum(ls, VAT) = 0
           /\ Total(Cents(ls), Items(ls)) = 0 /\ Total(Charged(ls), Items(ls)) = 0
  <1>1. Items(ls) = {} BY ItemsGroup, FS_EmptySet
  <1>2. DOMAIN ls = {}
    <2>1. UNION {OfRate(ls, b.rate) : b \in Items(ls)} = DOMAIN ls BY ItemsGroup
    <2>2. {OfRate(ls, b.rate) : b \in Items(ls)} = {} BY <1>1
    <2> QED BY <2>1, <2>2
  <1> QED BY <1>1, <1>2, SumIsTotal, TotalOfNone

(* The invoice of any lines: before tax, and with it.                       *)
LEMMA ItemsBill ==
    ASSUME NEW ls \in Seq(Row), Valid(ls)
    PROVE  LET k == Cardinality(Items(ls)) IN
           /\ Apart(Total(Cents(ls), Items(ls)), TotalHT(ls), k)
           /\ Apart(Total(Charged(ls), Items(ls)), TotalTTC(ls), 2 * k)
           /\ k \in Nat /\ TotalHT(ls) \in Nat /\ TotalTTC(ls) \in Nat
  <1> DEFINE B == Items(ls)  k == Cardinality(B)  e == Cent
             net == Total(Cents(ls), B)  gross == Total(Charged(ls), B)
             a == Sum(ls, HT)  t == 1000 * Sum(ls, HT) + Sum(ls, VAT)
             ht == HalfEven(a, e)  ttc == HalfEven(t, 1000 * e)
  <1>0. e \in Nat \ {0} BY UnitsType
  <1>1. k \in Nat BY ItemsGroup, FS_CardinalityType
  <1>2. /\ net \in Nat /\ gross \in Nat /\ a \in Nat /\ t \in Nat
        /\ Apart((2 * e) * net, 2 * a, e * k)
        /\ Apart((2000 * e) * gross, 2 * t, (3000 * e) * k)
    BY ItemsNear
  <1>3. k = 0 => net = 0 /\ gross = 0 /\ a = 0 /\ t = 0
    BY NoItems
  <1>4. TotalHT(ls) = ht /\ TotalTTC(ls) = ttc BY DEF TotalHT, TotalTTC
  <1> HIDE DEF B, k, e, net, gross, a, t
  <1>5. ht \in Nat /\ Apart(e * (2 * ht), 2 * a, e)
    <2>1. a \in Nat BY <1>2
    <2> QED BY <1>0, <2>1, HalfEvenNear
  <1>6. ttc \in Nat /\ Apart((1000 * e) * (2 * ttc), 2 * t, 1000 * e)
    <2> DEFINE d == 1000 * e
    <2>1. d \in Nat \ {0} BY <1>0
    <2>2. t \in Nat BY <1>2
    <2> HIDE DEF d
    <2>3. HalfEven(t, d) \in Nat /\ Apart(d * (2 * HalfEven(t, d)), 2 * t, d)
      BY <2>1, <2>2, HalfEvenNear
    <2> QED BY <2>3 DEF d
  <1> HIDE DEF ht, ttc
  <1>7. /\ e * (2 * net) = (2 * e) * net /\ e * (2 * ht + k + 1) = e * (2 * ht) + e * k + e
        /\ e * (2 * net + k + 1) = (2 * e) * net + e * k + e
        /\ (2 * e) * net \in Nat /\ e * (2 * ht) \in Nat /\ e * k \in Nat
    BY <1>0, <1>1, <1>2, <1>5
  <1>8. e * (2 * net) <= e * (2 * ht + k + 1) /\ e * (2 * ht) <= e * (2 * net + k + 1)
    BY <1>0, <1>2, <1>5, <1>7 DEF Apart
  <1>9. 2 * net <= 2 * ht + k + 1 /\ 2 * ht <= 2 * net + k + 1
    BY <1>0, <1>1, <1>2, <1>5, <1>8, FactorLeftOut
  <1>10. /\ e * (2000 * gross) = (2000 * e) * gross
         /\ e * (2000 * ttc) = (1000 * e) * (2 * ttc)
         /\ e * (2000 * ttc + 3000 * k + 1000)
              = (1000 * e) * (2 * ttc) + (3000 * e) * k + 1000 * e
         /\ e * (2000 * gross + 3000 * k + 1000)
              = (2000 * e) * gross + (3000 * e) * k + 1000 * e
         /\ (2000 * e) * gross \in Nat /\ (1000 * e) * (2 * ttc) \in Nat
         /\ (3000 * e) * k \in Nat
    BY <1>0, <1>1, <1>2, <1>6
  <1>11. /\ e * (2000 * gross) <= e * (2000 * ttc + 3000 * k + 1000)
         /\ e * (2000 * ttc) <= e * (2000 * gross + 3000 * k + 1000)
    BY <1>0, <1>2, <1>6, <1>10 DEF Apart
  <1>12. /\ 2000 * gross <= 2000 * ttc + 3000 * k + 1000
         /\ 2000 * ttc <= 2000 * gross + 3000 * k + 1000
    BY <1>0, <1>1, <1>2, <1>6, <1>11, FactorLeftOut
  <1>13. Apart(net, ht, k) /\ Apart(gross, ttc, 2 * k)
    <2>1. CASE k = 0
      <3>1. ht = 0 BY <1>3, <1>5, <1>9, <2>1
      <3>2. 2000 * ttc <= 1000 BY <1>3, <1>6, <1>12, <2>1
      <3> QED BY <1>3, <1>6, <2>1, <3>1, <3>2 DEF Apart
    <2>2. CASE k # 0 BY <1>1, <1>2, <1>5, <1>6, <1>9, <1>12, <2>2 DEF Apart
    <2> QED BY <2>1, <2>2
  <1> QED BY <1>1, <1>4, <1>5, <1>6, <1>13 DEF net, gross, k, B

(* The fee of the platform is a number of cents.                            *)
LEMMA FeeType ==
    ASSUME NEW ls \in Seq(Row), Valid(ls)
    PROVE  FeeHT(ls) \in Nat
  <1>1. Sum(ls, HT) \in Nat BY ItemsNear
  <1>2. Sum(ls, HT) * Commission \in Nat BY <1>1, AmountsAssumption
  <1> DEFINE d == 1000 * Cent
  <1>3. d \in Nat \ {0} BY UnitsType
  <1> HIDE DEF d
  <1>4. HalfEven(Sum(ls, HT) * Commission, d) \in Nat BY <1>2, <1>3, HalfEvenNear
  <1> QED BY <1>4 DEF FeeHT, d

(* The columns keep the rate of a row.                                      *)
LEMMA LinesAreValid ==
    ASSUME Kept
    PROVE  lines \in Seq(Row) /\ Valid(lines)
  <1>1. ASSUME NEW i \in DOMAIN lines PROVE lines[i].rate \in LegalRates
    <2>1. i \in DOMAIN quoted /\ lines[i] = Stored(quoted[i]) BY StoredLines DEF Kept
    <2>2. quoted[i] \in Row BY <2>1 DEF Kept
    <2>3. lines[i].rate = quoted[i].rate BY <2>1, <2>2 DEF Stored, Row
    <2> QED BY <2>1, <2>3 DEF Kept, Valid
  <1> QED BY <1>1, StoredLines DEF Valid

(* StripeBillsTheLines: the platform rounds once in all and Stripe once for *)
(* each item and again for its tax, so what Stripe asks for before tax is   *)
(* the quote's to a cent an item, and what it collects to two; the shares   *)
(* of the caterer and the platform are all of the payment.                  *)
THEOREM StripeFollowsTheLines == Spec => []StripeBillsTheLines
  <1>1. Kept => StripeBillsTheLines
    <2> SUFFICES ASSUME Kept, status = "billed" PROVE StripeBillsTheLines
      BY DEF StripeBillsTheLines
    <2> DEFINE B == Items(lines)  k == Cardinality(B)  fee == FeeHT(lines)
               net == Total(Cents(lines), B)  gross == Total(Charged(lines), B)
               ht == TotalHT(lines)  ttc == TotalTTC(lines)  more == HalfUp(fee * 200, 1000)
    <2>1. lines \in Seq(Row) /\ Valid(lines) BY LinesAreValid
    <2>2. fee \in Nat BY <2>1, FeeType
    <2>3. /\ Apart(net, ht, k) /\ Apart(gross, ttc, 2 * k)
          /\ k \in Nat /\ ht \in Nat /\ ttc \in Nat
      BY <2>1, ItemsBill
    <2>4. net \in Nat /\ gross \in Nat BY <2>1, ItemsNear
    <2>5. /\ bill.items = B /\ bill.fee = fee + 0 /\ bill.total = ttc + (fee + 0)
          /\ bill.caterer = ttc + (fee + 0) - (fee + 0)
      BY DEF Kept, Billed, SplitInvoiceAmounts, FeeTVA
    <2>6. SumFunction([b \in bill.items |-> b.cents]) = net
      <3>1. [b \in bill.items |-> b.cents] = Cents(lines) BY <2>5 DEF Cents
      <3>2. DOMAIN Cents(lines) = B BY DEF Cents
      <3> QED BY <3>1, <3>2 DEF SumFunction, Total
    <2>7. Collected(bill.items, bill.fee) = gross + bill.fee + HalfUp(bill.fee * 200, 1000)
      <3>1. [b \in bill.items |-> b.cents + HalfUp(b.cents * b.rate, 1000)] = Charged(lines)
        BY <2>5 DEF Charged
      <3>2. DOMAIN Charged(lines) = B BY DEF Charged
      <3>3. SumFunction([b \in bill.items |-> b.cents + HalfUp(b.cents * b.rate, 1000)]) = gross
        BY <3>1, <3>2 DEF SumFunction, Total
      <3> QED BY <3>3 DEF Collected
    <2>8. more \in Nat
      <3> DEFINE d == 1000
      <3>1. fee * 200 \in Nat /\ d \in Nat \ {0} BY <2>2
      <3> HIDE DEF fee, d
      <3>2. HalfUp(fee * 200, d) \in Nat BY <3>1, HalfUpNear
      <3> QED BY <3>2 DEF d
    <2> HIDE DEF B, k, fee, net, gross, ht, ttc
    <2>9. bill.fee = fee /\ bill.total = ttc + fee /\ bill.caterer = ttc
      BY <2>2, <2>3, <2>5
    <2>10. HalfUp(bill.fee * 200, 1000) = more BY <2>9
    <2> HIDE DEF more
    <2>11. Apart(Collected(bill.items, bill.fee), bill.total + HalfUp(bill.fee * 200, 1000), 2 * k)
      <3>1. Apart(gross + fee + more, ttc + fee + more, 2 * k)
        BY <2>2, <2>3, <2>4, <2>8 DEF Apart
      <3> QED BY <2>7, <2>9, <2>10, <3>1
    <2>12. bill.caterer = ttc /\ bill.caterer + bill.fee = bill.total BY <2>9
    <2>13. k = Cardinality(bill.items) BY <2>5 DEF k
    <2> QED BY <2>3, <2>6, <2>11, <2>12, <2>13 DEF StripeBillsTheLines, ht, ttc
  <1> QED BY <1>1, KeptHolds, PTL
=============================================================================
