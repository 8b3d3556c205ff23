--------------------------- MODULE AccountingProofs ---------------------------
(***************************************************************************)
(* Theorems about the records of every backend, for every function its     *)
(* tool may present: whatever lift_function counts in it, in walks of its  *)
(* own, agrees with what it counts in the others.  MetricsPhaseProofs      *)
(* carries that over to the records on the disk.                           *)
(*                                                                         *)
(* The sums of the model are folds over finite sets that take an arbitrary *)
(* element first.  The first part shows that the fold is well defined and  *)
(* that the order does not matter, by induction over the subsets of a      *)
(* finite set; the second that a count by categories or by names adds up   *)
(* to the number of things counted.  The last parts are about formulas.py: *)
(* order statistics of exact fractions, what lies between 0 and 1, and     *)
(* that none of it depends on the order of the values.                     *)
(***************************************************************************)
EXTENDS IRAccounting, FiniteSetTheorems, WellFoundedInduction, TLAPS

----------------------------------------------------------------------------
(* Sums over finite sets. *)

SumOf(f, S) == MapThenSumSet(LAMBDA x : f[x], S)

Picked(s) == CHOOSE x \in s : TRUE

IsFold(g, f, S) ==
    g = [s \in SUBSET S |-> IF s = {} THEN 0
                            ELSE f[Picked(s)] + g[s \ {Picked(s)}]]

\* induction over the subsets of a finite set, by the size of a smallest
\* counterexample
LEMMA SubsetInduction ==
    ASSUME NEW S, IsFiniteSet(S), NEW T,
           \A s \in SUBSET S : (\A x \in s : s \ {x} \in T) => s \in T
    PROVE  \A s \in SUBSET S : s \in T
<1>. DEFINE Bad == {s \in SUBSET S : s \notin T}
            Sizes == {Cardinality(s) : s \in Bad}
            Less == {ss \in Nat \X Nat : ss[1] < ss[2]}
<1>1. \A s \in SUBSET S : IsFiniteSet(s) /\ Cardinality(s) \in Nat
    BY FS_Subset, FS_CardinalityType
<1>2. SUFFICES ASSUME Bad # {} PROVE FALSE
    OBVIOUS
<1>3. Sizes \in SUBSET Nat /\ Sizes # {}
    BY <1>1, <1>2
<1>4. IsWellFoundedOn(Less, Nat)
  <2>1. OpToRel(<, Nat) = Less
      BY Zenon DEF OpToRel
  <2>. QED BY <2>1, NatLessThanWellFounded, Zenon
<1>5. PICK n \in Sizes : \A m \in Sizes : ~ (<<m, n>> \in Less)
  <2>. HIDE DEF Sizes, Less
  <2>. QED BY <1>3, <1>4, WFMin
<1>6. PICK s \in Bad : Cardinality(s) = n
    OBVIOUS
<1>7. \A x \in s : s \ {x} \in T
  <2>1. TAKE x \in s
  <2>2. Cardinality(s \ {x}) = n - 1 /\ n \in Nat /\ n - 1 \in Nat
      BY <1>1, <1>6, FS_RemoveElement
  <2>3. n - 1 \notin Sizes
    <3>1. <<n - 1, n>> \in Less
        BY <2>2
    <3>. QED BY <1>5, <3>1
  <2>4. s \ {x} \notin Bad
      BY <2>2, <2>3
  <2>. QED BY <2>4
<1>. QED BY <1>6, <1>7

LEMMA PickedIn == \A s : s # {} => Picked(s) \in s
BY DEF Picked

LEMMA SumFolds ==
    ASSUME NEW f, NEW S, \E g : IsFold(g, f, S)
    PROVE  \E g : IsFold(g, f, S) /\ SumOf(f, S) = g[S]
<1>. DEFINE h == CHOOSE g : IsFold(g, f, S)
<1>1. IsFold(h, f, S)
    OBVIOUS
<1>2. SumOf(f, S) = h[S]
    BY DEF SumOf, MapThenSumSet, MapThenFoldSet, IsFold, Picked
<1>. QED BY <1>1, <1>2

\* two folds agree wherever both are defined
LEMMA FoldUnique ==
    ASSUME NEW f, NEW A, IsFiniteSet(A), NEW B \in SUBSET A, NEW g, NEW h,
           IsFold(g, f, A), IsFold(h, f, B)
    PROVE  \A s \in SUBSET B : g[s] = h[s]
<1>. DEFINE T == {s \in SUBSET B : g[s] = h[s]}
<1>1. \A s \in SUBSET B : (\A x \in s : s \ {x} \in T) => s \in T
  <2>1. TAKE s \in SUBSET B
  <2>2. HAVE \A x \in s : s \ {x} \in T
  <2>3. s = {} \/ g[s \ {Picked(s)}] = h[s \ {Picked(s)}]
      BY <2>2, PickedIn
  <2>4. s \in SUBSET A
      OBVIOUS
  <2>5. g[s] = IF s = {} THEN 0 ELSE f[Picked(s)] + g[s \ {Picked(s)}]
      BY <2>4 DEF IsFold
  <2>6. h[s] = IF s = {} THEN 0 ELSE f[Picked(s)] + h[s \ {Picked(s)}]
      BY DEF IsFold
  <2>. QED BY <2>3, <2>5, <2>6
<1>2. IsFiniteSet(B)
    BY FS_Subset
<1>. HIDE DEF T
<1>3. \A s \in SUBSET B : s \in T
    BY <1>1, <1>2, SubsetInduction
<1>. QED BY <1>3 DEF T

Folds(f, S) == \E g : IsFold(g, f, S)

LEMMA FoldStep ==
    ASSUME NEW f, NEW S, IsFiniteSet(S), Folds(f, S),
           S # {} => Folds(f, S \ {Picked(S)})
    PROVE  SumOf(f, S) = IF S = {} THEN 0
                         ELSE f[Picked(S)] + SumOf(f, S \ {Picked(S)})
<1>1. PICK g : IsFold(g, f, S) /\ SumOf(f, S) = g[S]
    BY SumFolds DEF Folds
<1>2. CASE S = {}
    BY <1>1, <1>2 DEF IsFold
<1>3. CASE S # {}
  <2>. DEFINE R == S \ {Picked(S)}
  <2>1. PICK h : IsFold(h, f, R) /\ SumOf(f, R) = h[R]
      BY <1>3, SumFolds DEF Folds
  <2>2. g[R] = h[R]
    <3>. HIDE DEF R
    <3>1. R \in SUBSET S
        BY DEF R
    <3>. QED BY <1>1, <2>1, <3>1, FoldUnique
  <2>3. g[S] = f[Picked(S)] + g[R]
      BY <1>1, <1>3 DEF IsFold
  <2>. QED BY <1>1, <1>3, <2>1, <2>2, <2>3
<1>. QED BY <1>2, <1>3

\* the recursion is well defined
LEMMA FoldExists ==
    ASSUME NEW S, IsFiniteSet(S), NEW f
    PROVE  \A s \in SUBSET S : Folds(f, s)
<1>. DEFINE T == {s \in SUBSET S : \A t \in SUBSET s : Folds(f, t)}
<1>1. ASSUME NEW s \in SUBSET S, \A x \in s : s \ {x} \in T
      PROVE  s \in T
  <2>1. \A t \in SUBSET s : t # s => Folds(f, t)
    <3>1. TAKE t \in SUBSET s
    <3>2. HAVE t # s
    <3>3. PICK x \in s : t \in SUBSET (s \ {x})
        BY <3>2
    <3>. QED BY <1>1, <3>3
  <2>. DEFINE g == [t \in SUBSET s |-> IF t = {} THEN 0
                        ELSE f[Picked(t)] + SumOf(f, t \ {Picked(t)})]
  <2>2. \A t \in SUBSET s : t # {} => g[t \ {Picked(t)}] = SumOf(f, t \ {Picked(t)})
    <3>1. TAKE t \in SUBSET s
    <3>2. HAVE t # {}
    <3>. DEFINE r == t \ {Picked(t)}
    <3>3. r \in SUBSET s /\ r # s /\ IsFiniteSet(r)
        BY <3>2, PickedIn, FS_Subset
    <3>4. Folds(f, r)
        BY <2>1, <3>3
    <3>5. r # {} => Folds(f, r \ {Picked(r)})
      <4>1. HAVE r # {}
      <4>2. r \ {Picked(r)} \in SUBSET s /\ r \ {Picked(r)} # s
          BY <3>3, <4>1, PickedIn
      <4>. QED BY <2>1, <4>2
    <3>6. SumOf(f, r) = IF r = {} THEN 0 ELSE f[Picked(r)] + SumOf(f, r \ {Picked(r)})
      <4>. HIDE DEF r
      <4>. QED BY <3>3, <3>4, <3>5, FoldStep
    <3>7. g[r] = IF r = {} THEN 0 ELSE f[Picked(r)] + SumOf(f, r \ {Picked(r)})
      <4>. HIDE DEF r
      <4>. QED BY <3>3
    <3>. QED BY <3>6, <3>7
  <2>3. IsFold(g, f, s)
    <3>1. \A t \in SUBSET s :
             g[t] = IF t = {} THEN 0 ELSE f[Picked(t)] + g[t \ {Picked(t)}]
        BY <2>2
    <3>2. g = [t \in SUBSET s |-> g[t]]
        OBVIOUS
    <3>. HIDE DEF g
    <3>. QED BY <3>1, <3>2 DEF IsFold
  <2>4. Folds(f, s)
      BY <2>3 DEF Folds
  <2>. QED BY <2>1, <2>4
<1>. HIDE DEF T
<1>2. \A s \in SUBSET S : s \in T
    BY <1>1, SubsetInduction
<1>. QED BY <1>2 DEF T

LEMMA SumPicked ==
    ASSUME NEW f, NEW S, IsFiniteSet(S)
    PROVE  SumOf(f, S) = IF S = {} THEN 0
                         ELSE f[Picked(S)] + SumOf(f, S \ {Picked(S)})
<1>1. Folds(f, S) /\ Folds(f, S \ {Picked(S)})
    BY FoldExists
<1>. QED BY <1>1, FoldStep

\* whichever element is taken first
LEMMA SumAdd ==
    ASSUME NEW f, NEW S, IsFiniteSet(S), \A x \in S : f[x] \in Int
    PROVE  /\ SumOf(f, S) \in Int
           /\ SumOf(f, {}) = 0
           /\ \A x \in S : SumOf(f, S) = f[x] + SumOf(f, S \ {x})
<1>. DEFINE Good(s) == /\ SumOf(f, s) \in Int
                      /\ \A x \in s : SumOf(f, s) = f[x] + SumOf(f, s \ {x})
            T == {s \in SUBSET S : \A t \in SUBSET s : Good(t)}
<1>1. ASSUME NEW s \in SUBSET S, \A x \in s : s \ {x} \in T
      PROVE  s \in T
  <2>1. \A t \in SUBSET s : t # s => Good(t)
    <3>1. TAKE t \in SUBSET s
    <3>2. HAVE t # s
    <3>3. PICK x \in s : t \in SUBSET (s \ {x})
        BY <3>2
    <3>. QED BY <1>1, <3>3
  <2>. DEFINE y == Picked(s)
  <2>2. IsFiniteSet(s)
      BY FS_Subset
  <2>3. SumOf(f, s) = IF s = {} THEN 0 ELSE f[y] + SumOf(f, s \ {y})
      BY <2>2, SumPicked
  <2>4. s # {} => y \in s /\ SumOf(f, s \ {y}) \in Int /\ f[y] \in Int
    <3>1. HAVE s # {}
    <3>2. y \in s
        BY <3>1, PickedIn
    <3>3. s \ {y} \in SUBSET s /\ s \ {y} # s
        BY <3>2
    <3>. HIDE DEF y
    <3>. QED BY <2>1, <3>2, <3>3
  <2>5. ASSUME NEW x \in s
        PROVE  SumOf(f, s) = f[x] + SumOf(f, s \ {x})
    <3>. HIDE DEF y
    <3>1. CASE x = y
        BY <2>3, <2>4, <3>1
    <3>2. CASE x # y
      <4>1. /\ s \ {y} \in SUBSET s /\ s \ {y} # s /\ x \in s \ {y}
            /\ s \ {x} \in SUBSET s /\ s \ {x} # s /\ y \in s \ {x}
          BY <2>4, <3>2
      <4>2. SumOf(f, s \ {y}) = f[x] + SumOf(f, (s \ {y}) \ {x})
          BY <2>1, <4>1
      <4>3. SumOf(f, s \ {x}) = f[y] + SumOf(f, (s \ {x}) \ {y})
          BY <2>1, <4>1
      <4>4. (s \ {y}) \ {x} = (s \ {x}) \ {y}
          OBVIOUS
      <4>5. SumOf(f, (s \ {x}) \ {y}) \in Int
        <5>1. (s \ {x}) \ {y} \in SUBSET s /\ (s \ {x}) \ {y} # s
            BY <4>1
        <5>. QED BY <2>1, <5>1
      <4>6. f[x] \in Int /\ f[y] \in Int
          BY <2>4
      <4>7. SumOf(f, s) = f[y] + SumOf(f, s \ {y})
        <5>1. s # {}
            OBVIOUS
        <5>. QED BY <2>3, <5>1
      <4>8. SumOf(f, s \ {x}) = f[y] + SumOf(f, (s \ {y}) \ {x})
          BY <4>3, <4>4
      <4>9. SumOf(f, (s \ {y}) \ {x}) \in Int
          BY <4>4, <4>5
      <4>10. ASSUME NEW a \in Int, NEW c \in Int, NEW r \in Int
             PROVE  a + (c + r) = c + (a + r)
          OBVIOUS
      <4>. QED BY <4>2, <4>6, <4>7, <4>8, <4>9, <4>10
    <3>. QED BY <3>1, <3>2
  <2>6. Good(s)
      BY <2>3, <2>4, <2>5
  <2>. QED BY <2>1, <2>6
<1>. HIDE DEF T
<1>2. \A s \in SUBSET S : s \in T
    BY <1>1, SubsetInduction
<1>3. Good(S)
    BY <1>2 DEF T
<1>4. SumOf(f, {}) = 0
    BY SumPicked, FS_EmptySet
<1>. QED BY <1>3, <1>4


LEMMA SumIsSumOf ==
    ASSUME NEW f
    PROVE  Total(f) = SumOf(f, DOMAIN f) /\ HistTotal(f) = SumOf(f, DOMAIN f)
BY DEF Total, HistTotal, SumOf

LEMMA SumEqual ==
    ASSUME NEW S, IsFiniteSet(S), NEW f, NEW g,
           \A x \in S : f[x] \in Int /\ f[x] = g[x]
    PROVE  SumOf(f, S) = SumOf(g, S)
<1>. DEFINE T == {s \in SUBSET S : SumOf(f, s) = SumOf(g, s)}
<1>1. ASSUME NEW s \in SUBSET S, \A x \in s : s \ {x} \in T
      PROVE  s \in T
  <2>1. IsFiniteSet(s)
      BY FS_Subset
  <2>2. CASE s = {}
      BY <2>1, <2>2, SumPicked
  <2>3. CASE s # {}
    <3>1. PICK x \in s : TRUE
        BY <2>3
    <3>2. SumOf(f, s) = f[x] + SumOf(f, s \ {x})
        BY <2>1, SumAdd
    <3>3. SumOf(g, s) = g[x] + SumOf(g, s \ {x})
      <4>1. \A y \in s : g[y] \in Int
          OBVIOUS
      <4>. QED BY <2>1, <4>1, SumAdd
    <3>4. SumOf(f, s \ {x}) = SumOf(g, s \ {x})
        BY <1>1
    <3>. QED BY <3>2, <3>3, <3>4
  <2>. QED BY <2>2, <2>3
<1>. HIDE DEF T
<1>2. \A s \in SUBSET S : s \in T
    BY <1>1, SubsetInduction
<1>. QED BY <1>2 DEF T

\* a sum of n numbers that lie between two bounds
LEMMA SumBetween ==
    ASSUME NEW S, IsFiniteSet(S), NEW f, NEW lo \in Int, NEW hi \in Int,
           \A x \in S : f[x] \in Int /\ lo <= f[x] /\ f[x] <= hi
    PROVE  /\ Cardinality(S) \in Nat
           /\ Cardinality(S) * lo <= SumOf(f, S) /\ SumOf(f, S) <= Cardinality(S) * hi
<1>. DEFINE T == {s \in SUBSET S : /\ Cardinality(s) * lo <= SumOf(f, s)
                                   /\ SumOf(f, s) <= Cardinality(s) * hi}
<1>1. ASSUME NEW s \in SUBSET S, \A x \in s : s \ {x} \in T
      PROVE  s \in T
  <2>1. IsFiniteSet(s)
      BY FS_Subset
  <2>2. CASE s = {}
    <3>1. SumOf(f, s) = 0
        BY <2>1, <2>2, SumPicked
    <3>2. Cardinality(s) = 0
        BY <2>2, FS_EmptySet
    <3>. QED BY <3>1, <3>2
  <2>3. CASE s # {}
    <3>1. PICK x \in s : TRUE
        BY <2>3
    <3>. DEFINE r == s \ {x}
    <3>2. SumOf(f, s) = f[x] + SumOf(f, r)
        BY <2>1, SumAdd
    <3>3. IsFiniteSet(r) /\ Cardinality(r) = Cardinality(s) - 1
        BY <2>1, FS_RemoveElement
    <3>4. Cardinality(s) \in Nat /\ Cardinality(r) \in Nat
        BY <2>1, <3>3, FS_CardinalityType
    <3>5. SumOf(f, r) \in Int
        BY <3>3, SumAdd
    <3>6. Cardinality(r) * lo <= SumOf(f, r) /\ SumOf(f, r) <= Cardinality(r) * hi
        BY <1>1
    <3>7. f[x] \in Int /\ lo <= f[x] /\ f[x] <= hi
        OBVIOUS
    <3>8. ASSUME NEW n \in Nat, NEW k \in Int PROVE (n + 1) * k = n * k + k
        OBVIOUS
    <3>9. Cardinality(s) = Cardinality(r) + 1
        BY <3>3, <3>4
    <3>10. /\ Cardinality(s) * lo = Cardinality(r) * lo + lo
           /\ Cardinality(s) * hi = Cardinality(r) * hi + hi
        BY <3>4, <3>8, <3>9
    <3>11. Cardinality(r) * lo \in Int /\ Cardinality(r) * hi \in Int
        BY <3>4
    <3>. HIDE DEF r
    <3>12. Cardinality(s) * lo <= SumOf(f, s)
        BY <3>2, <3>5, <3>6, <3>7, <3>10, <3>11
    <3>13. SumOf(f, s) <= Cardinality(s) * hi
        BY <3>2, <3>5, <3>6, <3>7, <3>10, <3>11
    <3>. QED BY <3>12, <3>13
  <2>. QED BY <2>2, <2>3
<1>. HIDE DEF T
<1>2. \A s \in SUBSET S : s \in T
    BY <1>1, SubsetInduction
<1>3. Cardinality(S) \in Nat
    BY FS_CardinalityType
<1>. QED BY <1>2, <1>3 DEF T

LEMMA SumOfNats ==
    ASSUME NEW S, IsFiniteSet(S), NEW f, \A x \in S : f[x] \in Int /\ 0 <= f[x]
    PROVE  SumOf(f, S) \in Int /\ SumOf(f, S) >= 0
<1>. DEFINE T == {s \in SUBSET S : SumOf(f, s) >= 0}
<1>1. ASSUME NEW s \in SUBSET S, \A x \in s : s \ {x} \in T
      PROVE  s \in T
  <2>1. IsFiniteSet(s)
      BY FS_Subset
  <2>2. CASE s = {}
    <3>1. SumOf(f, s) = 0
        BY <2>1, <2>2, SumPicked
    <3>. QED BY <3>1
  <2>3. CASE s # {}
    <3>1. PICK x \in s : TRUE
        BY <2>3
    <3>. DEFINE r == s \ {x}
    <3>2. IsFiniteSet(r)
        BY <2>1, FS_Subset
    <3>3. SumOf(f, s) = f[x] + SumOf(f, r) /\ SumOf(f, r) \in Int
        BY <2>1, <3>2, SumAdd
    <3>4. SumOf(f, r) >= 0 /\ f[x] \in Int /\ 0 <= f[x]
        BY <1>1
    <3>. HIDE DEF r
    <3>5. SumOf(f, s) >= 0
        BY <3>3, <3>4
    <3>. QED BY <3>5
  <2>. QED BY <2>2, <2>3
<1>. HIDE DEF T
<1>2. \A s \in SUBSET S : s \in T
    BY <1>1, SubsetInduction
<1>3. SumOf(f, S) \in Int
    BY SumAdd
<1>. QED BY <1>2, <1>3 DEF T

LEMMA SumZero ==
    ASSUME NEW S, IsFiniteSet(S), NEW f, \A x \in S : f[x] = 0
    PROVE  SumOf(f, S) = 0
<1>1. /\ Cardinality(S) \in Nat /\ SumOf(f, S) \in Int
      /\ Cardinality(S) * 0 <= SumOf(f, S) /\ SumOf(f, S) <= Cardinality(S) * 0
    BY SumBetween, SumAdd
<1>. QED BY <1>1

\* only zeros add up to zero
LEMMA SumIsZero ==
    ASSUME NEW S, IsFiniteSet(S), NEW f, \A x \in S : f[x] \in Nat, SumOf(f, S) = 0
    PROVE  \A x \in S : f[x] = 0
<1>1. TAKE x \in S
<1>. DEFINE r == S \ {x}
<1>2. IsFiniteSet(r) /\ \A y \in r : f[y] \in Int /\ 0 <= f[y]
    BY FS_Subset
<1>3. SumOf(f, S) = f[x] + SumOf(f, r)
    BY SumAdd
<1>. HIDE DEF r
<1>4. SumOf(f, r) \in Int /\ SumOf(f, r) >= 0
    BY <1>2, SumOfNats
<1>. QED BY <1>3, <1>4

LEMMA SumPlus ==
    ASSUME NEW S, IsFiniteSet(S), NEW f, NEW g, NEW h,
           \A x \in S : f[x] \in Int /\ g[x] \in Int /\ h[x] = f[x] + g[x]
    PROVE  SumOf(h, S) = SumOf(f, S) + SumOf(g, S)
<1>. DEFINE T == {s \in SUBSET S : SumOf(h, s) = SumOf(f, s) + SumOf(g, s)}
<1>1. ASSUME NEW s \in SUBSET S, \A x \in s : s \ {x} \in T
      PROVE  s \in T
  <2>1. IsFiniteSet(s)
      BY FS_Subset
  <2>2. CASE s = {}
    <3>1. SumOf(f, s) = 0 /\ SumOf(g, s) = 0 /\ SumOf(h, s) = 0
        BY <2>1, <2>2, SumPicked
    <3>. QED BY <3>1
  <2>3. CASE s # {}
    <3>1. PICK x \in s : TRUE
        BY <2>3
    <3>. DEFINE r == s \ {x}
    <3>2. IsFiniteSet(r)
        BY <2>1, FS_Subset
    <3>3. SumOf(f, s) = f[x] + SumOf(f, r) /\ SumOf(f, r) \in Int
        BY <2>1, <3>2, SumAdd
    <3>4. SumOf(g, s) = g[x] + SumOf(g, r) /\ SumOf(g, r) \in Int
        BY <2>1, <3>2, SumAdd
    <3>5. SumOf(h, s) = h[x] + SumOf(h, r)
      <4>1. \A y \in s : h[y] \in Int
          OBVIOUS
      <4>. QED BY <2>1, <4>1, SumAdd
    <3>6. SumOf(h, r) = SumOf(f, r) + SumOf(g, r)
        BY <1>1
    <3>7. f[x] \in Int /\ g[x] \in Int /\ h[x] = f[x] + g[x]
        OBVIOUS
    <3>. HIDE DEF r
    <3>8. SumOf(h, s) = SumOf(f, s) + SumOf(g, s)
        BY <3>3, <3>4, <3>5, <3>6, <3>7
    <3>. QED BY <3>8
  <2>. QED BY <2>2, <2>3
<1>. HIDE DEF T
<1>2. \A s \in SUBSET S : s \in T
    BY <1>1, SubsetInduction
<1>. QED BY <1>2 DEF T

\* what is zero does not count
LEMMA SumSupport ==
    ASSUME NEW S, IsFiniteSet(S), NEW f, NEW R \in SUBSET S,
           \A x \in S : f[x] \in Int, \A x \in S \ R : f[x] = 0
    PROVE  SumOf(f, S) = SumOf(f, R)
<1>. DEFINE D == S \ R
            T == {s \in SUBSET D : SumOf(f, R \cup s) = SumOf(f, R)}
<1>1. ASSUME NEW s \in SUBSET D, \A x \in s : s \ {x} \in T
      PROVE  s \in T
  <2>1. CASE s = {}
    <3>1. R \cup s = R
        BY <2>1
    <3>. QED BY <3>1
  <2>2. CASE s # {}
    <3>1. PICK x \in s : TRUE
        BY <2>2
    <3>2. IsFiniteSet(R \cup s) /\ IsFiniteSet(R)
        BY FS_Subset
    <3>3. SumOf(f, R \cup s) = f[x] + SumOf(f, (R \cup s) \ {x})
      <4>1. x \in R \cup s /\ \A y \in R \cup s : f[y] \in Int
          BY <3>1
      <4>. QED BY <3>2, <4>1, SumAdd
    <3>4. (R \cup s) \ {x} = R \cup (s \ {x}) /\ f[x] = 0
        BY <3>1
    <3>5. SumOf(f, R \cup (s \ {x})) = SumOf(f, R)
        BY <1>1, <3>1
    <3>6. SumOf(f, R) \in Int
        BY <3>2, SumAdd
    <3>7. SumOf(f, R \cup s) = SumOf(f, R)
      <4>1. SumOf(f, R \cup s) = 0 + SumOf(f, R)
          BY <3>3, <3>4, <3>5
      <4>. QED BY <3>6, <4>1
    <3>. QED BY <3>7
  <2>. QED BY <2>1, <2>2
<1>2. IsFiniteSet(D)
    BY FS_Subset
<1>3. R \cup D = S
    OBVIOUS
<1>. HIDE DEF T
<1>4. D \in T
  <2>. HIDE DEF D
  <2>1. \A s \in SUBSET D : s \in T
      BY <1>1, <1>2, SubsetInduction
  <2>. QED BY <2>1
<1>. QED BY <1>3, <1>4 DEF T

LEMMA DisjointUnion ==
    ASSUME NEW S, IsFiniteSet(S), NEW T, IsFiniteSet(T), S \cap T = {}
    PROVE  /\ IsFiniteSet(S \cup T)
           /\ Cardinality(S \cup T) = Cardinality(S) + Cardinality(T)
           /\ Cardinality(S) \in Nat /\ Cardinality(T) \in Nat
<1>1. Cardinality(S) \in Nat /\ Cardinality(T) \in Nat /\ Cardinality(S \cap T) = 0
    BY FS_CardinalityType, FS_EmptySet
<1>2. /\ IsFiniteSet(S \cup T)
      /\ Cardinality(S \cup T) = Cardinality(S) + Cardinality(T) - Cardinality(S \cap T)
    BY FS_Union
<1>. QED BY <1>1, <1>2

Fibre(S, key, k) == {x \in S : key[x] = k}

\* counting by a key, key after key
LEMMA SumFibres ==
    ASSUME NEW S, IsFiniteSet(S), NEW key, NEW N, IsFiniteSet(N),
           \A x \in S : key[x] \in N,
           NEW f, \A k \in N : f[k] = Cardinality(Fibre(S, key, k))
    PROVE  SumOf(f, N) = Cardinality(S)
<1>. DEFINE In(M) == {x \in S : key[x] \in M}
            Of(k) == Fibre(S, key, k)
            T == {M \in SUBSET N : SumOf(f, M) = Cardinality(In(M))}
<1>1. \A k \in N : IsFiniteSet(Of(k)) /\ f[k] \in Int /\ f[k] = Cardinality(Of(k))
  <2>1. \A k \in N : IsFiniteSet(Of(k)) /\ Cardinality(Of(k)) \in Nat
      BY FS_Subset, FS_CardinalityType DEF Fibre
  <2>. QED BY <2>1
<1>2. ASSUME NEW M \in SUBSET N, \A k \in M : M \ {k} \in T
      PROVE  M \in T
  <2>1. IsFiniteSet(M)
      BY FS_Subset
  <2>2. CASE M = {}
    <3>1. In(M) = {}
        BY <2>2
    <3>. QED BY <2>1, <2>2, <3>1, SumPicked, FS_EmptySet
  <2>3. CASE M # {}
    <3>1. PICK k \in M : TRUE
        BY <2>3
    <3>. DEFINE A == In(M \ {k})
                B == Of(k)
    <3>2. SumOf(f, M) = f[k] + SumOf(f, M \ {k})
      <4>1. \A x \in M : f[x] \in Int
          BY <1>1
      <4>. QED BY <2>1, <3>1, <4>1, SumAdd
    <3>3. SumOf(f, M \ {k}) = Cardinality(A)
        BY <1>2
    <3>4. In(M) = A \cup B /\ A \cap B = {}
        BY DEF Fibre
    <3>5. IsFiniteSet(A) /\ IsFiniteSet(B)
        BY FS_Subset DEF Fibre
    <3>6. f[k] = Cardinality(B)
        BY <1>1
    <3>7. Cardinality(A \cup B) = Cardinality(A) + Cardinality(B)
      <4>. HIDE DEF A, B
      <4>. QED BY <3>4, <3>5, DisjointUnion
    <3>8. Cardinality(A) \in Nat /\ Cardinality(B) \in Nat
      <4>. HIDE DEF A, B
      <4>. QED BY <3>5, FS_CardinalityType
    <3>9. SumOf(f, M) = Cardinality(In(M))
      <4>1. Cardinality(In(M)) = Cardinality(A) + Cardinality(B)
          BY <3>4, <3>7
      <4>2. SumOf(f, M) = Cardinality(B) + Cardinality(A)
          BY <3>2, <3>3, <3>6
      <4>. HIDE DEF A, B
      <4>. QED BY <3>8, <4>1, <4>2
    <3>. QED BY <3>9
  <2>. QED BY <2>2, <2>3
<1>. HIDE DEF T
<1>3. N \in T
    BY <1>2, SubsetInduction
<1>4. In(N) = S
    OBVIOUS
<1>. QED BY <1>3, <1>4 DEF T

LEMMA MaxExists ==
    ASSUME NEW S, IsFiniteSet(S), S \in SUBSET Int, S # {}
    PROVE  Max(S) \in S /\ \A x \in S : x <= Max(S)
<1>. DEFINE T == {s \in SUBSET S : s # {} => \E m \in s : \A x \in s : x <= m}
<1>1. ASSUME NEW s \in SUBSET S, \A x \in s : s \ {x} \in T
      PROVE  s \in T
  <2>1. ASSUME NEW x \in s
        PROVE  \E m \in s : \A y \in s : y <= m
    <3>1. CASE s \ {x} = {}
      <4>1. \A y \in s : y <= x
          BY <3>1
      <4>. QED BY <4>1
    <3>2. CASE s \ {x} # {}
      <4>1. PICK m \in s \ {x} : \A y \in s \ {x} : y <= m
          BY <1>1, <3>2
      <4>2. CASE x <= m
        <5>1. \A y \in s : y <= m
            BY <4>1, <4>2
        <5>. QED BY <5>1
      <4>3. CASE ~ (x <= m)
        <5>1. \A y \in s : y <= x
            BY <4>1, <4>3
        <5>. QED BY <5>1
      <4>. QED BY <4>2, <4>3
    <3>. QED BY <3>1, <3>2
  <2>. QED BY <2>1
<1>. HIDE DEF T
<1>2. S \in T
    BY <1>1, SubsetInduction
<1>3. \E m \in S : \A x \in S : m >= x
    BY <1>2 DEF T
<1>. QED BY <1>3 DEF Max

LEMMA PairBounds ==
    ASSUME NEW m \in Int, NEW n \in Int
    PROVE  /\ Max({m, n}) \in {m, n} /\ m <= Max({m, n}) /\ n <= Max({m, n})
           /\ Min({m, n}) \in {m, n} /\ Min({m, n}) <= m /\ Min({m, n}) <= n
<1>1. \E x \in {m, n} : \A y \in {m, n} : x >= y
    OBVIOUS
<1>2. \E x \in {m, n} : \A y \in {m, n} : x <= y
    OBVIOUS
<1>. QED BY <1>1, <1>2 DEF Max, Min

----------------------------------------------------------------------------
(* The nodes of a function. *)

\* the node an instruction gets its flat label from
LabelPlace(backend, instr) ==
    IF \/ backend = "angr" /\ instr.nodes[1].op \in {"Ist_WrTmp", "Ist_Put"}
       \/ backend \in Bnil /\ instr.nodes[1].op \in ASSIGN
    THEN instr.value ELSE 1

LEMMA SeqPlaces ==
    ASSUME NEW s, Listed(s)
    PROVE  /\ Len(s) \in Nat /\ IsFiniteSet(DOMAIN s)
           /\ Cardinality(DOMAIN s) = Len(s)
<1>1. Len(s) \in Nat /\ DOMAIN s = 1..Len(s)
    BY DEF Listed
<1>2. \A n \in Nat : IsFiniteSet(1..n) /\ Cardinality(1..n) = n
    BY FS_Interval
<1>. QED BY <1>1, <1>2

LEMMA PlacesFinite ==
    ASSUME NEW S, IsFiniteSet(S), NEW D, \A i \in S : IsFiniteSet(D[i])
    PROVE  IsFiniteSet(UNION {{i} \X D[i] : i \in S})
<1>. DEFINE G == {{i} \X D[i] : i \in S}
            g == [i \in S |-> {i} \X D[i]]
<1>1. g \in Surjection(S, G)
    BY DEF Surjection
<1>2. IsFiniteSet(G)
  <2>. HIDE DEF G, g
  <2>. QED BY <1>1, FS_Surjection
<1>3. \A i \in S : IsFiniteSet({i} \X D[i])
    BY FS_Singleton, FS_Product
<1>4. \A T \in G : IsFiniteSet(T)
    BY <1>3
<1>. QED BY <1>2, <1>4, FS_UNION

LEMMA RootPlace ==
    ASSUME NEW b, NEW u, Presented(b, u), NEW i \in DOMAIN u.instrs
    PROVE  LET nodes == u.instrs[i].nodes
           IN  /\ Listed(nodes) /\ 1 \in DOMAIN nodes
               /\ Len(nodes) \in Nat /\ DOMAIN nodes = 1..Len(nodes)
<1>1. Preorder(u.instrs[i].nodes)
    BY DEF Presented
<1>. QED BY <1>1, SeqPlaces DEF Preorder, Listed

LEMMA TreeNodesFinite ==
    ASSUME NEW b, NEW u, Presented(b, u)
    PROVE  IsFiniteSet(TreeNodes(u)) /\ IsFiniteSet(ExitNodes(u))
<1>1. IsFiniteSet(TreeNodes(u))
  <2>. DEFINE S == DOMAIN u.instrs
              D == [i \in S |-> DOMAIN u.instrs[i].nodes]
  <2>1. IsFiniteSet(S) /\ \A i \in S : IsFiniteSet(D[i])
      BY SeqPlaces DEF Presented, Preorder
  <2>2. TreeNodes(u) = UNION {{i} \X D[i] : i \in S}
      BY DEF TreeNodes
  <2>. HIDE DEF S, D
  <2>. QED BY <2>1, <2>2, PlacesFinite
<1>2. IsFiniteSet(ExitNodes(u))
  <2>. DEFINE S == DOMAIN u.exits
              D == [i \in S |-> DOMAIN u.exits[i].target]
  <2>1. IsFiniteSet(S) /\ \A i \in S : IsFiniteSet(D[i])
      BY SeqPlaces DEF Presented, Preorder
  <2>2. ExitNodes(u) = UNION {{i} \X D[i] : i \in S}
      BY DEF ExitNodes
  <2>. HIDE DEF S, D
  <2>. QED BY <2>1, <2>2, PlacesFinite
<1>. QED BY <1>1, <1>2

\* both walks label the node at LabelPlace the same way
LEMMA SameLabel ==
    ASSUME NEW b \in Nesting, NEW instr,
           instr.nodes[1].op \in Assignments => instr.value # 1
    PROVE  OpsLabel(b, instr) = AstLabel(b, instr, LabelPlace(b, instr))
<1>1. CASE b = "angr"
    BY <1>1 DEF OpsLabel, AstLabel, LabelPlace, classify_vex_statement_ops,
               Assignments, Bnil
<1>2. CASE b \in Bnil
    BY <1>2 DEF OpsLabel, AstLabel, LabelPlace, Labelled, Bnil
<1>3. CASE b = "ida"
    BY <1>3 DEF OpsLabel, AstLabel, LabelPlace, Bnil
<1>. QED BY <1>1, <1>2, <1>3 DEF Nesting

\* Whatever function a tool presents: the tree walk counts at least as many
\* operations of each category as the flat one, because the node that gives an
\* instruction its flat label is one the tree walk gives the same label
\* (classify_il_function_ops and _ast, classify_vex_statement_ops and _ast,
\* _mcode_categories and _walk_minsn_ast).
THEOREM FlatWithinTree ==
    ASSUME NEW run, run.backend \in Nesting, NEW u, Presented(run.backend, u),
           NEW c \in CATEGORIES
    PROVE  NestingRecord(run, u).ops[c] <= NestingRecord(run, u).ast[c]
<1>. DEFINE b == run.backend
            S == {i \in DOMAIN u.instrs : OpsLabel(b, u.instrs[i]) = c}
            T == {p \in TreeNodes(u) : AstLabel(b, u.instrs[p[1]], p[2]) = c}
            E == {p \in ExitNodes(u) : classify_vex_expr(ExitOp(u, p)) = c}
            h == [i \in S |-> <<i, LabelPlace(b, u.instrs[i])>>]
<1>1. \A i \in DOMAIN u.instrs : <<i, LabelPlace(b, u.instrs[i])>> \in TreeNodes(u)
  <2>1. TAKE i \in DOMAIN u.instrs
  <2>2. LabelPlace(b, u.instrs[i]) \in DOMAIN u.instrs[i].nodes
      BY RootPlace DEF LabelPlace, Presented, Assignments
  <2>. QED BY <2>2 DEF TreeNodes
<1>2. \A i \in S : AstLabel(b, u.instrs[i], LabelPlace(b, u.instrs[i])) = c
    BY SameLabel DEF Presented
<1>3. h \in Injection(S, T)
    BY <1>1, <1>2 DEF Injection, IsInjective
<1>4. IsFiniteSet(T) /\ IsFiniteSet(E)
    BY TreeNodesFinite, FS_Subset
<1>5. Cardinality(S) <= Cardinality(T) /\ Cardinality(S) \in Nat
  <2>. HIDE DEF S, T, h
  <2>. QED BY <1>3, <1>4, FS_Injection, FS_CardinalityType
<1>6. Cardinality(T) \in Nat /\ Cardinality(E) \in Nat
  <2>. HIDE DEF T, E
  <2>. QED BY <1>4, FS_CardinalityType
<1>7. Terminators(b, u, c) \in Nat
    BY SeqPlaces DEF Terminators, Presented
<1>8. ir_ops(b, u)[c] = Cardinality(S) + Terminators(b, u, c)
    BY DEF ir_ops
<1>9. ir_ast(b, u)[c] = Cardinality(T) + Terminators(b, u, c)
                          + (IF b = "angr" THEN Cardinality(E) ELSE 0)
    BY DEF ir_ast
<1>10. ir_ops(b, u)[c] <= ir_ast(b, u)[c]
  <2>. HIDE DEF S, T, E, b
  <2>. QED BY <1>5, <1>6, <1>7, <1>8, <1>9
<1>. QED BY <1>10 DEF NestingRecord, OkFields


----------------------------------------------------------------------------
(* What each count adds up to. *)

LEMMA FourCategories == IsFiniteSet(CATEGORIES)
<1>1. IsFiniteSet({"arithmetic"} \cup {"control"})
    BY FS_Singleton, FS_Union
<1>2. IsFiniteSet({"memory"} \cup {"other"})
    BY FS_Singleton, FS_Union
<1>3. CATEGORIES = ({"arithmetic"} \cup {"control"}) \cup ({"memory"} \cup {"other"})
    BY DEF CATEGORIES
<1>. QED BY <1>1, <1>2, <1>3, FS_Union

LEMMA IsLabel ==
    /\ \A control, memory, arithmetic, op :
          OneOf(control, memory, arithmetic, op) \in CATEGORIES
    /\ \A insn, family : classify_insn(insn, family) \in CATEGORIES
    /\ \A b, instr : OpsLabel(b, instr) \in CATEGORIES
    /\ \A b, instr, k : AstLabel(b, instr, k) \in CATEGORIES
    /\ \A op : classify_vex_expr(op) \in CATEGORIES
<1>1. \A control, memory, arithmetic, op :
         OneOf(control, memory, arithmetic, op) \in CATEGORIES
    BY DEF OneOf, CATEGORIES
<1>2. \A insn, family : classify_insn(insn, family) \in CATEGORIES
    BY DEF classify_insn, CATEGORIES
<1>3. /\ \A op : classify_vex_expr(op) \in CATEGORIES
      /\ \A op : classify_vex_statement_tag(op) \in CATEGORIES
      /\ \A op : classify_il_operation(op) \in CATEGORIES
      /\ \A op : classify_mcode(op) \in CATEGORIES
      /\ \A op : classify_pcode_op(op) \in CATEGORIES
    BY <1>1 DEF classify_vex_expr, classify_vex_statement_tag, classify_il_operation,
                classify_mcode, classify_pcode_op
<1>4. \A b, instr : OpsLabel(b, instr) \in CATEGORIES
    BY <1>3 DEF OpsLabel, classify_vex_statement_ops
<1>5. \A b, instr, k : AstLabel(b, instr, k) \in CATEGORIES
    BY <1>3 DEF AstLabel
<1>. QED BY <1>1, <1>2, <1>3, <1>4, <1>5

\* the categories of a set of things that have one each
LEMMA SumOfLabels ==
    ASSUME NEW S, IsFiniteSet(S), NEW lab, \A x \in S : lab[x] \in CATEGORIES,
           NEW f, \A c \in CATEGORIES : f[c] = Cardinality(Fibre(S, lab, c))
    PROVE  /\ SumOf(f, CATEGORIES) = Cardinality(S) /\ Cardinality(S) \in Nat
           /\ \A c \in CATEGORIES : f[c] \in Nat
<1>1. \A c \in CATEGORIES : IsFiniteSet(Fibre(S, lab, c))
    BY FS_Subset DEF Fibre
<1>2. \A c \in CATEGORIES : f[c] \in Nat
    BY <1>1, FS_CardinalityType
<1>3. Cardinality(S) \in Nat
    BY FS_CardinalityType
<1>4. SumOf(f, CATEGORIES) = Cardinality(S)
    BY FourCategories, SumFibres
<1>. QED BY <1>2, <1>3, <1>4

LEMMA SumPoint ==
    ASSUME NEW S, IsFiniteSet(S), NEW f, NEW x \in S, f[x] \in Int,
           \A y \in S \ {x} : f[y] = 0
    PROVE  SumOf(f, S) = f[x]
<1>1. SumOf(f, S) = f[x] + SumOf(f, S \ {x})
  <2>1. \A y \in S : f[y] \in Int
      OBVIOUS
  <2>. QED BY <2>1, SumAdd
<1>2. SumOf(f, S \ {x}) = 0
  <2>1. IsFiniteSet(S \ {x})
      BY FS_Subset
  <2>. QED BY <2>1, SumZero
<1>. QED BY <1>1, <1>2

\* the operations no tree has: one terminator per angr block
Ends(b, u) == IF b = "angr" THEN Len(u.exits) ELSE 0

Targets(b, u) == IF b = "angr" THEN ExitNodes(u) ELSE {}

LEMMA SumOfTerminators ==
    ASSUME NEW b, NEW u, Presented(b, u)
    PROVE  LET f == [c \in CATEGORIES |-> Terminators(b, u, c)]
           IN  /\ SumOf(f, CATEGORIES) = Ends(b, u) /\ Ends(b, u) \in Nat
               /\ \A c \in CATEGORIES : f[c] \in Nat
<1>. DEFINE f == [c \in CATEGORIES |-> Terminators(b, u, c)]
<1>1. Ends(b, u) \in Nat
    BY SeqPlaces DEF Ends, Presented
<1>2. /\ "control" \in CATEGORIES
      /\ f["control"] = Ends(b, u)
      /\ \A c \in CATEGORIES \ {"control"} : f[c] = 0
    BY DEF Terminators, Ends, CATEGORIES
<1>3. SumOf(f, CATEGORIES) = f["control"]
  <2>. HIDE DEF f
  <2>. QED BY <1>1, <1>2, FourCategories, SumPoint
<1>. QED BY <1>1, <1>2, <1>3

LEMMA SumOfOps ==
    ASSUME NEW b, NEW u, Presented(b, u)
    PROVE  /\ Total(ir_ops(b, u)) = Len(u.instrs) + Ends(b, u)
           /\ ir_ops(b, u) \in [CATEGORIES -> Nat]
<1>. DEFINE S == DOMAIN u.instrs
            lab == [i \in S |-> OpsLabel(b, u.instrs[i])]
            f == [c \in CATEGORIES |-> Cardinality(Fibre(S, lab, c))]
            g == [c \in CATEGORIES |-> Terminators(b, u, c)]
            h == ir_ops(b, u)
<1>1. IsFiniteSet(S) /\ Cardinality(S) = Len(u.instrs)
    BY SeqPlaces DEF Presented
<1>2. \A i \in S : lab[i] \in CATEGORIES
    BY IsLabel
<1>3. /\ SumOf(f, CATEGORIES) = Cardinality(S)
      /\ \A c \in CATEGORIES : f[c] \in Nat
  <2>1. \A c \in CATEGORIES : f[c] = Cardinality(Fibre(S, lab, c))
      OBVIOUS
  <2>. HIDE DEF S, lab, f
  <2>. QED BY <1>1, <1>2, <2>1, SumOfLabels
<1>4. SumOf(g, CATEGORIES) = Ends(b, u) /\ \A c \in CATEGORIES : g[c] \in Nat
    BY SumOfTerminators
<1>5. DOMAIN h = CATEGORIES /\ \A c \in CATEGORIES : h[c] = f[c] + g[c]
  <2>1. \A c : {i \in S : OpsLabel(b, u.instrs[i]) = c} = Fibre(S, lab, c)
      BY DEF Fibre
  <2>. QED BY <2>1 DEF ir_ops
<1>6. h = [c \in CATEGORIES |-> h[c]]
    BY DEF ir_ops
<1>7. SumOf(h, CATEGORIES) = SumOf(f, CATEGORIES) + SumOf(g, CATEGORIES)
  <2>. HIDE DEF f, g, h
  <2>. QED BY <1>3, <1>4, <1>5, FourCategories, SumPlus
<1>8. Total(h) = SumOf(h, CATEGORIES)
  <2>. HIDE DEF h
  <2>. QED BY <1>5, SumIsSumOf
<1>9. h \in [CATEGORIES -> Nat]
  <2>. HIDE DEF f, g, h
  <2>. QED BY <1>3, <1>4, <1>5, <1>6
<1>. QED BY <1>1, <1>3, <1>4, <1>7, <1>8, <1>9

LEMMA SumOfAst ==
    ASSUME NEW b, NEW u, Presented(b, u)
    PROVE  /\ Total(ir_ast(b, u)) = Cardinality(TreeNodes(u)) + Ends(b, u)
                                    + Cardinality(Targets(b, u))
           /\ ir_ast(b, u) \in [CATEGORIES -> Nat]
           /\ Cardinality(TreeNodes(u)) \in Nat /\ Cardinality(Targets(b, u)) \in Nat
           /\ IsFiniteSet(Targets(b, u))
<1>. DEFINE S == TreeNodes(u)
            E == Targets(b, u)
            lab == [p \in S |-> AstLabel(b, u.instrs[p[1]], p[2])]
            low == [p \in E |-> classify_vex_expr(ExitOp(u, p))]
            f == [c \in CATEGORIES |-> Cardinality(Fibre(S, lab, c))]
            g == [c \in CATEGORIES |-> Terminators(b, u, c)]
            e == [c \in CATEGORIES |-> Cardinality(Fibre(E, low, c))]
            fg == [c \in CATEGORIES |-> f[c] + g[c]]
            h == ir_ast(b, u)
<1>1. IsFiniteSet(S) /\ IsFiniteSet(E)
    BY TreeNodesFinite, FS_EmptySet DEF Targets
<1>2. (\A p \in S : lab[p] \in CATEGORIES) /\ (\A p \in E : low[p] \in CATEGORIES)
    BY IsLabel
<1>3. /\ SumOf(f, CATEGORIES) = Cardinality(S) /\ Cardinality(S) \in Nat
      /\ \A c \in CATEGORIES : f[c] \in Nat
  <2>1. \A c \in CATEGORIES : f[c] = Cardinality(Fibre(S, lab, c))
      OBVIOUS
  <2>. HIDE DEF S, lab, f
  <2>. QED BY <1>1, <1>2, <2>1, SumOfLabels
<1>4. /\ SumOf(e, CATEGORIES) = Cardinality(E) /\ Cardinality(E) \in Nat
      /\ \A c \in CATEGORIES : e[c] \in Nat
  <2>1. \A c \in CATEGORIES : e[c] = Cardinality(Fibre(E, low, c))
      OBVIOUS
  <2>. HIDE DEF E, low, e
  <2>. QED BY <1>1, <1>2, <2>1, SumOfLabels
<1>5. /\ SumOf(g, CATEGORIES) = Ends(b, u) /\ Ends(b, u) \in Nat
      /\ \A c \in CATEGORIES : g[c] \in Nat
    BY SumOfTerminators
<1>6. DOMAIN h = CATEGORIES /\ \A c \in CATEGORIES : h[c] = fg[c] + e[c]
  <2>1. \A c : {p \in S : AstLabel(b, u.instrs[p[1]], p[2]) = c} = Fibre(S, lab, c)
      BY DEF Fibre
  <2>2. \A c : {p \in E : classify_vex_expr(ExitOp(u, p)) = c} = Fibre(E, low, c)
      BY DEF Fibre
  <2>3. DOMAIN h = CATEGORIES
      BY DEF ir_ast
  <2>4. ASSUME NEW c \in CATEGORIES
        PROVE  h[c] = fg[c] + e[c]
    <3>1. h[c] = fg[c] + (IF b = "angr"
                          THEN Cardinality({p \in ExitNodes(u) :
                                              classify_vex_expr(ExitOp(u, p)) = c})
                          ELSE 0)
        BY <2>1 DEF ir_ast
    <3>2. CASE b = "angr"
      <4>1. E = ExitNodes(u)
          BY <3>2 DEF Targets
      <4>2. e[c] = Cardinality({p \in ExitNodes(u) : classify_vex_expr(ExitOp(u, p)) = c})
          BY <2>2, <4>1
      <4>. HIDE DEF fg, e, h
      <4>. QED BY <3>1, <3>2, <4>2
    <3>3. CASE b # "angr"
      <4>1. Fibre(E, low, c) = {}
          BY <3>3 DEF Targets, Fibre
      <4>2. e[c] = 0
          BY <4>1, FS_EmptySet
      <4>. HIDE DEF fg, e, h
      <4>. QED BY <3>1, <3>3, <4>2
    <3>. QED BY <3>2, <3>3
  <2>. QED BY <2>3, <2>4
<1>7. \A c \in CATEGORIES : fg[c] = f[c] + g[c]
    OBVIOUS
<1>8. h = [c \in CATEGORIES |-> h[c]]
    BY DEF ir_ast
<1>. HIDE DEF f, g, e, fg, h
<1>9. \A c \in CATEGORIES : fg[c] \in Nat /\ h[c] \in Nat
    BY <1>3, <1>4, <1>5, <1>6, <1>7
<1>10. SumOf(fg, CATEGORIES) = SumOf(f, CATEGORIES) + SumOf(g, CATEGORIES)
  <2>1. \A c \in CATEGORIES : f[c] \in Int /\ g[c] \in Int /\ fg[c] = f[c] + g[c]
      BY <1>3, <1>5, <1>7
  <2>. QED BY <2>1, FourCategories, SumPlus
<1>11. SumOf(h, CATEGORIES) = SumOf(fg, CATEGORIES) + SumOf(e, CATEGORIES)
    BY <1>4, <1>6, <1>9, FourCategories, SumPlus
<1>12. Total(h) = SumOf(h, CATEGORIES)
    BY <1>6, SumIsSumOf
<1>13. Total(h) = Cardinality(S) + Ends(b, u) + Cardinality(E)
  <2>. HIDE DEF S, E
  <2>. QED BY <1>3, <1>4, <1>5, <1>10, <1>11, <1>12
<1>14. h \in [CATEGORIES -> Nat]
    BY <1>8, <1>9
<1>. QED BY <1>1, <1>3, <1>4, <1>13, <1>14 DEF h

LEMMA FiniteImage ==
    ASSUME NEW S, IsFiniteSet(S), NEW f
    PROVE  IsFiniteSet({f[x] : x \in S})
<1>. DEFINE T == {f[x] : x \in S}
            g == [x \in S |-> f[x]]
<1>1. g \in Surjection(S, T)
  <2>1. g \in [S -> T] /\ \A t \in T : \E x \in S : g[x] = t
      OBVIOUS
  <2>. QED BY <2>1 DEF Surjection
<1>. QED BY <1>1, FS_Surjection

LEMMA FibreCounts ==
    ASSUME NEW S, IsFiniteSet(S), NEW key, NEW k
    PROVE  Cardinality(Fibre(S, key, k)) \in Nat
BY FS_Subset, FS_CardinalityType DEF Fibre

IsHist(h) == IsFiniteSet(DOMAIN h) /\ \A o \in DOMAIN h : h[o] \in Nat

\* a histogram has as many entries as things were put into it
LEMMA SumOfHistogram ==
    ASSUME NEW b, NEW u, Presented(b, u)
    PROVE  /\ HistTotal(op_histogram(b, u)) = Cardinality(TreeNodes(u)) + Ends(b, u)
                                                + Cardinality(Targets(b, u))
           /\ IsHist(op_histogram(b, u))
<1>. DEFINE S == TreeNodes(u)
            X == IF b = "angr" THEN DOMAIN u.exits ELSE {}
            E == Targets(b, u)
            op == [p \in S |-> NodeOp(u, p)]
            kind == [i \in X |-> u.exits[i].kind]
            low == [p \in E |-> ExitOp(u, p)]
            N == {op[p] : p \in S} \cup {kind[i] : i \in X} \cup {low[p] : p \in E}
            f == [o \in N |-> Cardinality(Fibre(S, op, o))]
            g == [o \in N |-> Cardinality(Fibre(X, kind, o))]
            e == [o \in N |-> Cardinality(Fibre(E, low, o))]
            fg == [o \in N |-> f[o] + g[o]]
            h == op_histogram(b, u)
<1>1. IsFiniteSet(S) /\ IsFiniteSet(E) /\ IsFiniteSet(X) /\ Cardinality(X) = Ends(b, u)
  <2>1. IsFiniteSet(S) /\ IsFiniteSet(E)
      BY TreeNodesFinite, FS_EmptySet DEF Targets
  <2>2. IsFiniteSet(X) /\ Cardinality(X) = Ends(b, u)
      BY SeqPlaces, FS_EmptySet DEF Ends, Presented
  <2>. QED BY <2>1, <2>2
<1>2. IsFiniteSet(N)
  <2>1. /\ IsFiniteSet({op[p] : p \in S}) /\ IsFiniteSet({kind[i] : i \in X})
        /\ IsFiniteSet({low[p] : p \in E})
    <3>. HIDE DEF S, X, E, op, kind, low
    <3>. QED BY <1>1, FiniteImage
  <2>. HIDE DEF S, X, E, op, kind, low
  <2>. QED BY <2>1, FS_Union
<1>3. /\ \A p \in S : op[p] \in N
      /\ \A i \in X : kind[i] \in N
      /\ \A p \in E : low[p] \in N
    OBVIOUS
<1>4. /\ \A o : {p \in S : NodeOp(u, p) = o} = Fibre(S, op, o)
      /\ \A o : {i \in X : u.exits[i].kind = o} = Fibre(X, kind, o)
      /\ \A o : {p \in E : ExitOp(u, p) = o} = Fibre(E, low, o)
    BY DEF Fibre
<1>5. h = [o \in N |-> fg[o] + e[o]]
  <2>1. N = {NodeOp(u, p) : p \in S} \cup {u.exits[i].kind : i \in X}
              \cup {ExitOp(u, p) : p \in E}
      OBVIOUS
  <2>2. h = [o \in {NodeOp(u, p) : p \in S} \cup {u.exits[i].kind : i \in X}
                     \cup {ExitOp(u, p) : p \in E} |->
                Cardinality({p \in S : NodeOp(u, p) = o})
                  + Cardinality({i \in X : u.exits[i].kind = o})
                  + Cardinality({p \in E : ExitOp(u, p) = o})]
      BY DEF op_histogram, Targets
  <2>3. h = [o \in N |-> Cardinality(Fibre(S, op, o)) + Cardinality(Fibre(X, kind, o))
                           + Cardinality(Fibre(E, low, o))]
    <3>. HIDE DEF S, X, E, N, op, kind, low, h
    <3>. QED BY <1>4, <2>1, <2>2
  <2>. HIDE DEF S, X, E, N, op, kind, low, h
  <2>. QED BY <2>3
<1>6. /\ \A o \in N : f[o] = Cardinality(Fibre(S, op, o))
      /\ \A o \in N : g[o] = Cardinality(Fibre(X, kind, o))
      /\ \A o \in N : e[o] = Cardinality(Fibre(E, low, o))
      /\ \A o \in N : fg[o] = f[o] + g[o]
  <2>. HIDE DEF S, X, E, N, op, kind, low
  <2>. QED OBVIOUS
<1>. HIDE DEF S, X, E, N, op, kind, low, f, g, e, fg
<1>7. /\ SumOf(f, N) = Cardinality(S)
      /\ SumOf(g, N) = Cardinality(X)
      /\ SumOf(e, N) = Cardinality(E)
    BY <1>1, <1>2, <1>3, <1>6, SumFibres
<1>8. \A o \in N : f[o] \in Nat /\ g[o] \in Nat /\ e[o] \in Nat
    BY <1>1, <1>6, FibreCounts
<1>9. SumOf(fg, N) = SumOf(f, N) + SumOf(g, N)
  <2>1. \A o \in N : f[o] \in Int /\ g[o] \in Int /\ fg[o] = f[o] + g[o]
      BY <1>6, <1>8
  <2>. QED BY <1>2, <2>1, SumPlus
<1>10. SumOf(h, N) = SumOf(fg, N) + SumOf(e, N)
  <2>1. \A o \in N : fg[o] \in Int /\ e[o] \in Int /\ h[o] = fg[o] + e[o]
      BY <1>5, <1>6, <1>8
  <2>. QED BY <1>2, <2>1, SumPlus
<1>11. HistTotal(h) = SumOf(h, N)
    BY <1>5, SumIsSumOf
<1>12. Cardinality(S) \in Nat /\ Cardinality(X) \in Nat /\ Cardinality(E) \in Nat
    BY <1>1, FS_CardinalityType
<1>13. HistTotal(h) = Cardinality(S) + Cardinality(X) + Cardinality(E)
    BY <1>7, <1>9, <1>10, <1>11, <1>12
<1>14. IsHist(h)
    BY <1>2, <1>5, <1>6, <1>8 DEF IsHist
<1>. QED BY <1>1, <1>13, <1>14 DEF S, E

\* Ghidra: one P-code operation per tree
LEMMA FlatTrees ==
    ASSUME NEW u, Presented("pyghidra", u)
    PROVE  Cardinality(TreeNodes(u)) = Len(u.instrs)
<1>. DEFINE S == DOMAIN u.instrs
            T == TreeNodes(u)
            g == [i \in S |-> <<i, 1>>]
<1>1. \A i \in S : DOMAIN u.instrs[i].nodes = {1}
  <2>1. TAKE i \in S
  <2>2. Len(u.instrs[i].nodes) = 1
      BY DEF Presented
  <2>3. DOMAIN u.instrs[i].nodes = 1..1
      BY <2>2, RootPlace
  <2>. QED BY <2>3
<1>2. T = {<<i, 1>> : i \in S}
    BY <1>1 DEF TreeNodes
<1>3. g \in Bijection(S, T)
  <2>1. g \in [S -> T] /\ (\A t \in T : \E i \in S : g[i] = t)
      BY <1>2
  <2>2. \A i, j \in S : g[i] = g[j] => i = j
      OBVIOUS
  <2>. QED BY <2>1, <2>2 DEF Bijection, Injection, Surjection, IsInjective
<1>4. IsFiniteSet(S) /\ Cardinality(S) = Len(u.instrs)
    BY SeqPlaces DEF Presented
<1>5. Cardinality(T) = Cardinality(S)
  <2>. HIDE DEF S, T, g
  <2>. QED BY <1>3, <1>4, FS_Bijection DEF ExistsBijection
<1>. QED BY <1>4, <1>5

LEMMA SumOfEsil ==
    ASSUME NEW b, NEW u, Presented(b, u)
    PROVE  /\ Total(classify_esil(u)) = HistTotal(esil_op_histogram(u))
           /\ classify_esil(u) \in [CATEGORIES -> Nat]
           /\ IsHist(esil_op_histogram(u))
<1>. DEFINE S == EsilTokens(u)
            lab == [p \in S |-> EsilLabel(u.esil[p[1]].tokens, p[2])]
            tok == [p \in S |-> u.esil[p[1]].tokens[p[2]]]
            f == classify_esil(u)
            h == esil_op_histogram(u)
            N == {tok[p] : p \in S}
<1>1. IsFiniteSet(S)
  <2>. DEFINE I == DOMAIN u.esil
              D == [i \in I |-> DOMAIN u.esil[i].tokens]
              A == UNION {{i} \X D[i] : i \in I}
  <2>1. IsFiniteSet(I) /\ \A i \in I : IsFiniteSet(D[i])
      BY SeqPlaces DEF Presented
  <2>2. S \subseteq A
      BY DEF EsilTokens
  <2>3. IsFiniteSet(A)
    <3>. HIDE DEF I, D
    <3>. QED BY <2>1, PlacesFinite
  <2>. HIDE DEF A, S
  <2>. QED BY <2>2, <2>3, FS_Subset
<1>2. \A p \in S : lab[p] \in CATEGORIES
  <2>1. \A tokens, k : EsilLabel(tokens, k) \in CATEGORIES
      BY IsLabel DEF EsilLabel, load_esil_operators, CATEGORIES
  <2>. QED BY <2>1
<1>3. f = [c \in CATEGORIES |-> Cardinality(Fibre(S, lab, c))]
  <2>1. \A c : {p \in S : EsilLabel(u.esil[p[1]].tokens, p[2]) = c} = Fibre(S, lab, c)
      BY DEF Fibre
  <2>. QED BY <2>1 DEF classify_esil
<1>4. h = [o \in N |-> Cardinality(Fibre(S, tok, o))]
  <2>1. \A o : {p \in S : u.esil[p[1]].tokens[p[2]] = o} = Fibre(S, tok, o)
      BY DEF Fibre
  <2>2. N = {u.esil[p[1]].tokens[p[2]] : p \in S}
      OBVIOUS
  <2>3. h = [o \in {u.esil[p[1]].tokens[p[2]] : p \in S} |->
                Cardinality({p \in S : u.esil[p[1]].tokens[p[2]] = o})]
      BY DEF esil_op_histogram
  <2>. HIDE DEF S, tok, N, h
  <2>. QED BY <2>1, <2>2, <2>3
<1>5. \A p \in S : tok[p] \in N
    OBVIOUS
<1>6. IsFiniteSet(N)
  <2>. HIDE DEF S, tok
  <2>. QED BY <1>1, FiniteImage
<1>. HIDE DEF S, lab, tok, f, h, N
<1>7. SumOf(f, CATEGORIES) = Cardinality(S) /\ \A c \in CATEGORIES : f[c] \in Nat
    BY <1>1, <1>2, <1>3, SumOfLabels
<1>8. SumOf(h, N) = Cardinality(S)
    BY <1>1, <1>4, <1>5, <1>6, SumFibres
<1>9. Total(f) = SumOf(f, CATEGORIES) /\ HistTotal(h) = SumOf(h, N)
    BY <1>3, <1>4, SumIsSumOf
<1>10. f \in [CATEGORIES -> Nat]
    BY <1>3, <1>7
<1>11. IsHist(h)
    BY <1>1, <1>4, <1>6, FibreCounts DEF IsHist
<1>. QED BY <1>7, <1>8, <1>9, <1>10, <1>11 DEF f, h

LEMMA SumOfNative ==
    ASSUME NEW insns, Listed(insns), NEW arch, NEW bits
    PROVE  /\ Total(EachDecoded(insns, arch, bits)) <= Len(insns)
           /\ Total(EachDecoded(insns, arch, bits)) \in Nat /\ Total(NoCounts) = 0
<1>. DEFINE D == {i \in DOMAIN insns : insns[i].decodes}
            fam == arch_family(arch, bits)
            lab == [i \in D |-> classify_insn(insns[i], fam)]
            f == CountsAt(insns, D, fam)
<1>1. /\ IsFiniteSet(D) /\ Cardinality(D) \in Nat
      /\ Cardinality(D) <= Len(insns) /\ Len(insns) \in Nat
    BY SeqPlaces, FS_Subset, FS_CardinalityType
<1>2. \A i \in D : lab[i] \in CATEGORIES
    BY IsLabel
<1>3. f = [c \in CATEGORIES |-> Cardinality(Fibre(D, lab, c))]
  <2>1. \A c : {i \in D : classify_insn(insns[i], fam) = c} = Fibre(D, lab, c)
      BY DEF Fibre
  <2>. QED BY <2>1 DEF CountsAt
<1>4. SumOf(f, CATEGORIES) = Cardinality(D)
  <2>. HIDE DEF D, lab, f
  <2>. QED BY <1>1, <1>2, <1>3, SumOfLabels
<1>5. Total(f) = SumOf(f, CATEGORIES)
  <2>. HIDE DEF D, lab, f
  <2>. QED BY <1>3, SumIsSumOf
<1>6. Total(NoCounts) = 0
  <2>1. SumOf(NoCounts, CATEGORIES) = 0
      BY FourCategories, SumZero DEF NoCounts
  <2>. QED BY <2>1, SumIsSumOf DEF NoCounts
<1>7. EachDecoded(insns, arch, bits) \in {f, NoCounts}
    BY DEF EachDecoded
<1>. HIDE DEF D, f
<1>. QED BY <1>1, <1>4, <1>5, <1>6, <1>7

LEMMA CountsTyped ==
    ASSUME NEW insns, NEW at, IsFiniteSet(at), NEW family
    PROVE  CountsAt(insns, at, family) \in [CATEGORIES -> Nat]
<1>1. \A c : {i \in at : classify_insn(insns[i], family) = c} \in SUBSET at
    OBVIOUS
<1>2. \A c : Cardinality({i \in at : classify_insn(insns[i], family) = c}) \in Nat
    BY <1>1, FS_Subset, FS_CardinalityType
<1>. QED BY <1>2 DEF CountsAt

LEMMA NativeTyped ==
    ASSUME NEW insns, Listed(insns)
    PROVE  /\ \A arch, bits : EachDecoded(insns, arch, bits) \in [CATEGORIES -> Nat]
           /\ \A family : classify_bytes(insns, family) \in [CATEGORIES -> Nat]
           /\ NoCounts \in [CATEGORIES -> Nat]
<1>1. IsFiniteSet(DOMAIN insns)
    BY SeqPlaces
<1>2. /\ IsFiniteSet({i \in DOMAIN insns : insns[i].decodes})
      /\ IsFiniteSet({i \in DOMAIN insns : \A j \in 1..i : insns[j].decodes})
    BY <1>1, FS_Subset
<1>3. NoCounts \in [CATEGORIES -> Nat]
    BY DEF NoCounts
<1>. QED BY <1>2, <1>3, CountsTyped DEF EachDecoded, classify_bytes

LEMMA CountWithin ==
    ASSUME NEW s, Listed(s), NEW T \in SUBSET DOMAIN s
    PROVE  Cardinality(T) \in Nat /\ Cardinality(T) <= Len(s)
BY SeqPlaces, FS_Subset, FS_CardinalityType

Depths(u) == [i \in DOMAIN u.instrs |-> instruction_depth(u.instrs[i])]

Deepest(u) == Max({Depths(u)[i] : i \in DOMAIN Depths(u)} \cup {0})

\* a list of trees: every one has a level, and none more levels than nodes
LEMMA DepthsWithin ==
    ASSUME NEW b, NEW u, Presented(b, u)
    PROVE  /\ Len(u.instrs) <= Total(Depths(u))
           /\ Total(Depths(u)) <= Len(u.instrs) * Deepest(u) /\ Total(Depths(u)) \in Int
           /\ Deepest(u) \in Int /\ Deepest(u) <= Cardinality(TreeNodes(u))
<1>. DEFINE S == DOMAIN u.instrs
            depths == Depths(u)
            All == {depths[i] : i \in DOMAIN depths} \cup {0}
            deepest == Max(All)
            T == TreeNodes(u)
<1>1. IsFiniteSet(S) /\ Cardinality(S) = Len(u.instrs) /\ Len(u.instrs) \in Nat
    BY SeqPlaces DEF Presented
<1>2. IsFiniteSet(T) /\ Cardinality(T) \in Nat
    BY TreeNodesFinite, FS_CardinalityType
<1>3. ASSUME NEW i \in S
      PROVE  depths[i] \in Nat /\ 1 <= depths[i] /\ depths[i] <= Cardinality(T)
  <2>. DEFINE nodes == u.instrs[i].nodes
              P == DOMAIN nodes
              Levels == {nodes[k].level : k \in P}
              lev == [k \in P |-> nodes[k].level]
  <2>1. Listed(nodes) /\ 1 \in P /\ P = 1..Len(nodes) /\ Len(nodes) \in Nat
      BY RootPlace
  <2>2. \A k \in P : nodes[k].level \in 1..k
      BY DEF Presented, Preorder
  <2>3. \A x \in Levels : x \in Nat /\ 1 <= x /\ x <= Len(nodes)
      BY <2>1, <2>2
  <2>4. Levels # {} /\ IsFiniteSet(Levels) /\ Levels \in SUBSET Int
    <3>1. IsFiniteSet(P)
        BY <2>1, SeqPlaces
    <3>2. Levels = {lev[k] : k \in P}
        OBVIOUS
    <3>3. IsFiniteSet({lev[k] : k \in P})
      <4>. HIDE DEF P, lev
      <4>. QED BY <3>1, FiniteImage
    <3>4. IsFiniteSet(Levels)
      <4>. HIDE DEF Levels, lev
      <4>. QED BY <3>2, <3>3
    <3>5. nodes[1].level \in Levels
        BY <2>1
    <3>6. \A x \in Levels : x \in Int
      <4>. HIDE DEF Levels
      <4>. QED BY <2>3
    <3>. HIDE DEF Levels, nodes
    <3>. QED BY <3>4, <3>5, <3>6
  <2>5. Max(Levels) \in Levels
    <3>. HIDE DEF Levels
    <3>. QED BY <2>4, MaxExists
  <2>6. depths[i] = Max(Levels)
      BY DEF Depths, instruction_depth
  <2>7. Len(nodes) <= Cardinality(T)
    <3>. DEFINE g == [k \in P |-> <<i, k>>]
    <3>1. g \in Injection(P, T)
      <4>1. g \in [P -> T]
          BY DEF TreeNodes
      <4>2. \A j, k \in P : g[j] = g[k] => j = k
          OBVIOUS
      <4>. QED BY <4>1, <4>2 DEF Injection, IsInjective
    <3>2. Cardinality(P) <= Cardinality(T)
      <4>. HIDE DEF P, T, g
      <4>. QED BY <1>2, <3>1, FS_Injection
    <3>3. Cardinality(P) = Len(nodes)
        BY <2>1, SeqPlaces
    <3>. QED BY <3>2, <3>3
  <2>. HIDE DEF nodes, P, Levels, T, depths
  <2>8. depths[i] \in Nat /\ 1 <= depths[i] /\ depths[i] <= Len(nodes)
      BY <2>3, <2>5, <2>6
  <2>. QED BY <1>2, <2>1, <2>7, <2>8
<1>4. DOMAIN depths = S
    BY DEF Depths
<1>. HIDE DEF T, depths, S
<1>5. IsFiniteSet(All) /\ All \in SUBSET Int
  <2>1. IsFiniteSet({depths[i] : i \in S})
      BY <1>1, FiniteImage
  <2>2. IsFiniteSet({0})
      BY FS_Singleton
  <2>3. All = {depths[i] : i \in S} \cup {0}
      BY <1>4
  <2>4. IsFiniteSet({depths[i] : i \in S} \cup {0})
      BY <2>1, <2>2, FS_Union
  <2>5. \A x \in All : x \in Int
      BY <1>3, <2>3
  <2>. HIDE DEF All
  <2>. QED BY <2>3, <2>4, <2>5
<1>6. deepest \in All /\ \A x \in All : x <= deepest
  <2>1. All # {}
      OBVIOUS
  <2>. HIDE DEF All
  <2>. QED BY <1>5, <2>1, MaxExists
<1>7. deepest \in Int /\ deepest <= Cardinality(T)
  <2>. HIDE DEF deepest
  <2>. QED BY <1>2, <1>3, <1>4, <1>6
<1>8. \A i \in S : depths[i] <= deepest
  <2>. HIDE DEF deepest
  <2>. QED BY <1>4, <1>6
<1>9. Len(u.instrs) * 1 <= SumOf(depths, S) /\ SumOf(depths, S) <= Len(u.instrs) * deepest
  <2>1. \A i \in S : depths[i] \in Int /\ 1 <= depths[i] /\ depths[i] <= deepest
      BY <1>3, <1>8
  <2>. HIDE DEF deepest
  <2>2. /\ Cardinality(S) * 1 <= SumOf(depths, S)
        /\ SumOf(depths, S) <= Cardinality(S) * deepest
    <3>1. 1 \in Int
        OBVIOUS
    <3>. QED BY <1>1, <1>7, <2>1, <3>1, SumBetween, Zenon
  <2>. QED BY <1>1, <2>2
<1>10. Total(depths) = SumOf(depths, S)
    BY <1>4, SumIsSumOf
<1>11. Len(u.instrs) <= Total(depths) /\ Total(depths) <= Len(u.instrs) * deepest
  <2>. HIDE DEF deepest
  <2>. QED BY <1>1, <1>9, <1>10
<1>12. Total(depths) \in Int
    BY <1>1, <1>3, <1>10, SumAdd
<1>. QED BY <1>7, <1>11, <1>12 DEF T, depths, S, Deepest

LEMMA NoneIs ==
    None \notin Int /\ None \notin [CATEGORIES -> Nat]
BY NoneAssumption

\* a function with one entry has a cyclomatic complexity of at least one
LEMMA ComplexityCounts ==
    ASSUME NEW b, NEW u, Presented(b, u)
    PROVE  LET blocks == num_cfg_blocks(b, u)
               edges == num_cfg_edges(b, u)
           IN  /\ blocks \in Nat /\ edges \in Int
               /\ cyclomatic_complexity(blocks, edges) > 0
<1>. DEFINE C == DOMAIN u.cfg
            L == LiveBlocks(b, u)
            R == L \ {1}
            outs == [i \in C |-> u.cfg[i].out]
            ins == [i \in C |-> u.cfg[i].into]
            live == [i \in L |-> u.cfg[i].out]
<1>1. IsFiniteSet(C) /\ L \in SUBSET C
    BY SeqPlaces DEF Presented, LiveBlocks
<1>2. IsFiniteSet(L) /\ IsFiniteSet(R) /\ R \in SUBSET C
    BY <1>1, FS_Subset
<1>3. \A i \in C : outs[i] \in Nat /\ ins[i] \in Nat
    BY DEF Presented, OneEntry
<1>4. SumOf(outs, C) = SumOf(ins, C)
    BY SumIsSumOf DEF Presented, OneEntry
<1>5. \A i \in C \ L : outs[i] = 0
  <2>1. TAKE i \in C \ L
  <2>2. ~ (u.cfg[i].out > 0)
      BY DEF LiveBlocks
  <2>3. outs[i] = u.cfg[i].out /\ u.cfg[i].out \in Nat
      BY DEF Presented, OneEntry
  <2>. QED BY <2>2, <2>3
<1>6. \A i \in R : ins[i] >= 1
    BY <1>1, <1>3 DEF Presented, OneEntry
<1>7. num_cfg_edges(b, u) = SumOf(live, L)
    BY SumIsSumOf DEF num_cfg_edges
<1>8. \A i \in L : outs[i] = live[i]
    BY <1>1
<1>. HIDE DEF C, L, outs, ins, live
<1>9. SumOf(live, L) = SumOf(ins, C)
  <2>1. SumOf(outs, C) = SumOf(outs, L)
    <3>1. \A i \in C : outs[i] \in Int
        BY <1>3
    <3>. QED BY <1>1, <1>5, <3>1, SumSupport
  <2>2. SumOf(outs, L) = SumOf(live, L)
    <3>1. \A i \in L : outs[i] \in Int /\ outs[i] = live[i]
        BY <1>1, <1>3, <1>8
    <3>. QED BY <1>2, <3>1, SumEqual
  <2>. QED BY <1>4, <2>1, <2>2
<1>10. SumOf(ins, C) >= Cardinality(R) /\ Cardinality(R) \in Nat /\ SumOf(ins, C) \in Int
  <2>. DEFINE one == [i \in C |-> IF i \in R THEN 1 ELSE 0]
              rest == [i \in C |-> ins[i] - one[i]]
  <2>1. \A i \in C : /\ one[i] \in Int /\ rest[i] \in Int /\ ins[i] \in Int
                     /\ 0 <= rest[i] /\ ins[i] = one[i] + rest[i]
      BY <1>3, <1>6
  <2>2. \A i \in C \ R : one[i] = 0
      OBVIOUS
  <2>3. \A i \in R : one[i] \in Int /\ one[i] = 1
      BY <1>2
  <2>. HIDE DEF one, rest, R
  <2>4. SumOf(one, C) = SumOf(one, R)
      BY <1>1, <1>2, <2>1, <2>2, SumSupport
  <2>5. SumOf(one, R) = Cardinality(R) /\ Cardinality(R) \in Nat
    <3>1. /\ Cardinality(R) \in Nat
          /\ Cardinality(R) * 1 <= SumOf(one, R) /\ SumOf(one, R) <= Cardinality(R) * 1
      <4>1. \A i \in R : one[i] \in Int /\ 1 <= one[i] /\ one[i] <= 1
          BY <2>3
      <4>. QED BY <1>2, <4>1, SumBetween
    <3>2. SumOf(one, R) \in Int
        BY <1>2, <2>3, SumAdd
    <3>. QED BY <3>1, <3>2
  <2>6. SumOf(rest, C) >= 0 /\ SumOf(rest, C) \in Int
      BY <1>1, <2>1, SumOfNats
  <2>7. SumOf(ins, C) = SumOf(one, C) + SumOf(rest, C)
      BY <1>1, <2>1, SumPlus
  <2>. QED BY <2>4, <2>5, <2>6, <2>7
<1>11. Cardinality(L) \in Nat /\ Cardinality(L) <= Cardinality(R) + 1
  <2>1. Cardinality(L) \in Nat
      BY <1>2, FS_CardinalityType
  <2>2. CASE 1 \in L
    <3>1. Cardinality(R) = Cardinality(L) - 1
        BY <1>2, <2>2, FS_RemoveElement
    <3>. QED BY <2>1, <3>1
  <2>3. CASE 1 \notin L
    <3>1. R = L
        BY <2>3
    <3>. QED BY <2>1, <3>1
  <2>. QED BY <2>1, <2>2, <2>3
<1>12. num_cfg_blocks(b, u) = Cardinality(L)
    BY DEF num_cfg_blocks, L
<1>13. /\ num_cfg_blocks(b, u) \in Nat /\ num_cfg_edges(b, u) \in Int
       /\ num_cfg_edges(b, u) - num_cfg_blocks(b, u) + 2 > 0
  <2>. HIDE DEF R
  <2>. QED BY <1>7, <1>9, <1>10, <1>11, <1>12
<1>. QED BY <1>13, NoneIs DEF cyclomatic_complexity


----------------------------------------------------------------------------

LEMMA NestingAgrees ==
    ASSUME NEW run, run.backend \in Nesting, NEW u, Presented(run.backend, u)
    PROVE  RecordAgrees(run.backend, NestingRecord(run, u))
<1>. DEFINE b == run.backend
            rec == NestingRecord(run, u)
<1>1. /\ rec.ir_size = Len(u.instrs) /\ rec.ops = ir_ops(b, u)
      /\ rec.ast = ir_ast(b, u) /\ rec.histogram = op_histogram(b, u)
      /\ rec.escapes = num_escapes(b, u) /\ rec.uncovered = None
      /\ rec.native = EachDecoded(u.insns, run.arch, run.bits)
      /\ rec.num_native = Len(u.insns) /\ rec.sum_depth = Total(Depths(u))
      /\ rec.max_depth = Deepest(u)
      /\ rec.blocks = num_cfg_blocks(b, u) /\ rec.edges = num_cfg_edges(b, u)
    BY DEF NestingRecord, OkFields, Depths, Deepest
<1>2. rec.ops # None /\ rec.ast # None
    BY <1>1, SumOfOps, SumOfAst, NoneIs
<1>3. Total(rec.ops) = rec.ir_size + Ends(b, u) /\ Ends(b, u) \in Nat /\ rec.ir_size \in Nat
  <2>1. Ends(b, u) \in Nat
      BY SumOfTerminators
  <2>2. Len(u.instrs) \in Nat
      BY SeqPlaces DEF Presented
  <2>. HIDE DEF rec
  <2>. QED BY <1>1, <2>1, <2>2, SumOfOps
<1>4. IF b = "angr" THEN rec.ir_size <= Total(rec.ops) ELSE rec.ir_size = Total(rec.ops)
  <2>. HIDE DEF rec
  <2>. QED BY <1>3 DEF Ends
<1>5. \A c \in CATEGORIES : rec.ops[c] <= rec.ast[c]
    BY FlatWithinTree
<1>6. HistTotal(rec.histogram) = Total(rec.ast)
  <2>. HIDE DEF rec
  <2>. QED BY <1>1, SumOfHistogram, SumOfAst
<1>7. rec.escapes <= rec.ir_size
  <2>1. Listed(u.instrs)
      BY DEF Presented
  <2>2. num_escapes(b, u) <= Len(u.instrs)
      BY <2>1, CountWithin DEF num_escapes
  <2>. HIDE DEF rec
  <2>. QED BY <1>1, <2>2
<1>8. Total(rec.native) <= rec.num_native
  <2>1. Listed(u.insns)
      BY DEF Presented
  <2>. HIDE DEF rec
  <2>. QED BY <1>1, <2>1, SumOfNative
<1>9. /\ rec.ir_size <= rec.sum_depth
      /\ rec.sum_depth <= rec.ir_size * rec.max_depth
      /\ rec.max_depth \in Int /\ rec.max_depth <= Cardinality(TreeNodes(u))
  <2>. HIDE DEF rec
  <2>. QED BY <1>1, DepthsWithin
<1>10. rec.max_depth <= Total(rec.ast)
  <2>1. /\ Total(rec.ast) = Cardinality(TreeNodes(u)) + Ends(b, u) + Cardinality(Targets(b, u))
        /\ Cardinality(TreeNodes(u)) \in Nat /\ Cardinality(Targets(b, u)) \in Nat
    <3>. HIDE DEF rec
    <3>. QED BY <1>1, SumOfAst
  <2>. HIDE DEF rec
  <2>. QED BY <1>3, <1>9, <2>1
<1>11. cyclomatic_complexity(rec.blocks, rec.edges) > 0
  <2>. HIDE DEF rec
  <2>. QED BY <1>1, ComplexityCounts
<1>. HIDE DEF rec
<1>12. RecordAgrees(b, rec)
    BY <1>1, <1>2, <1>4, <1>5, <1>6, <1>7, <1>8, <1>9, <1>10, <1>11 DEF RecordAgrees
<1>. QED BY <1>12 DEF rec

LEMMA PcodeAgrees ==
    ASSUME NEW run, NEW u, Presented("pyghidra", u)
    PROVE  RecordAgrees("pyghidra", PcodeRecord(run, u))
<1>. DEFINE b == "pyghidra"
            rec == PcodeRecord(run, u)
<1>1. /\ rec.ir_size = Len(u.instrs) /\ rec.ops = ir_ops(b, u)
      /\ rec.ast = None /\ rec.histogram = op_histogram(b, u)
      /\ rec.escapes = num_escapes(b, u) /\ rec.uncovered = None
      /\ rec.native = EachDecoded(u.insns, run.arch, run.bits)
      /\ rec.num_native = Len(u.insns) /\ rec.sum_depth = None
      /\ rec.blocks = num_cfg_blocks(b, u) /\ rec.edges = num_cfg_edges(b, u)
    BY DEF PcodeRecord, OkFields
<1>2. Ends(b, u) = 0 /\ Cardinality(Targets(b, u)) = 0
    BY FS_EmptySet DEF Ends, Targets
<1>3. Len(u.instrs) \in Nat
    BY SeqPlaces DEF Presented
<1>. HIDE DEF rec
<1>4. Total(rec.ops) = rec.ir_size
    BY <1>1, <1>2, <1>3, SumOfOps
<1>5. rec.ops # None /\ \A c \in CATEGORIES : rec.ops[c] <= rec.ops[c]
  <2>1. rec.ops \in [CATEGORIES -> Nat]
      BY <1>1, SumOfOps
  <2>. QED BY <2>1, NoneIs
<1>6. HistTotal(rec.histogram) = Total(rec.ops)
  <2>1. HistTotal(rec.histogram) = Cardinality(TreeNodes(u)) + Ends(b, u)
                                     + Cardinality(Targets(b, u))
      BY <1>1, SumOfHistogram
  <2>. QED BY <1>1, <1>2, <1>3, <1>4, <2>1, FlatTrees
<1>7. rec.escapes <= rec.ir_size
  <2>1. Listed(u.instrs)
      BY DEF Presented
  <2>2. num_escapes(b, u) <= Len(u.instrs)
      BY <2>1, CountWithin DEF num_escapes
  <2>. QED BY <1>1, <2>2
<1>8. Total(rec.native) <= rec.num_native
  <2>1. Listed(u.insns)
      BY DEF Presented
  <2>. QED BY <1>1, <2>1, SumOfNative
<1>9. cyclomatic_complexity(rec.blocks, rec.edges) > 0
    BY <1>1, ComplexityCounts
<1>10. RecordAgrees(b, rec)
    BY <1>1, <1>4, <1>5, <1>6, <1>7, <1>8, <1>9 DEF RecordAgrees
<1>. QED BY <1>10 DEF rec

LEMMA EsilAgrees ==
    ASSUME NEW run, NEW u, Presented("r2", u)
    PROVE  RecordAgrees("r2", EsilRecord(run, u))
<1>. DEFINE b == "r2"
            rec == EsilRecord(run, u)
<1>1. /\ rec.ir_size = Total(classify_esil(u)) /\ rec.ops = classify_esil(u)
      /\ rec.ast = None /\ rec.histogram = esil_op_histogram(u)
      /\ rec.escapes = None /\ rec.uncovered = num_uncovered(u)
      /\ rec.native = EachDecoded(u.insns, run.arch, run.bits)
      /\ rec.num_native = Len(u.esil) /\ rec.sum_depth = None
      /\ rec.blocks = num_cfg_blocks(b, u) /\ rec.edges = num_cfg_edges(b, u)
    BY DEF EsilRecord, OkFields
<1>2. Listed(u.insns) /\ Listed(u.esil) /\ Len(u.esil) = Len(u.insns)
    BY DEF Presented
<1>. HIDE DEF rec
<1>3. rec.ops # None /\ \A c \in CATEGORIES : rec.ops[c] <= rec.ops[c]
  <2>1. rec.ops \in [CATEGORIES -> Nat]
      BY <1>1, SumOfEsil
  <2>. QED BY <2>1, NoneIs
<1>4. HistTotal(rec.histogram) = Total(rec.ops)
    BY <1>1, SumOfEsil
<1>5. rec.uncovered <= rec.num_native
  <2>1. num_uncovered(u) <= Len(u.esil)
      BY <1>2, CountWithin DEF num_uncovered
  <2>. QED BY <1>1, <2>1
<1>6. Total(rec.native) <= rec.num_native
    BY <1>1, <1>2, SumOfNative
<1>7. cyclomatic_complexity(rec.blocks, rec.edges) > 0
    BY <1>1, ComplexityCounts
<1>8. RecordAgrees(b, rec)
    BY <1>1, <1>3, <1>4, <1>5, <1>6, <1>7 DEF RecordAgrees
<1>. QED BY <1>8 DEF rec

LEMMA RetdecAgrees ==
    ASSUME NEW u, Presented("retdec", u), u.lines # <<>>
    PROVE  RecordAgrees("retdec", RetdecRecord(u))
<1>. DEFINE rec == RetdecRecord(u)
            T == {i \in DOMAIN u.lines : u.lines[i].kind # "uselistorder"}
<1>1. rec.ops = None /\ rec.ir_size = Cardinality(T)
    BY DEF RetdecRecord, OkFields, split_ll_by_function
<1>2. Listed(u.lines) /\ u.lines[1].kind = "define"
    BY DEF Presented
<1>3. 1 \in T
  <2>1. 1 \in DOMAIN u.lines
      BY <1>2 DEF Listed
  <2>. QED BY <1>2, <2>1
<1>4. IsFiniteSet(T) /\ Cardinality(T) \in Nat
    BY <1>2, SeqPlaces, FS_Subset, FS_CardinalityType
<1>5. Cardinality(T) # 0
  <2>. HIDE DEF T
  <2>. QED BY <1>3, <1>4, FS_EmptySet
<1>. HIDE DEF rec, T
<1>6. RecordAgrees("retdec", rec)
    BY <1>1, <1>4, <1>5 DEF RecordAgrees
<1>. QED BY <1>6 DEF rec

\* Whatever function a tool presents, to whichever backend: if the record says
\* it was lifted, its numbers agree with each other (lift_function and run of
\* every backend).
THEOREM RecordsAgree ==
    ASSUME NEW run, run.backend \in Nesting \cup {"pyghidra", "r2", "retdec"},
           NEW u, Presented(run.backend, u), Lifted(run, u).status = "ok"
    PROVE  RecordAgrees(run.backend, Lifted(run, u))
<1>1. Unlifted(u, "error").status # "ok" /\ Unlifted(u, "skipped").status # "ok"
    BY DEF Unlifted
<1>2. CASE run.backend = "retdec"
  <2>1. Lifted(run, u) = RetdecRecord(u)
      BY <1>2 DEF Lifted
  <2>2. u.lines # <<>>
      BY <1>1, <2>1 DEF RetdecRecord
  <2>. QED BY <1>2, <2>1, <2>2, RetdecAgrees
<1>3. CASE run.backend \in Nesting
  <2>1. Lifted(run, u) = NestingRecord(run, u)
      BY <1>1, <1>3 DEF Lifted, Nesting, Bnil
  <2>. QED BY <1>3, <2>1, NestingAgrees
<1>4. CASE run.backend = "r2"
  <2>1. Lifted(run, u) = EsilRecord(run, u)
      BY <1>1, <1>4 DEF Lifted, Nesting, Bnil
  <2>. QED BY <1>4, <2>1, EsilAgrees
<1>5. CASE run.backend = "pyghidra"
  <2>1. Lifted(run, u) = PcodeRecord(run, u)
      BY <1>1, <1>5 DEF Lifted, Nesting, Bnil
  <2>. QED BY <1>5, <2>1, PcodeAgrees
<1>. QED BY <1>2, <1>3, <1>4, <1>5

----------------------------------------------------------------------------
(* What the metrics rely on. *)

OrNone(S) == S \cup {None}

Counted(backend, rec) ==
    /\ rec.ir_size \in Nat
    /\ backend # "retdec" =>
        /\ rec.ops \in [CATEGORIES -> Nat] /\ rec.ast \in OrNone([CATEGORIES -> Nat])
        /\ rec.native \in [CATEGORIES -> Nat] /\ rec.num_native \in Nat
        /\ IsHist(rec.histogram)
        /\ rec.temps \in Nat /\ rec.ssa \in OrNone(Nat)
        /\ rec.escapes \in OrNone(Nat) /\ rec.uncovered \in OrNone(Nat)
        /\ rec.sum_depth \in OrNone(Int) /\ rec.max_depth \in OrNone(Int)
        /\ rec.blocks \in Int /\ rec.edges \in Int

LEMMA LiftedCounts ==
    ASSUME NEW run, run.backend \in Nesting \cup {"pyghidra", "r2", "retdec"},
           NEW u, Presented(run.backend, u), Lifted(run, u).status = "ok"
    PROVE  Counted(run.backend, Lifted(run, u))
<1>1. Unlifted(u, "error").status # "ok" /\ Unlifted(u, "skipped").status # "ok"
    BY DEF Unlifted
<1>2. /\ Len(u.instrs) \in Nat /\ Len(u.insns) \in Nat /\ Len(u.esil) \in Nat
      /\ Listed(u.insns) /\ Listed(u.instrs) /\ Listed(u.esil) /\ Listed(u.lines)
      /\ u.temps \in Nat /\ u.ssa \in OrNone(Nat)
    BY SeqPlaces DEF Presented, OrNone
<1>3. /\ \A arch, bits : EachDecoded(u.insns, arch, bits) \in [CATEGORIES -> Nat]
      /\ num_cfg_blocks(run.backend, u) \in Int /\ num_cfg_edges(run.backend, u) \in Int
      /\ num_escapes(run.backend, u) \in Nat /\ num_uncovered(u) \in Nat
    BY <1>2, NativeTyped, ComplexityCounts, CountWithin DEF num_escapes, num_uncovered
<1>. USE DEF OrNone
<1>4. CASE run.backend \in Nesting
  <2>1. Lifted(run, u) = NestingRecord(run, u)
      BY <1>1, <1>4 DEF Lifted, Nesting, Bnil
  <2>. DEFINE rec == NestingRecord(run, u)
  <2>2. /\ rec.ops = ir_ops(run.backend, u) /\ rec.num_native = Len(u.insns)
        /\ rec.ir_size = Len(u.instrs) /\ rec.histogram = op_histogram(run.backend, u)
        /\ rec.ast = ir_ast(run.backend, u)
        /\ rec.native = EachDecoded(u.insns, run.arch, run.bits)
      BY DEF NestingRecord, OkFields
  <2>3. /\ rec.temps = u.temps /\ rec.ssa \in {u.temps, None, u.ssa}
        /\ rec.escapes = num_escapes(run.backend, u) /\ rec.uncovered = None
        /\ rec.sum_depth = Total(Depths(u)) /\ rec.max_depth = Deepest(u)
        /\ rec.blocks = num_cfg_blocks(run.backend, u)
        /\ rec.edges = num_cfg_edges(run.backend, u)
      BY DEF NestingRecord, OkFields, Depths, Deepest
  <2>. HIDE DEF rec
  <2>4. Total(Depths(u)) \in Int /\ Deepest(u) \in Int
      BY DepthsWithin
  <2>5. /\ ir_ops(run.backend, u) \in [CATEGORIES -> Nat]
        /\ ir_ast(run.backend, u) \in [CATEGORIES -> Nat]
        /\ IsHist(op_histogram(run.backend, u))
      BY SumOfOps, SumOfAst, SumOfHistogram
  <2>6. Counted(run.backend, rec)
      BY <1>2, <1>3, <2>2, <2>3, <2>4, <2>5 DEF Counted
  <2>. QED BY <2>1, <2>6 DEF rec
<1>5. CASE run.backend = "r2"
  <2>1. Lifted(run, u) = EsilRecord(run, u)
      BY <1>1, <1>5 DEF Lifted, Nesting, Bnil
  <2>. DEFINE rec == EsilRecord(run, u)
              ops == classify_esil(u)
  <2>2. /\ rec.ops = ops /\ rec.num_native = Len(u.esil) /\ rec.ir_size = Total(ops)
        /\ rec.histogram = esil_op_histogram(u) /\ rec.ast = None
        /\ rec.native = EachDecoded(u.insns, run.arch, run.bits)
      BY DEF EsilRecord, OkFields
  <2>3. /\ rec.temps = 0 /\ rec.ssa = None /\ rec.escapes = None
        /\ rec.uncovered = num_uncovered(u)
        /\ rec.sum_depth = None /\ rec.max_depth = None
        /\ rec.blocks = num_cfg_blocks(run.backend, u)
        /\ rec.edges = num_cfg_edges(run.backend, u)
      BY <1>5 DEF EsilRecord, OkFields
  <2>4. ops \in [CATEGORIES -> Nat] /\ IsHist(esil_op_histogram(u))
      BY <1>5, SumOfEsil
  <2>. HIDE DEF rec, ops
  <2>5. Total(ops) \in Nat
    <3>1. SumOf(ops, CATEGORIES) \in Int /\ SumOf(ops, CATEGORIES) >= 0
        BY <2>4, FourCategories, SumOfNats
    <3>2. Total(ops) = SumOf(ops, CATEGORIES)
        BY <2>4, SumIsSumOf
    <3>. QED BY <3>1, <3>2
  <2>6. Counted(run.backend, rec)
      BY <1>2, <1>3, <2>2, <2>3, <2>4, <2>5 DEF Counted
  <2>. QED BY <2>1, <2>6 DEF rec
<1>6. CASE run.backend = "pyghidra"
  <2>1. Lifted(run, u) = PcodeRecord(run, u)
      BY <1>1, <1>6 DEF Lifted, Nesting, Bnil
  <2>. DEFINE rec == PcodeRecord(run, u)
  <2>2. /\ rec.ops = ir_ops(run.backend, u) /\ rec.num_native = Len(u.insns)
        /\ rec.ir_size = Len(u.instrs) /\ rec.histogram = op_histogram(run.backend, u)
        /\ rec.ast = None /\ rec.native = EachDecoded(u.insns, run.arch, run.bits)
      BY <1>6 DEF PcodeRecord, OkFields
  <2>3. /\ rec.temps = u.temps /\ rec.ssa = None
        /\ rec.escapes = num_escapes(run.backend, u) /\ rec.uncovered = None
        /\ rec.sum_depth = None /\ rec.max_depth = None
        /\ rec.blocks = num_cfg_blocks(run.backend, u)
        /\ rec.edges = num_cfg_edges(run.backend, u)
      BY <1>6 DEF PcodeRecord, OkFields
  <2>. HIDE DEF rec
  <2>4. /\ ir_ops(run.backend, u) \in [CATEGORIES -> Nat]
        /\ IsHist(op_histogram(run.backend, u))
      BY SumOfOps, SumOfHistogram
  <2>5. Counted(run.backend, rec)
      BY <1>2, <1>3, <2>2, <2>3, <2>4 DEF Counted
  <2>. QED BY <2>1, <2>5 DEF rec
<1>7. CASE run.backend = "retdec"
  <2>1. Lifted(run, u) = RetdecRecord(u)
      BY <1>7 DEF Lifted
  <2>2. u.lines # <<>>
      BY <1>1, <2>1 DEF RetdecRecord
  <2>3. RetdecRecord(u).ir_size = split_ll_by_function(u.lines)
      BY <2>2 DEF RetdecRecord, OkFields
  <2>4. split_ll_by_function(u.lines) \in Nat
      BY <1>2, CountWithin DEF split_ll_by_function
  <2>. QED BY <1>7, <2>1, <2>3, <2>4 DEF Counted
<1>. QED BY <1>4, <1>5, <1>6, <1>7

LEMMA SumOfLines ==
    ASSUME NEW lines, Listed(lines)
    PROVE  Total(retdec_ir_counts(lines)) = Len(lines)
<1>. DEFINE S == DOMAIN lines
            lab == [i \in S |-> classify_ll_line(lines[i])]
            f == retdec_ir_counts(lines)
<1>1. IsFiniteSet(S) /\ Cardinality(S) = Len(lines)
    BY SeqPlaces
<1>2. \A i \in S : lab[i] \in CATEGORIES
    BY IsLabel DEF classify_ll_line, CATEGORIES
<1>3. f = [c \in CATEGORIES |-> Cardinality(Fibre(S, lab, c))]
  <2>1. \A c : {i \in S : classify_ll_line(lines[i]) = c} = Fibre(S, lab, c)
      BY DEF Fibre
  <2>. QED BY <2>1 DEF retdec_ir_counts
<1>. HIDE DEF S, lab, f
<1>4. SumOf(f, CATEGORIES) = Cardinality(S)
    BY <1>1, <1>2, <1>3, SumOfLabels
<1>5. Total(f) = SumOf(f, CATEGORIES)
    BY <1>3, SumIsSumOf
<1>. QED BY <1>1, <1>4, <1>5 DEF f

LEMMA LlHistogram ==
    ASSUME NEW lines, Listed(lines)
    PROVE  IsHist(retdec_op_histogram(lines))
<1>. DEFINE S == {i \in LlBody(lines) : lines[i].kind = "insn"}
            op == [i \in S |-> lines[i].op]
            N == {op[i] : i \in S}
            h == retdec_op_histogram(lines)
<1>1. IsFiniteSet(S)
  <2>1. IsFiniteSet(LlBody(lines))
    <3>1. Len(lines) \in Nat
        BY SeqPlaces
    <3>. QED BY <3>1, FS_Interval DEF LlBody
  <2>. QED BY <2>1, FS_Subset
<1>2. h = [o \in N |-> Cardinality(Fibre(S, op, o))]
  <2>1. \A o : {i \in S : lines[i].op = o} = Fibre(S, op, o)
      BY DEF Fibre
  <2>2. N = {lines[i].op : i \in S}
      OBVIOUS
  <2>3. h = [o \in {lines[i].op : i \in S} |-> Cardinality({i \in S : lines[i].op = o})]
      BY DEF retdec_op_histogram
  <2>. HIDE DEF S, op, N, h
  <2>. QED BY <2>1, <2>2, <2>3
<1>3. IsFiniteSet(N)
  <2>. HIDE DEF S, op
  <2>. QED BY <1>1, FiniteImage
<1>. HIDE DEF S, op, N, h
<1>4. IsHist(h)
    BY <1>1, <1>2, <1>3, FibreCounts DEF IsHist
<1>. QED BY <1>4 DEF h

\* the two similarities are without a value for the same histograms: if
\* neither function has an operation
LEMMA SimilaritiesOfSame ==
    ASSUME NEW a, NEW b, IsHist(a), IsHist(b)
    PROVE  weighted_jaccard(a, b) = None <=> jensen_shannon_similarity(a, b) = None
<1>. DEFINE K == HistKeys(a, b)
            most == [k \in K |-> Max({Freq(a, k), Freq(b, k)})]
            least == [k \in K |-> Min({Freq(a, k), Freq(b, k)})]
<1>1. IsFiniteSet(K) /\ DOMAIN a \subseteq K /\ DOMAIN b \subseteq K
    BY FS_Union DEF IsHist, HistKeys
<1>2. \A k \in K : Freq(a, k) \in Nat /\ Freq(b, k) \in Nat
    BY DEF Freq, IsHist
<1>3. \A k \in K : /\ most[k] \in Nat /\ least[k] \in Nat
                    /\ Freq(a, k) <= most[k] /\ Freq(b, k) <= most[k]
                    /\ most[k] \in {Freq(a, k), Freq(b, k)}
  <2>1. TAKE k \in K
  <2>2. \A m, n \in Nat : /\ Max({m, n}) \in {m, n} /\ m <= Max({m, n})
                          /\ n <= Max({m, n}) /\ Min({m, n}) \in {m, n}
      BY PairBounds
  <2>. QED BY <1>2, <2>2
<1>4. HistTotal(most) = SumOf(most, K) /\ HistTotal(least) = SumOf(least, K)
      /\ HistTotal(a) = SumOf(a, DOMAIN a) /\ HistTotal(b) = SumOf(b, DOMAIN b)
  <2>1. DOMAIN most = K /\ DOMAIN least = K
      OBVIOUS
  <2>. HIDE DEF most, least, K
  <2>. QED BY <2>1, SumIsSumOf
<1>5. weighted_jaccard(a, b) =
        IF HistTotal(most) = 0 THEN None ELSE <<HistTotal(least), HistTotal(most)>>
    BY DEF weighted_jaccard
<1>. HIDE DEF K, most, least
<1>6. SumOf(least, K) \in Int /\ SumOf(most, K) \in Int
    BY <1>1, <1>3, SumAdd
<1>7. weighted_jaccard(a, b) = None <=> SumOf(most, K) = 0
    BY <1>4, <1>5, <1>6, NoneAssumption
<1>8. jensen_shannon_similarity(a, b) = None
        <=> SumOf(a, DOMAIN a) = 0 /\ SumOf(b, DOMAIN b) = 0
    BY <1>4, NoneAssumption DEF jensen_shannon_similarity
<1>9. ASSUME SumOf(most, K) = 0
      PROVE  SumOf(a, DOMAIN a) = 0 /\ SumOf(b, DOMAIN b) = 0
  <2>1. \A k \in K : most[k] = 0
      BY <1>1, <1>3, <1>9, SumIsZero
  <2>2. \A k \in K : Freq(a, k) = 0 /\ Freq(b, k) = 0
      BY <1>2, <1>3, <2>1
  <2>3. (\A k \in DOMAIN a : a[k] = 0) /\ (\A k \in DOMAIN b : b[k] = 0)
      BY <1>1, <2>2 DEF Freq
  <2>. QED BY <2>3, SumZero DEF IsHist
<1>10. ASSUME SumOf(a, DOMAIN a) = 0 /\ SumOf(b, DOMAIN b) = 0
       PROVE  SumOf(most, K) = 0
  <2>1. (\A k \in DOMAIN a : a[k] = 0) /\ (\A k \in DOMAIN b : b[k] = 0)
      BY <1>10, SumIsZero DEF IsHist
  <2>2. \A k \in K : most[k] = 0
      BY <1>3, <2>1 DEF Freq
  <2>. QED BY <1>1, <2>2, SumZero
<1>. QED BY <1>7, <1>8, <1>9, <1>10

LEMMA LastNamedIsNamed ==
    ASSUME NEW units, Listed(units), NEW i \in DOMAIN units
    PROVE  \E k \in DOMAIN units : /\ units[k].name = units[i].name
                                   /\ LastNamed(units, units[i].name) = units[k]
<1>. DEFINE n == units[i].name
            S == {k \in DOMAIN units : units[k].name = n}
<1>1. IsFiniteSet(S) /\ S \in SUBSET Int /\ S # {}
  <2>1. DOMAIN units = 1..Len(units) /\ IsFiniteSet(DOMAIN units) /\ Len(units) \in Nat
      BY SeqPlaces DEF Listed
  <2>. QED BY <2>1, FS_Subset
<1>2. Max(S) \in S
  <2>. HIDE DEF S
  <2>. QED BY <1>1, MaxExists
<1>3. LastNamed(units, n) = units[Max(S)]
    BY DEF LastNamed
<1>. QED BY <1>2, <1>3

\* RetDec's records name functions the .ll has
Joined(records, d) ==
    /\ \A j \in DOMAIN records : records[j].status = "ok" =>
          LET n == records[j].function
          IN  n \in DOMAIN d.ll /\ Listed(d.ll[n]) /\ d.ll[n] # <<>>
    /\ \A n \in DOMAIN d.dsm : Listed(d.dsm[n])

LEMMA OutputsJoined ==
    ASSUME NEW run, run.backend = "retdec", NEW units, PresentedAll("retdec", units)
    PROVE  Joined(Outputs(run, units).records, Outputs(run, units))
<1>. DEFINE d == Outputs(run, units)
<1>1. /\ d.records = [i \in DOMAIN units |-> RetdecRecord(units[i])]
      /\ d.ll = [n \in {units[i].name : i \in {i \in DOMAIN units :
                                                 units[i].lines # <<>>}} |->
                   LastNamed(units, n).lines]
      /\ d.dsm = [n \in {units[i].name : i \in DOMAIN units} |->
                    LastNamed(units, n).insns]
  <2>1. \A u : Lifted(run, u) = RetdecRecord(u)
      BY DEF Lifted
  <2>. QED BY <2>1 DEF Outputs
<1>2. Listed(units) /\ \A k \in DOMAIN units : Presented("retdec", units[k])
    BY DEF PresentedAll
<1>. HIDE DEF d
<1>3. ASSUME NEW j \in DOMAIN d.records, d.records[j].status = "ok"
      PROVE  LET n == d.records[j].function
             IN  n \in DOMAIN d.ll /\ Listed(d.ll[n]) /\ d.ll[n] # <<>>
  <2>1. j \in DOMAIN units /\ d.records[j] = RetdecRecord(units[j])
      BY <1>1
  <2>2. units[j].lines # <<>> /\ d.records[j].function = units[j].name
      BY <1>3, <2>1 DEF RetdecRecord, Unlifted, OkFields
  <2>3. units[j].name \in DOMAIN d.ll
      BY <1>1, <2>1, <2>2
  <2>4. PICK k \in DOMAIN units : /\ units[k].name = units[j].name
                                  /\ LastNamed(units, units[j].name) = units[k]
      BY <1>2, <2>1, LastNamedIsNamed
  <2>5. d.ll[units[j].name] = units[k].lines
      BY <1>1, <2>3, <2>4
  <2>6. units[k].lines = units[j].lines
      BY <2>1, <2>4 DEF PresentedAll
  <2>7. Listed(units[k].lines)
      BY <1>2 DEF Presented
  <2>. QED BY <2>2, <2>3, <2>5, <2>6, <2>7
<1>4. ASSUME NEW n \in DOMAIN d.dsm
      PROVE  Listed(d.dsm[n])
  <2>1. PICK i \in DOMAIN units : n = units[i].name
      BY <1>1
  <2>2. PICK k \in DOMAIN units : LastNamed(units, n) = units[k]
      BY <1>2, <2>1, LastNamedIsNamed
  <2>3. d.dsm[n] = units[k].insns
      BY <1>1, <2>2
  <2>. QED BY <1>2, <2>3 DEF Presented
<1>5. Joined(d.records, d)
    BY <1>3, <1>4 DEF Joined
<1>. QED BY <1>5 DEF d

----------------------------------------------------------------------------
(* Fractions and order statistics (formulas.py). *)

IsFraction(f) == f \in Int \X Int /\ f[2] > 0

LEMMA TimesKeeps ==
    ASSUME NEW x \in Int, NEW y \in Int, NEW z \in Int, x <= y, z > 0
    PROVE  x * z <= y * z
OBVIOUS

LEMMA TimesCancels ==
    ASSUME NEW x \in Int, NEW y \in Int, NEW z \in Int, x * z <= y * z, z > 0
    PROVE  x <= y
<1>1. CASE y < x
  <2>1. y + 1 <= x /\ y + 1 \in Int
      BY <1>1
  <2>2. (y + 1) * z <= x * z
      BY <2>1, TimesKeeps
  <2>3. (y + 1) * z = y * z + z
      OBVIOUS
  <2>4. x * z \in Int /\ y * z \in Int
      OBVIOUS
  <2>. QED BY <2>2, <2>3, <2>4
<1>. QED BY <1>1

LEMMA FractionsOrdered ==
    ASSUME NEW a, NEW b, IsFraction(a), IsFraction(b)
    PROVE  /\ AtMost(a, a) /\ (AtMost(a, b) \/ AtMost(b, a))
           /\ Below(a, b) <=> ~ AtMost(b, a)
<1>1. a[1] * b[2] \in Int /\ b[1] * a[2] \in Int /\ a[1] * a[2] \in Int
    BY DEF IsFraction
<1>. QED BY <1>1 DEF AtMost, Below

LEMMA AtMostTransitive ==
    ASSUME NEW a, NEW b, NEW c, IsFraction(a), IsFraction(b), IsFraction(c),
           AtMost(a, b), AtMost(b, c)
    PROVE  AtMost(a, c)
<1>. DEFINE a1 == a[1]
            a2 == a[2]
            b1 == b[1]
            b2 == b[2]
            c1 == c[1]
            c2 == c[2]
<1>1. /\ a1 \in Int /\ a2 \in Int /\ b1 \in Int /\ b2 \in Int /\ c1 \in Int /\ c2 \in Int
      /\ a2 > 0 /\ b2 > 0 /\ c2 > 0
    BY DEF IsFraction
<1>2. a1 * b2 <= b1 * a2 /\ b1 * c2 <= c1 * b2
    BY DEF AtMost
<1>. HIDE DEF a1, a2, b1, b2, c1, c2
<1>3. (a1 * b2) * c2 <= (b1 * a2) * c2
    BY <1>1, <1>2, TimesKeeps
<1>4. (b1 * c2) * a2 <= (c1 * b2) * a2
    BY <1>1, <1>2, TimesKeeps
<1>5. /\ (a1 * b2) * c2 = (a1 * c2) * b2 /\ (c1 * b2) * a2 = (c1 * a2) * b2
      /\ (b1 * a2) * c2 = (b1 * c2) * a2
    BY <1>1
<1>6. a1 * c2 \in Int /\ c1 * a2 \in Int
    BY <1>1
<1>7. (b1 * a2) * c2 \in Int /\ (a1 * c2) * b2 \in Int /\ (c1 * a2) * b2 \in Int
    BY <1>1
<1>8. (a1 * c2) * b2 <= (c1 * a2) * b2
    BY <1>3, <1>4, <1>5, <1>7
<1>9. a1 * c2 <= c1 * a2
    BY <1>1, <1>6, <1>8, TimesCancels
<1>. QED BY <1>9 DEF AtMost, a1, a2, b1, b2, c1, c2

\* the places of the values that are at most v, and below it
PlacesUpto(values, clean, v) == {i \in clean : AtMost(values[i], v)}
PlacesUnder(values, clean, v) == {i \in clean : Below(values[i], v)}

\* v is the k-th smallest value
IsKth(values, clean, k, v) ==
    /\ v \in {values[i] : i \in clean}
    /\ Cardinality(PlacesUnder(values, clean, v)) < k
    /\ k <= Cardinality(PlacesUpto(values, clean, v))

Fractions(values, clean) == IsFiniteSet(clean) /\ \A i \in clean : IsFraction(values[i])

LEMMA PlacesCounted ==
    ASSUME NEW values, NEW clean, Fractions(values, clean), NEW v
    PROVE  /\ IsFiniteSet(PlacesUpto(values, clean, v))
           /\ IsFiniteSet(PlacesUnder(values, clean, v))
           /\ Cardinality(PlacesUpto(values, clean, v)) \in Nat
           /\ Cardinality(PlacesUnder(values, clean, v)) \in Nat
<1>1. /\ PlacesUpto(values, clean, v) \in SUBSET clean
      /\ PlacesUnder(values, clean, v) \in SUBSET clean
    BY DEF PlacesUpto, PlacesUnder
<1>. QED BY <1>1, FS_Subset, FS_CardinalityType DEF Fractions

\* among finitely many values one is smallest and one is largest
LEMMA ExtremesExist ==
    ASSUME NEW values, NEW clean, Fractions(values, clean), clean # {}
    PROVE  /\ \E m \in clean : \A i \in clean : AtMost(values[m], values[i])
           /\ \E m \in clean : \A i \in clean : AtMost(values[i], values[m])
<1>. DEFINE Good(s) == /\ \E m \in s : \A i \in s : AtMost(values[m], values[i])
                      /\ \E m \in s : \A i \in s : AtMost(values[i], values[m])
            T == {s \in SUBSET clean : s # {} => Good(s)}
<1>1. ASSUME NEW s \in SUBSET clean, \A x \in s : s \ {x} \in T
      PROVE  s \in T
  <2>1. ASSUME NEW x \in s
        PROVE  Good(s)
    <3>1. \A i, j \in s : /\ AtMost(values[i], values[i])
                          /\ AtMost(values[i], values[j]) \/ AtMost(values[j], values[i])
        BY FractionsOrdered DEF Fractions
    <3>2. \A i, j, l \in s :
             AtMost(values[i], values[j]) /\ AtMost(values[j], values[l])
               => AtMost(values[i], values[l])
        BY AtMostTransitive DEF Fractions
    <3>3. CASE s \ {x} = {}
        BY <3>1, <3>3
    <3>4. CASE s \ {x} # {}
      <4>1. Good(s \ {x})
          BY <1>1, <3>4
      <4>2. \E m \in s : \A i \in s : AtMost(values[m], values[i])
        <5>1. PICK m \in s \ {x} : \A i \in s \ {x} : AtMost(values[m], values[i])
            BY <4>1
        <5>2. CASE AtMost(values[m], values[x])
            BY <5>1, <5>2
        <5>3. CASE AtMost(values[x], values[m])
            BY <3>1, <3>2, <5>1, <5>3
        <5>. QED BY <3>1, <5>1, <5>2, <5>3
      <4>3. \E m \in s : \A i \in s : AtMost(values[i], values[m])
        <5>1. PICK m \in s \ {x} : \A i \in s \ {x} : AtMost(values[i], values[m])
            BY <4>1
        <5>2. CASE AtMost(values[x], values[m])
            BY <5>1, <5>2
        <5>3. CASE AtMost(values[m], values[x])
            BY <3>1, <3>2, <5>1, <5>3
        <5>. QED BY <3>1, <5>1, <5>2, <5>3
      <4>. QED BY <4>2, <4>3
    <3>. QED BY <3>3, <3>4
  <2>. QED BY <2>1
<1>2. \A s \in SUBSET clean : (\A x \in s : s \ {x} \in T) => s \in T
    BY <1>1
<1>3. IsFiniteSet(clean)
    BY DEF Fractions
<1>4. clean \in T
  <2>. HIDE DEF T
  <2>. QED BY <1>2, <1>3, SubsetInduction
<1>. QED BY <1>4

LEMMA KthExists ==
    ASSUME NEW values, NEW clean, Fractions(values, clean),
           NEW k \in 1..Cardinality(clean)
    PROVE  \E v : IsKth(values, clean, k, v)
<1>. DEFINE upto(v) == PlacesUpto(values, clean, v)
            under(v) == PlacesUnder(values, clean, v)
            S == {i \in clean : k <= Cardinality(upto(values[i]))}
<1>1. Cardinality(clean) \in Nat /\ IsFiniteSet(clean)
    BY FS_CardinalityType DEF Fractions
<1>2. S # {}
  <2>1. clean # {}
      BY <1>1, FS_EmptySet
  <2>2. PICK g \in clean : \A i \in clean : AtMost(values[i], values[g])
      BY <2>1, ExtremesExist
  <2>3. upto(values[g]) = clean
      BY <2>2 DEF PlacesUpto
  <2>. HIDE DEF upto
  <2>. QED BY <1>1, <2>3
<1>3. Fractions(values, S)
    BY <1>1, FS_Subset DEF Fractions
<1>4. PICK m \in S : \A i \in S : AtMost(values[m], values[i])
  <2>. HIDE DEF S
  <2>. QED BY <1>2, <1>3, ExtremesExist
<1>5. Cardinality(under(values[m])) < k
  <2>. SUFFICES ASSUME k <= Cardinality(under(values[m]))
                PROVE  FALSE
      BY <1>1, PlacesCounted
  <2>. DEFINE B == under(values[m])
  <2>1. IsFiniteSet(B) /\ B # {} /\ B \subseteq clean
      BY <1>1, PlacesCounted, FS_EmptySet DEF PlacesUnder
  <2>2. Fractions(values, B)
      BY <2>1 DEF Fractions
  <2>3. PICK h \in B : \A i \in B : AtMost(values[i], values[h])
    <3>. HIDE DEF B
    <3>. QED BY <2>1, <2>2, ExtremesExist
  <2>4. B \subseteq upto(values[h]) /\ h \in clean
      BY <2>1, <2>3 DEF PlacesUpto
  <2>5. Cardinality(B) <= Cardinality(upto(values[h]))
      BY <2>4, PlacesCounted, FS_Subset
  <2>6. k <= Cardinality(upto(values[h]))
      BY <1>1, <2>5, PlacesCounted
  <2>7. AtMost(values[m], values[h])
      BY <1>4, <2>4, <2>6
  <2>8. Below(values[h], values[m])
      BY <2>3 DEF PlacesUnder
  <2>. QED BY <2>4, <2>7, <2>8, FractionsOrdered DEF Fractions
<1>. QED BY <1>4, <1>5 DEF IsKth

\* formulas.py takes sorted(values)[k - 1]: it is a value, and grows with k
LEMMA OrderedIsKth ==
    ASSUME NEW values, NEW clean, Fractions(values, clean),
           NEW k \in 1..Cardinality(clean)
    PROVE  /\ IsKth(values, clean, k, Ordered(values, clean, k))
           /\ IsFraction(Ordered(values, clean, k))
<1>1. Ordered(values, clean, k) = CHOOSE v : IsKth(values, clean, k, v)
  <2>1. Ordered(values, clean, k) =
          CHOOSE v \in {values[i] : i \in clean} :
             /\ Cardinality(PlacesUnder(values, clean, v)) < k
             /\ k <= Cardinality(PlacesUpto(values, clean, v))
      BY DEF Ordered, PlacesUnder, PlacesUpto
  <2>. QED BY <2>1 DEF IsKth
<1>2. IsKth(values, clean, k, Ordered(values, clean, k))
    BY <1>1, KthExists
<1>. QED BY <1>2 DEF IsKth, Fractions

LEMMA OrderedGrows ==
    ASSUME NEW values, NEW clean, Fractions(values, clean),
           NEW k \in 1..Cardinality(clean), NEW l \in 1..Cardinality(clean), k <= l
    PROVE  AtMost(Ordered(values, clean, k), Ordered(values, clean, l))
<1>. DEFINE a == Ordered(values, clean, k)
            b == Ordered(values, clean, l)
<1>1. /\ IsFraction(a) /\ IsFraction(b)
      /\ IsKth(values, clean, k, a) /\ IsKth(values, clean, l, b)
    BY OrderedIsKth
<1>. HIDE DEF a, b
<1>2. CASE ~ AtMost(a, b)
  <2>1. Below(b, a)
      BY <1>1, <1>2, FractionsOrdered
  <2>2. PlacesUpto(values, clean, b) \subseteq PlacesUnder(values, clean, a)
    <3>. SUFFICES ASSUME NEW i \in PlacesUpto(values, clean, b)
                  PROVE  i \in PlacesUnder(values, clean, a)
        OBVIOUS
    <3>2. i \in clean /\ IsFraction(values[i]) /\ AtMost(values[i], b)
        BY DEF PlacesUpto, Fractions
    <3>3. ~ AtMost(a, values[i])
        BY <1>1, <1>2, <3>2, AtMostTransitive
    <3>4. Below(values[i], a)
        BY <1>1, <3>2, <3>3, FractionsOrdered
    <3>. QED BY <3>2, <3>4 DEF PlacesUnder
  <2>3. Cardinality(PlacesUpto(values, clean, b)) <= Cardinality(PlacesUnder(values, clean, a))
      BY <2>2, PlacesCounted, FS_Subset
  <2>. QED BY <1>1, <2>3, PlacesCounted DEF IsKth
<1>. QED BY <1>2 DEF a, b

\* d quarters of the way from a to b
Between(a, b, d) == <<a[1] * b[2] * (4 - d) + b[1] * a[2] * d, 4 * a[2] * b[2]>>

LEMMA BetweenIsBetween ==
    ASSUME NEW a, NEW b, IsFraction(a), IsFraction(b), AtMost(a, b),
           NEW d \in 1..3, NEW e \in d..3
    PROVE  /\ IsFraction(Between(a, b, d))
           /\ AtMost(a, Between(a, b, d)) /\ AtMost(Between(a, b, d), b)
           /\ AtMost(Between(a, b, d), Between(a, b, e))
<1>. DEFINE a1 == a[1]
            a2 == a[2]
            b1 == b[1]
            b2 == b[2]
            X == a1 * b2
            Y == b1 * a2
            D == 4 * a2 * b2
            N(c) == X * (4 - c) + Y * c
<1>1. /\ a1 \in Int /\ a2 \in Int /\ b1 \in Int /\ b2 \in Int /\ a2 > 0 /\ b2 > 0
    BY DEF IsFraction
<1>2. X \in Int /\ Y \in Int /\ X <= Y
    BY <1>1 DEF AtMost
<1>3. D \in Int /\ D > 0
  <2>. HIDE DEF a1, a2, b1, b2
  <2>1. 0 * b2 <= (a2 - 1) * b2
      BY <1>1, TimesKeeps
  <2>2. (a2 - 1) * b2 = a2 * b2 - b2 /\ a2 * b2 \in Int
      BY <1>1
  <2>3. D = 4 * (a2 * b2)
      BY <1>1
  <2>. QED BY <1>1, <2>1, <2>2, <2>3
<1>4. \A c \in {d, e} : Between(a, b, c) = <<N(c), D>>
    BY DEF Between
<1>. HIDE DEF X, Y
<1>5. N(d) \in Int /\ N(e) \in Int /\ 4 * X <= N(d) /\ N(d) <= 4 * Y /\ N(d) <= N(e)
  <2>1. \A c \in 1..3 : \/ c = 1 /\ N(c) = 3 * X + Y
                        \/ c = 2 /\ N(c) = 2 * X + 2 * Y
                        \/ c = 3 /\ N(c) = X + 3 * Y
      BY <1>2
  <2>2. d \in 1..3 /\ e \in 1..3 /\ d <= e
      OBVIOUS
  <2>. HIDE DEF N
  <2>. QED BY <1>2, <2>1, <2>2
<1>. DEFINE n == N(d)
            o == N(e)
<1>6. IsFraction(Between(a, b, d))
    BY <1>3, <1>4, <1>5 DEF IsFraction
<1>7. AtMost(a, Between(a, b, d))
  <2>1. a1 * D = (4 * X) * a2
    <3>. HIDE DEF a1, a2, b1, b2
    <3>. QED BY <1>1 DEF X
  <2>2. (4 * X) * a2 <= n * a2
    <3>. HIDE DEF n, N, a2
    <3>. QED BY <1>1, <1>2, <1>5, TimesKeeps DEF n
  <2>3. a1 * D <= n * a2
      BY <2>1, <2>2
  <2>. QED BY <1>4, <2>3 DEF AtMost
<1>8. AtMost(Between(a, b, d), b)
  <2>1. b1 * D = (4 * Y) * b2
    <3>. HIDE DEF a1, a2, b1, b2
    <3>. QED BY <1>1 DEF Y
  <2>2. n * b2 <= (4 * Y) * b2
    <3>. HIDE DEF n, N, b2
    <3>. QED BY <1>1, <1>2, <1>5, TimesKeeps DEF n
  <2>3. n * b2 <= b1 * D
      BY <2>1, <2>2
  <2>. QED BY <1>4, <2>3 DEF AtMost
<1>9. AtMost(Between(a, b, d), Between(a, b, e))
  <2>1. n * D <= o * D
    <3>. HIDE DEF n, o, N, D
    <3>. QED BY <1>3, <1>5, TimesKeeps DEF n, o
  <2>. QED BY <1>4, <2>1 DEF AtMost
<1>. QED BY <1>6, <1>7, <1>8, <1>9

\* where a quartile falls among the values
LEMMA QuartilePlaces ==
    ASSUME NEW q \in 1..3, NEW r \in q..3, NEW m \in Nat
    PROVE  LET j == (q * m) \div 4
               d == (q * m) % 4
               i == (r * m) \div 4
               e == (r * m) % 4
           IN  /\ j \in 0..m /\ d \in 0..3 /\ (d # 0 => j + 1 <= m)
               /\ j < i \/ (j = i /\ d <= e)
<1>. DEFINE j(x) == (x * m) \div 4
            d(x) == (x * m) % 4
<1>1. \A x \in 1..3 : /\ j(x) \in Int /\ d(x) \in 0..3 /\ 4 * j(x) + d(x) = x * m
                      /\ x * m <= 3 * m /\ 0 <= x * m
  <2>1. \A p \in Nat : /\ p \div 4 \in Int /\ p % 4 \in 0..3
                       /\ 4 * (p \div 4) + (p % 4) = p
      OBVIOUS
  <2>2. 1 * m \in Nat /\ 2 * m \in Nat /\ 3 * m \in Nat
      OBVIOUS
  <2>3. \A x \in 1..3 : x = 1 \/ x = 2 \/ x = 3
      OBVIOUS
  <2>4. \A x \in 1..3 : x * m \in Nat /\ x * m <= 3 * m
      BY <2>2, <2>3
  <2>. QED BY <2>1, <2>4
<1>2. q * m <= r * m
  <2>1. \/ q = r \/ (q = 1 /\ r = 2) \/ (q = 1 /\ r = 3) \/ (q = 2 /\ r = 3)
      OBVIOUS
  <2>. QED BY <2>1
<1>3. q \in 1..3 /\ r \in 1..3 /\ q * m \in Int /\ r * m \in Int
    OBVIOUS
<1>4. /\ j(q) \in Int /\ d(q) \in 0..3 /\ 4 * j(q) + d(q) = q * m
      /\ j(r) \in Int /\ d(r) \in 0..3 /\ 4 * j(r) + d(r) = r * m
      /\ q * m <= 3 * m /\ 0 <= q * m
    BY <1>1, <1>3
<1>. DEFINE J == j(q)
            D == d(q)
            I == j(r)
            E == d(r)
            P == q * m
            R == r * m
<1>. HIDE DEF j, d
<1>5. /\ J \in Int /\ D \in 0..3 /\ 4 * J + D = P
      /\ I \in Int /\ E \in 0..3 /\ 4 * I + E = R
      /\ P \in Int /\ R \in Int /\ P <= 3 * m /\ 0 <= P /\ P <= R
    BY <1>2, <1>3, <1>4
<1>. HIDE DEF J, D, I, E, P, R
<1>6. /\ J \in 0..m /\ D \in 0..3 /\ (D # 0 => J + 1 <= m)
      /\ J < I \/ (J = I /\ D <= E)
    BY <1>5
<1>7. /\ j(q) \in 0..m /\ d(q) \in 0..3 /\ (d(q) # 0 => j(q) + 1 <= m)
      /\ j(q) < j(r) \/ (j(q) = j(r) /\ d(q) <= d(r))
    BY <1>6 DEF J, D, I, E
<1>. QED BY <1>7 DEF j, d

LEMMA QuartileBetween ==
    ASSUME NEW values, NEW clean, Fractions(values, clean), clean # {}, NEW q \in 1..3
    PROVE  LET m == Cardinality(clean) - 1
               j == (q * m) \div 4
               d == (q * m) % 4
               a == Ordered(values, clean, j + 1)
               b == Ordered(values, clean, j + 2)
           IN  /\ m \in Nat /\ j \in 0..m /\ d \in 0..3 /\ IsFraction(a)
               /\ IsFraction(Quantile(values, clean, q))
               /\ AtMost(a, Quantile(values, clean, q))
               /\ d = 0 => Quantile(values, clean, q) = a
               /\ d # 0 => /\ j + 1 <= m /\ IsFraction(b) /\ AtMost(a, b)
                           /\ Quantile(values, clean, q) = Between(a, b, d)
                           /\ AtMost(Quantile(values, clean, q), b)
<1>. DEFINE m == Cardinality(clean) - 1
            j == (q * m) \div 4
            d == (q * m) % 4
            a == Ordered(values, clean, j + 1)
            b == Ordered(values, clean, j + 2)
            x == Quantile(values, clean, q)
<1>1. Cardinality(clean) \in Nat /\ Cardinality(clean) # 0
    BY FS_CardinalityType, FS_EmptySet DEF Fractions
<1>2. m \in Nat
    BY <1>1
<1>. HIDE DEF m
<1>3. /\ j \in 0..m /\ d \in 0..3 /\ (d # 0 => j + 1 <= m)
    BY <1>2, QuartilePlaces
<1>4. x = IF d = 0 THEN a ELSE Between(a, b, d)
    BY DEF Quantile, Between, m
<1>. HIDE DEF j, d
<1>5. Cardinality(clean) = m + 1
    BY <1>1 DEF m
<1>6. j + 1 \in 1..Cardinality(clean) /\ (d # 0 => j + 2 \in 1..Cardinality(clean))
    BY <1>2, <1>3, <1>5
<1>7. IsFraction(a)
    BY <1>6, OrderedIsKth
<1>8. CASE d = 0
  <2>1. x = a /\ AtMost(a, a)
      BY <1>4, <1>7, <1>8, FractionsOrdered
  <2>. QED BY <1>2, <1>3, <1>7, <1>8, <2>1 DEF j, d, m
<1>9. CASE d # 0
  <2>1. IsFraction(b)
      BY <1>6, <1>9, OrderedIsKth
  <2>2. j + 1 <= j + 2
      BY <1>3
  <2>3. AtMost(a, b)
      BY <1>6, <1>9, <2>2, OrderedGrows
  <2>4. x = Between(a, b, d)
      BY <1>4, <1>9
  <2>5. d \in 1..3 /\ d \in d..3
      BY <1>3, <1>9
  <2>. HIDE DEF a, b, x
  <2>6. IsFraction(x) /\ AtMost(a, x) /\ AtMost(x, b)
      BY <1>7, <2>1, <2>3, <2>4, <2>5, BetweenIsBetween
  <2>. QED BY <1>2, <1>3, <1>7, <1>9, <2>1, <2>3, <2>4, <2>6 DEF j, d, m, a, b, x
<1>. QED BY <1>8, <1>9

\* statistics.quantiles(n=4, method="inclusive"), whatever the values
LEMMA QuartilesGrow ==
    ASSUME NEW values, NEW clean, Fractions(values, clean), clean # {},
           NEW q \in 1..3, NEW r \in q..3
    PROVE  /\ AtMost(Quantile(values, clean, q), Quantile(values, clean, r))
           /\ AtMost(Ordered(values, clean, 1), Quantile(values, clean, q))
           /\ AtMost(Quantile(values, clean, q),
                     Ordered(values, clean, Cardinality(clean)))
<1>. DEFINE n == Cardinality(clean)
            m == n - 1
            ord(k) == Ordered(values, clean, k)
            x == Quantile(values, clean, q)
            y == Quantile(values, clean, r)
            j == (q * m) \div 4
            d == (q * m) % 4
            i == (r * m) \div 4
            e == (r * m) % 4
<1>1. /\ m \in Nat /\ n = m + 1
  <2>1. n \in Nat /\ n # 0
      BY FS_CardinalityType, FS_EmptySet DEF Fractions
  <2>. QED BY <2>1
<1>2. /\ j \in 0..m /\ d \in 0..3
      /\ IsFraction(x) /\ AtMost(ord(j + 1), x)
      /\ d = 0 => x = ord(j + 1)
      /\ d # 0 => /\ j + 1 <= m /\ IsFraction(ord(j + 2)) /\ AtMost(ord(j + 1), ord(j + 2))
                  /\ x = Between(ord(j + 1), ord(j + 2), d)
                  /\ AtMost(x, ord(j + 2))
  <2>. HIDE DEF ord
  <2>. QED BY QuartileBetween DEF ord
<1>3. r \in 1..3 /\ q <= r
    OBVIOUS
<1>4. /\ i \in 0..m /\ e \in 0..3
      /\ IsFraction(y) /\ AtMost(ord(i + 1), y)
      /\ e = 0 => y = ord(i + 1)
      /\ e # 0 => /\ i + 1 <= m /\ IsFraction(ord(i + 2)) /\ AtMost(ord(i + 1), ord(i + 2))
                  /\ y = Between(ord(i + 1), ord(i + 2), e)
                  /\ AtMost(y, ord(i + 2))
  <2>. HIDE DEF ord
  <2>. QED BY <1>3, QuartileBetween DEF ord
<1>. HIDE DEF m
<1>5. j < i \/ (j = i /\ d <= e)
    BY <1>1, QuartilePlaces
<1>. HIDE DEF n, j, d, i, e, x, y
<1>6. /\ \A k \in 1..n : IsFraction(ord(k))
      /\ \A k, l \in 1..n : k <= l => AtMost(ord(k), ord(l))
    BY OrderedIsKth, OrderedGrows DEF n
<1>. HIDE DEF ord
<1>7. 1 \in 1..n /\ n \in 1..n /\ j + 1 \in 1..n /\ i + 1 \in 1..n
      /\ (d # 0 => j + 2 \in 1..n)
    BY <1>1, <1>2, <1>4
<1>8. AtMost(ord(1), x)
  <2>1. AtMost(ord(1), ord(j + 1))
      BY <1>2, <1>6, <1>7
  <2>. QED BY <1>2, <1>6, <1>7, <2>1, AtMostTransitive
<1>9. \A k \in 1..n : j + 1 <= k /\ (d # 0 => j + 2 <= k) => AtMost(x, ord(k))
  <2>1. TAKE k \in 1..n
  <2>2. HAVE j + 1 <= k /\ (d # 0 => j + 2 <= k)
  <2>3. CASE d = 0
      BY <1>2, <1>6, <1>7, <2>2, <2>3
  <2>4. CASE d # 0
    <3>1. AtMost(x, ord(j + 2)) /\ AtMost(ord(j + 2), ord(k))
        BY <1>2, <1>6, <1>7, <2>2, <2>4
    <3>. QED BY <1>2, <1>6, <1>7, <2>4, <3>1, AtMostTransitive
  <2>. QED BY <2>3, <2>4
<1>10. AtMost(x, ord(n))
  <2>1. j + 1 <= n /\ (d # 0 => j + 2 <= n)
      BY <1>1, <1>7
  <2>. QED BY <1>7, <1>9, <2>1
<1>11. CASE j < i
  <2>1. j + 1 <= i + 1 /\ j + 2 <= i + 1
      BY <1>2, <1>4, <1>11
  <2>2. AtMost(x, ord(i + 1))
      BY <1>7, <1>9, <2>1
  <2>. QED BY <1>2, <1>4, <1>6, <1>7, <1>8, <1>10, <2>2, AtMostTransitive DEF x, y, ord, n
<1>12. CASE j = i /\ d <= e
  <2>1. CASE d = 0
    <3>1. AtMost(x, y)
        BY <1>2, <1>4, <1>12, <2>1
    <3>. QED BY <1>8, <1>10, <3>1 DEF x, y, ord, n
  <2>2. CASE d # 0
    <3>1. d \in 1..3 /\ e \in d..3 /\ e # 0
        BY <1>2, <1>4, <1>12, <2>2
    <3>2. /\ x = Between(ord(j + 1), ord(j + 2), d)
          /\ y = Between(ord(j + 1), ord(j + 2), e)
          /\ IsFraction(ord(j + 1)) /\ IsFraction(ord(j + 2))
          /\ AtMost(ord(j + 1), ord(j + 2))
        BY <1>2, <1>4, <1>6, <1>7, <1>12, <2>2, <3>1
    <3>3. AtMost(x, y)
        BY <3>1, <3>2, BetweenIsBetween
    <3>. QED BY <1>8, <1>10, <3>3 DEF x, y, ord, n
  <2>. QED BY <2>1, <2>2
<1>. QED BY <1>5, <1>11, <1>12

\* a list of values, some of them missing
Measures(values) ==
    /\ IsFiniteSet(DOMAIN values)
    /\ \A i \in DOMAIN values : values[i] = None \/ IsFraction(values[i])

LEMMA StatsOrdered ==
    ASSUME NEW values, Measures(values), aggregate_stats_with_iqr(values) # None
    PROVE  LET stats == aggregate_stats_with_iqr(values)
           IN  /\ AtMost(stats.min, stats.q1) /\ AtMost(stats.q1, stats.median)
               /\ AtMost(stats.median, stats.q3) /\ AtMost(stats.q3, stats.max)
<1>. DEFINE clean == {i \in DOMAIN values : values[i] # None}
            n == Cardinality(clean)
            stats == aggregate_stats_with_iqr(values)
<1>1. Fractions(values, clean)
    BY FS_Subset DEF Measures, Fractions
<1>2. aggregate_stats(values) = IF n = 0 THEN None
        ELSE [n |-> n, min |-> Ordered(values, clean, 1),
              median |-> Quantile(values, clean, 2), max |-> Ordered(values, clean, n)]
    BY DEF aggregate_stats
<1>3. n # 0
    BY <1>2 DEF aggregate_stats_with_iqr
<1>4. clean # {}
    BY <1>3, FS_EmptySet
<1>5. aggregate_stats(values) # None
    BY DEF aggregate_stats_with_iqr
<1>6. /\ stats.min = Ordered(values, clean, 1) /\ stats.q1 = Quantile(values, clean, 1)
      /\ stats.median = Quantile(values, clean, 2) /\ stats.q3 = Quantile(values, clean, 3)
      /\ stats.max = Ordered(values, clean, n)
    BY <1>2, <1>3, <1>5 DEF aggregate_stats_with_iqr
<1>. HIDE DEF clean, n, stats
<1>7. /\ 1 \in 1..3 /\ 2 \in 1..3 /\ 3 \in 1..3 /\ 2 \in 1..3 /\ 3 \in 2..3 /\ 3 \in 3..3
    OBVIOUS
<1>8. /\ AtMost(stats.min, stats.q1) /\ AtMost(stats.q1, stats.median)
      /\ AtMost(stats.median, stats.q3) /\ AtMost(stats.q3, stats.max)
    BY <1>1, <1>4, <1>6, <1>7, QuartilesGrow DEF n
<1>. QED BY <1>8 DEF stats

\* the least and the largest are among the values
LEMMA StatsAreValues ==
    ASSUME NEW values, Measures(values), aggregate_stats(values) # None
    PROVE  /\ \E i \in DOMAIN values : values[i] # None
                                       /\ aggregate_stats(values).min = values[i]
           /\ \E i \in DOMAIN values : values[i] # None
                                       /\ aggregate_stats(values).max = values[i]
<1>. DEFINE clean == {i \in DOMAIN values : values[i] # None}
            n == Cardinality(clean)
<1>1. Fractions(values, clean)
    BY FS_Subset DEF Measures, Fractions
<1>2. aggregate_stats(values) = IF n = 0 THEN None
        ELSE [n |-> n, min |-> Ordered(values, clean, 1),
              median |-> Quantile(values, clean, 2), max |-> Ordered(values, clean, n)]
    BY DEF aggregate_stats
<1>3. n # 0 /\ n \in Nat
    BY <1>1, <1>2, FS_CardinalityType DEF Fractions
<1>4. 1 \in 1..n /\ n \in 1..n
    BY <1>3
<1>5. IsKth(values, clean, 1, Ordered(values, clean, 1))
      /\ IsKth(values, clean, n, Ordered(values, clean, n))
  <2>. HIDE DEF clean
  <2>. QED BY <1>1, <1>4, OrderedIsKth
<1>6. aggregate_stats(values).min = Ordered(values, clean, 1)
      /\ aggregate_stats(values).max = Ordered(values, clean, n)
    BY <1>2, <1>3
<1>. QED BY <1>5, <1>6 DEF IsKth

----------------------------------------------------------------------------
(* What formulas.py computes is missing or a fraction; a similarity lies
   between 0 and 1. *)

Measure(v) == v = None \/ IsFraction(v)

LEMMA RatioIsMeasure ==
    ASSUME NEW a \in OrNone(Int), NEW b \in OrNone(Nat)
    PROVE  /\ Measure(expansion_ratio(a, b)) /\ Measure(Whole(a))
           /\ expansion_ratio(a, b) # None =>
                 /\ a \in Int /\ b \in Nat \ {0} /\ expansion_ratio(a, b) = <<a, b>>
<1>1. None \notin Int
    BY NoneAssumption
<1>. QED BY <1>1 DEF Measure, IsFraction, expansion_ratio, Whole, OrNone

LEMMA SumMonotone ==
    ASSUME NEW S, IsFiniteSet(S), NEW f, NEW g,
           \A x \in S : f[x] \in Int /\ g[x] \in Int /\ f[x] <= g[x]
    PROVE  SumOf(f, S) <= SumOf(g, S)
<1>. DEFINE h == [x \in S |-> g[x] - f[x]]
<1>1. \A x \in S : h[x] \in Int /\ 0 <= h[x] /\ g[x] = f[x] + h[x]
    OBVIOUS
<1>. HIDE DEF h
<1>2. SumOf(g, S) = SumOf(f, S) + SumOf(h, S)
    BY <1>1, SumPlus
<1>3. SumOf(h, S) \in Int /\ SumOf(h, S) >= 0
    BY <1>1, SumOfNats
<1>4. SumOf(f, S) \in Int /\ SumOf(g, S) \in Int
    BY SumAdd
<1>. QED BY <1>2, <1>3, <1>4

LEMMA SimilaritiesAreRates ==
    ASSUME NEW a, NEW b, IsHist(a), IsHist(b)
    PROVE  /\ LET w == weighted_jaccard(a, b)
              IN  w = None \/ (IsFraction(w) /\ IsRate(w))
           /\ LET j == jensen_shannon_similarity(a, b)
              IN  j = None \/ (IsFraction(j) /\ IsRate(j))
<1>. DEFINE K == HistKeys(a, b)
            most == [k \in K |-> Max({Freq(a, k), Freq(b, k)})]
            least == [k \in K |-> Min({Freq(a, k), Freq(b, k)})]
            l == SumOf(least, K)
            m == SumOf(most, K)
<1>1. IsFiniteSet(K)
    BY FS_Union DEF IsHist, HistKeys
<1>2. \A k \in K : Freq(a, k) \in Nat /\ Freq(b, k) \in Nat
    BY DEF Freq, IsHist
<1>3. \A k \in K : most[k] \in Nat /\ least[k] \in Nat /\ least[k] <= most[k]
  <2>1. TAKE k \in K
  <2>2. \A x, y \in Nat : /\ Max({x, y}) \in {x, y} /\ x <= Max({x, y})
                          /\ Min({x, y}) \in {x, y} /\ Min({x, y}) <= x
      BY PairBounds
  <2>3. \A x, y \in Nat : Min({x, y}) <= Max({x, y})
      BY <2>2
  <2>. QED BY <1>2, <2>2, <2>3
<1>4. HistTotal(most) = m /\ HistTotal(least) = l
  <2>1. DOMAIN most = K /\ DOMAIN least = K
      OBVIOUS
  <2>. HIDE DEF most, least, K
  <2>. QED BY <2>1, SumIsSumOf
<1>5. weighted_jaccard(a, b) = IF m = 0 THEN None ELSE <<l, m>>
    BY <1>4 DEF weighted_jaccard
<1>. HIDE DEF K, most, least
<1>6. l \in Int /\ 0 <= l /\ m \in Int /\ 0 <= m /\ l <= m
    BY <1>1, <1>3, SumOfNats, SumMonotone
<1>. HIDE DEF l, m
<1>7. LET w == weighted_jaccard(a, b) IN w = None \/ (IsFraction(w) /\ IsRate(w))
    BY <1>5, <1>6 DEF IsFraction, IsRate
<1>8. jensen_shannon_similarity(a, b) \in {None, <<0, 1>>, <<1, 1>>, <<1, 2>>}
    BY DEF jensen_shannon_similarity
<1>9. LET j == jensen_shannon_similarity(a, b) IN j = None \/ (IsFraction(j) /\ IsRate(j))
    BY <1>8 DEF IsFraction, IsRate
<1>. QED BY <1>7, <1>9

LEMMA VariationIsMeasure ==
    ASSUME NEW x \in Int, NEW y \in Int
    PROVE  Measure(coefficient_of_variation(<<x, y>>))
<1>. DEFINE v == <<x, y>>
            clean == {i \in DOMAIN v : v[i] # None}
            n == Cardinality(clean)
            sum == MapThenSumSet(LAMBDA i : v[i], clean)
            spread == [i \in clean |-> (n * v[i] - sum) * (n * v[i] - sum)]
<1>1. coefficient_of_variation(v) =
        IF n < 2 \/ sum = 0 THEN None ELSE <<HistTotal(spread), (n - 1) * sum * sum>>
    BY DEF coefficient_of_variation
<1>2. \A i \in DOMAIN v : i \in 1..2 /\ v[i] \in Int
    OBVIOUS
<1>3. IsFiniteSet(clean) /\ n \in Nat /\ \A i \in clean : v[i] \in Int
  <2>1. IsFiniteSet(1..2)
    <3>1. 1 \in Int /\ 2 \in Int
        OBVIOUS
    <3>. QED BY <3>1, FS_Interval, Zenon
  <2>2. clean \in SUBSET (1..2)
      BY <1>2
  <2>. QED BY <1>2, <2>1, <2>2, FS_Subset, FS_CardinalityType
<1>4. sum = SumOf(v, clean)
    BY DEF SumOf
<1>. HIDE DEF clean, n, sum, v
<1>5. sum \in Int
    BY <1>3, <1>4, SumAdd
<1>6. HistTotal(spread) \in Int
  <2>1. \A i \in clean : spread[i] \in Int
    <3>1. TAKE i \in clean
    <3>2. n * v[i] - sum \in Int
        BY <1>3, <1>5
    <3>3. \A z \in Int : z * z \in Int
        OBVIOUS
    <3>. QED BY <3>2, <3>3
  <2>2. DOMAIN spread = clean
      OBVIOUS
  <2>. HIDE DEF spread
  <2>. QED BY <1>3, <2>1, <2>2, SumIsSumOf, SumAdd
<1>7. n >= 2 /\ sum # 0 => (n - 1) * sum * sum \in Int /\ (n - 1) * sum * sum > 0
  <2>. HAVE n >= 2 /\ sum # 0
  <2>1. sum * sum \in Int /\ sum * sum > 0
    <3>1. CASE sum > 0
      <4>1. 1 * sum <= sum * sum
          BY <1>5, <3>1, TimesKeeps
      <4>. QED BY <1>5, <3>1, <4>1
    <3>2. CASE sum < 0
      <4>1. 1 * (0 - sum) <= (0 - sum) * (0 - sum)
          BY <1>5, <3>2, TimesKeeps
      <4>2. (0 - sum) * (0 - sum) = sum * sum /\ sum * sum \in Int
          BY <1>5
      <4>. QED BY <1>5, <3>2, <4>1, <4>2
    <3>. QED BY <1>5, <3>1, <3>2
  <2>2. \A z \in Int : z > 0 => (n - 1) * z \in Int /\ (n - 1) * z > 0
    <3>1. TAKE z \in Int
    <3>2. HAVE z > 0
    <3>3. 1 * z <= (n - 1) * z
        BY <1>3, <3>2, TimesKeeps
    <3>4. (n - 1) * z \in Int
        BY <1>3
    <3>. QED BY <3>2, <3>3, <3>4
  <2>3. (n - 1) * sum * sum = (n - 1) * (sum * sum)
      BY <1>3, <1>5
  <2>. QED BY <2>1, <2>2, <2>3
<1>. HIDE DEF spread
<1>8. n < 2 \/ n >= 2
    BY <1>3
<1>9. Measure(coefficient_of_variation(v))
    BY <1>1, <1>6, <1>7, <1>8 DEF Measure, IsFraction
<1>. QED BY <1>9 DEF v

\* a sum of natural numbers is one
LEMMA TotalIsNat ==
    ASSUME NEW f, IsFiniteSet(DOMAIN f), \A x \in DOMAIN f : f[x] \in Nat
    PROVE  Total(f) \in Nat
<1>1. SumOf(f, DOMAIN f) \in Int /\ SumOf(f, DOMAIN f) >= 0
    BY SumOfNats
<1>. QED BY <1>1, SumIsSumOf

LEMMA LlGraph ==
    ASSUME NEW lines, Listed(lines), \A i \in DOMAIN lines : lines[i].targets \in Nat
    PROVE  /\ retdec_cfg_blocks(lines) \in Nat /\ retdec_cfg_edges(lines) \in Nat
           /\ retdec_temps(lines) \in Nat /\ retdec_ir_counts(lines) \in [CATEGORIES -> Nat]
<1>1. Len(lines) \in Nat /\ IsFiniteSet(DOMAIN lines) /\ DOMAIN lines = 1..Len(lines)
    BY SeqPlaces DEF Listed
<1>2. LlBody(lines) \in SUBSET DOMAIN lines
    BY <1>1 DEF LlBody
<1>3. \A T \in SUBSET DOMAIN lines : IsFiniteSet(T) /\ Cardinality(T) \in Nat
    BY <1>1, FS_Subset, FS_CardinalityType
<1>4. retdec_cfg_blocks(lines) \in Nat /\ retdec_temps(lines) \in Nat
    BY <1>2, <1>3 DEF retdec_cfg_blocks, retdec_temps
<1>5. retdec_ir_counts(lines) \in [CATEGORIES -> Nat]
    BY <1>3 DEF retdec_ir_counts
<1>6. retdec_cfg_edges(lines) \in Nat
  <2>. DEFINE S == {i \in LlBody(lines) : lines[i].kind # "uselistorder"}
              f == [i \in S |-> lines[i].targets]
  <2>1. IsFiniteSet(S) /\ \A i \in S : f[i] \in Nat
      BY <1>2, <1>3
  <2>2. DOMAIN f = S
      OBVIOUS
  <2>3. retdec_cfg_edges(lines) = Total(f)
      BY DEF retdec_cfg_edges
  <2>. HIDE DEF S, f
  <2>. QED BY <2>1, <2>2, <2>3, TotalIsNat
<1>. QED BY <1>4, <1>5, <1>6

LEMMA CountsTotal ==
    ASSUME NEW counts \in [CATEGORIES -> Nat]
    PROVE  Total(counts) \in Nat
BY FourCategories, TotalIsNat

----------------------------------------------------------------------------
(* The same things under other names: b takes those of T to those of U.    *)

Renames(b, T, U) ==
    /\ \A x \in T : b[x] \in U
    /\ \A y \in U : \E x \in T : b[x] = y
    /\ \A x, y \in T : b[x] = b[y] => x = y

LEMMA RenamedCount ==
    ASSUME NEW b, NEW T, NEW U, IsFiniteSet(T), Renames(b, T, U)
    PROVE  IsFiniteSet(U) /\ Cardinality(U) = Cardinality(T)
<1>. DEFINE f == [x \in T |-> b[x]]
<1>1. f \in Bijection(T, U)
    BY DEF Renames, Bijection, Injection, Surjection, IsInjective
<1>2. ExistsBijection(T, U)
    BY <1>1 DEF ExistsBijection
<1>. QED BY <1>2, FS_Bijection

LEMMA RenamedPart ==
    ASSUME NEW b, NEW T, NEW U, Renames(b, T, U), NEW V \in SUBSET T, NEW W \in SUBSET U,
           \A x \in T : x \in V <=> b[x] \in W
    PROVE  Renames(b, V, W)
BY DEF Renames

\* one list of values under other names
Renamed(b, f, g) ==
    Renames(b, DOMAIN f, DOMAIN g) /\ \A x \in DOMAIN f : g[b[x]] = f[x]

\* the values that are there
Clean(values) == {i \in DOMAIN values : values[i] # None}

LEMMA RenamedOrdered ==
    ASSUME NEW b, NEW f, NEW g, IsFiniteSet(DOMAIN f), Renamed(b, f, g)
    PROVE  /\ Cardinality(Clean(g)) = Cardinality(Clean(f))
           /\ \A k : Ordered(g, Clean(g), k) = Ordered(f, Clean(f), k)
<1>. DEFINE C == Clean(f)
            D == Clean(g)
<1>1. Renames(b, C, D)
    BY RenamedPart DEF Renamed, Renames, Clean
<1>2. IsFiniteSet(C)
    BY FS_Subset DEF Clean
<1>3. \A x \in C : g[b[x]] = f[x]
    BY DEF Renamed, Clean
<1>. HIDE DEF C, D
<1>. DEFINE S == {f[i] : i \in C}
            upto(h, E, v) == Cardinality({i \in E : AtMost(h[i], v)})
            under(h, E, v) == Cardinality({i \in E : Below(h[i], v)})
<1>4. {g[i] : i \in D} = S
    BY <1>1, <1>3 DEF Renames
<1>5. ASSUME NEW v
      PROVE  upto(g, D, v) = upto(f, C, v) /\ under(g, D, v) = under(f, C, v)
  <2>. DEFINE V == {i \in C : AtMost(f[i], v)}
              W == {i \in D : AtMost(g[i], v)}
              X == {i \in C : Below(f[i], v)}
              Y == {i \in D : Below(g[i], v)}
  <2>1. Renames(b, V, W) /\ Renames(b, X, Y)
    <3>1. \A x \in C : (x \in V <=> b[x] \in W) /\ (x \in X <=> b[x] \in Y)
        BY <1>1, <1>3 DEF Renames
    <3>2. V \in SUBSET C /\ W \in SUBSET D /\ X \in SUBSET C /\ Y \in SUBSET D
        OBVIOUS
    <3>. HIDE DEF V, W, X, Y
    <3>. QED BY <1>1, <3>1, <3>2, RenamedPart
  <2>2. IsFiniteSet(V) /\ IsFiniteSet(X)
      BY <1>2, FS_Subset
  <2>3. Cardinality(W) = Cardinality(V) /\ Cardinality(Y) = Cardinality(X)
    <3>. HIDE DEF V, W, X, Y
    <3>. QED BY <2>1, <2>2, RenamedCount
  <2>. QED BY <2>3
<1>6. ASSUME NEW k
      PROVE  Ordered(g, D, k) = Ordered(f, C, k)
  <2>. DEFINE p(v) == under(f, C, v) < k /\ k <= upto(f, C, v)
              q(v) == under(g, D, v) < k /\ k <= upto(g, D, v)
  <2>1. /\ Ordered(g, D, k) = CHOOSE v \in {g[i] : i \in D} : q(v)
        /\ Ordered(f, C, k) = CHOOSE v \in S : p(v)
      BY DEF Ordered
  <2>2. \A v : p(v) <=> q(v)
    <3>. HIDE DEF upto, under
    <3>. QED BY <1>5
  <2>. HIDE DEF p, q, S
  <2>3. (CHOOSE v \in S : q(v)) = CHOOSE v \in S : p(v)
      BY <2>2, Zenon
  <2>. QED BY <1>4, <2>1, <2>3, Zenon
<1>7. Cardinality(D) = Cardinality(C)
    BY <1>1, <1>2, RenamedCount
<1>. QED BY <1>6, <1>7 DEF C, D

\* statistics do not depend on the order or the names of the values
LEMMA RenamedStats ==
    ASSUME NEW b, NEW f, NEW g, IsFiniteSet(DOMAIN f), Renamed(b, f, g)
    PROVE  /\ aggregate_stats(g) = aggregate_stats(f)
           /\ aggregate_stats_with_iqr(g) = aggregate_stats_with_iqr(f)
<1>1. /\ Cardinality(Clean(g)) = Cardinality(Clean(f))
      /\ \A k : Ordered(g, Clean(g), k) = Ordered(f, Clean(f), k)
    BY RenamedOrdered
<1>2. \A q : Quantile(g, Clean(g), q) = Quantile(f, Clean(f), q)
    BY <1>1 DEF Quantile
<1>3. \A h : /\ aggregate_stats(h) =
                  IF Cardinality(Clean(h)) = 0 THEN None
                  ELSE [n |-> Cardinality(Clean(h)), min |-> Ordered(h, Clean(h), 1),
                        median |-> Quantile(h, Clean(h), 2),
                        max |-> Ordered(h, Clean(h), Cardinality(Clean(h)))]
             /\ aggregate_stats_with_iqr(h) =
                  IF aggregate_stats(h) = None THEN None
                  ELSE [n |-> aggregate_stats(h).n, min |-> aggregate_stats(h).min,
                        median |-> aggregate_stats(h).median,
                        max |-> aggregate_stats(h).max, q1 |-> Quantile(h, Clean(h), 1),
                        q3 |-> Quantile(h, Clean(h), 3)]
    BY DEF aggregate_stats, aggregate_stats_with_iqr, Clean
<1>4. aggregate_stats(g) = aggregate_stats(f)
    BY <1>1, <1>2, <1>3
<1>. QED BY <1>2, <1>3, <1>4

Images(b, s) == {b[x] : x \in s}

LEMMA RenamedSum ==
    ASSUME NEW b, NEW f, NEW g, IsFiniteSet(DOMAIN f), Renamed(b, f, g),
           \A x \in DOMAIN f : f[x] \in Int
    PROVE  SumOf(g, DOMAIN g) = SumOf(f, DOMAIN f)
<1>. DEFINE S == DOMAIN f
            T == {s \in SUBSET S : SumOf(g, Images(b, s)) = SumOf(f, s)}
<1>1. ASSUME NEW s \in SUBSET S
      PROVE  /\ IsFiniteSet(s) /\ IsFiniteSet(Images(b, s))
             /\ \A y \in Images(b, s) : g[y] \in Int
  <2>1. IsFiniteSet(s)
      BY FS_Subset
  <2>2. IsFiniteSet(Images(b, s))
      BY <2>1, FiniteImage DEF Images
  <2>. QED BY <2>1, <2>2 DEF Images, Renamed
<1>2. ASSUME NEW s \in SUBSET S, \A x \in s : s \ {x} \in T
      PROVE  s \in T
  <2>1. CASE s = {}
    <3>1. Images(b, s) = {}
        BY <2>1 DEF Images
    <3>. QED BY <1>1, <2>1, <3>1, SumAdd
  <2>2. CASE s # {}
    <3>1. PICK x \in s : TRUE
        BY <2>2
    <3>2. SumOf(f, s) = f[x] + SumOf(f, s \ {x})
        BY <1>1, SumAdd
    <3>3. Images(b, s) \ {b[x]} = Images(b, s \ {x}) /\ b[x] \in Images(b, s)
        BY DEF Images, Renamed, Renames
    <3>4. SumOf(g, Images(b, s)) = g[b[x]] + SumOf(g, Images(b, s) \ {b[x]})
        BY <1>1, <3>3, SumAdd
    <3>5. g[b[x]] = f[x]
        BY DEF Renamed
    <3>6. SumOf(g, Images(b, s \ {x})) = SumOf(f, s \ {x})
        BY <1>2
    <3>. QED BY <3>2, <3>3, <3>4, <3>5, <3>6
  <2>. QED BY <2>1, <2>2
<1>. HIDE DEF T, S
<1>3. \A s \in SUBSET S : s \in T
    BY <1>2, <1>1, SubsetInduction
<1>4. Images(b, S) = DOMAIN g
    BY DEF Images, Renamed, Renames, S
<1>. QED BY <1>3, <1>4 DEF T, S

----------------------------------------------------------------------------
(* Which of two builds comes first makes no difference to a comparison.    *)

LEMMA SimilaritiesSymmetric ==
    ASSUME NEW x, NEW y, IsHist(x), IsHist(y)
    PROVE  /\ weighted_jaccard(y, x) = weighted_jaccard(x, y)
           /\ jensen_shannon_similarity(y, x) = jensen_shannon_similarity(x, y)
<1>. DEFINE K == HistKeys(x, y)
<1>1. HistKeys(y, x) = K
    BY DEF HistKeys
<1>2. \A k : Freq(x, k) \in Nat /\ Freq(y, k) \in Nat
    BY DEF IsHist, Freq
<1>3. \A k : {Freq(y, k), Freq(x, k)} = {Freq(x, k), Freq(y, k)}
    OBVIOUS
<1>4. weighted_jaccard(y, x) = weighted_jaccard(x, y)
    BY <1>1, <1>3 DEF weighted_jaccard
<1>5. HistTotal(x) \in Int /\ HistTotal(y) \in Int
    BY SumAdd, SumIsSumOf DEF IsHist
<1>6. \A k : Freq(y, k) * Freq(x, k) = Freq(x, k) * Freq(y, k)
  <2>1. \A m, n \in Nat : m * n = n * m
      OBVIOUS
  <2>. QED BY <1>2, <2>1
<1>. HIDE DEF K
<1>7. jensen_shannon_similarity(y, x) = jensen_shannon_similarity(x, y)
  <2>. DEFINE na == HistTotal(x)
              nb == HistTotal(y)
              alike == \A k \in K : Freq(x, k) * nb = Freq(y, k) * na
              apart == \A k \in K : Freq(x, k) * Freq(y, k) = 0
  <2>1. /\ (\A k \in K : Freq(y, k) * na = Freq(x, k) * nb) <=> alike
        /\ (\A k \in K : Freq(y, k) * Freq(x, k) = 0) <=> apart
      BY <1>6
  <2>2. /\ jensen_shannon_similarity(x, y) =
             IF na = 0 /\ nb = 0 THEN None ELSE IF na = 0 \/ nb = 0 THEN <<0, 1>>
             ELSE IF alike THEN <<1, 1>> ELSE IF apart THEN <<0, 1>> ELSE <<1, 2>>
        /\ jensen_shannon_similarity(y, x) =
             IF nb = 0 /\ na = 0 THEN None ELSE IF nb = 0 \/ na = 0 THEN <<0, 1>>
             ELSE IF \A k \in K : Freq(y, k) * na = Freq(x, k) * nb THEN <<1, 1>>
             ELSE IF \A k \in K : Freq(y, k) * Freq(x, k) = 0 THEN <<0, 1>> ELSE <<1, 2>>
      BY <1>1 DEF jensen_shannon_similarity, K
  <2>. HIDE DEF alike, apart, na, nb
  <2>. QED BY <2>1, <2>2
<1>. QED BY <1>4, <1>7

LEMMA VariationSymmetric ==
    ASSUME NEW x \in Int, NEW y \in Int
    PROVE  coefficient_of_variation(<<y, x>>) = coefficient_of_variation(<<x, y>>)
<1>. DEFINE v == <<x, y>>
            w == <<y, x>>
            P == 1..2
            b == [i \in P |-> 3 - i]
            n == Cardinality(P)
            sum(h) == SumOf(h, DOMAIN h)
            spread(h) == [i \in P |-> (n * h[i] - sum(h)) * (n * h[i] - sum(h))]
<1>1. x # None /\ y # None
    BY NoneAssumption
<1>2. /\ DOMAIN v = P /\ DOMAIN w = P
      /\ \A i \in P : v[i] \in Int /\ w[i] \in Int /\ w[b[i]] = v[i]
    OBVIOUS
<1>3. /\ {i \in DOMAIN v : v[i] # None} = P
      /\ {i \in DOMAIN w : w[i] # None} = P
    BY <1>1
<1>4. IsFiniteSet(P)
  <2>1. 1 \in Int /\ 2 \in Int
      OBVIOUS
  <2>. QED BY <2>1, FS_Interval, Zenon
<1>5. n \in Nat
  <2>. HIDE DEF P
  <2>. QED BY <1>4, FS_CardinalityType
<1>6. Renames(b, P, P)
    BY DEF Renames
<1>7. \A h \in {v, w} : coefficient_of_variation(h) =
        IF n < 2 \/ sum(h) = 0 THEN None
        ELSE <<HistTotal(spread(h)), (n - 1) * sum(h) * sum(h)>>
    BY <1>2, <1>3 DEF coefficient_of_variation, SumOf
<1>. HIDE DEF v, w, P, b
<1>8. sum(w) = sum(v)
    BY <1>2, <1>4, <1>6, RenamedSum DEF Renamed
<1>9. sum(v) \in Int
    BY <1>2, <1>4, SumAdd
<1>. HIDE DEF sum, n
<1>10. HistTotal(spread(w)) = HistTotal(spread(v))
  <2>. DEFINE f == spread(v)
              g == spread(w)
  <2>1. DOMAIN f = P /\ DOMAIN g = P
      OBVIOUS
  <2>2. \A i \in P : g[b[i]] = f[i]
    <3>1. TAKE i \in P
    <3>2. b[i] \in P /\ w[b[i]] = v[i]
        BY <1>2, <1>6 DEF Renames
    <3>3. g[b[i]] = (n * w[b[i]] - sum(w)) * (n * w[b[i]] - sum(w))
        BY <3>2
    <3>4. f[i] = (n * v[i] - sum(v)) * (n * v[i] - sum(v))
        OBVIOUS
    <3>. QED BY <1>8, <3>2, <3>3, <3>4
  <2>3. \A i \in P : f[i] \in Int
    <3>1. \A m, t, u \in Int : (m * t - u) * (m * t - u) \in Int
      <4>1. \A z \in Int : z * z \in Int
          OBVIOUS
      <4>2. \A m, t, u \in Int : m * t - u \in Int
          OBVIOUS
      <4>. QED BY <4>1, <4>2
    <3>2. n \in Int
        BY <1>5
    <3>. QED BY <1>2, <1>9, <3>1, <3>2
  <2>. HIDE DEF f, g
  <2>4. Renamed(b, f, g)
      BY <1>6, <2>1, <2>2 DEF Renamed
  <2>5. SumOf(g, DOMAIN g) = SumOf(f, DOMAIN f)
      BY <1>4, <2>1, <2>3, <2>4, RenamedSum
  <2>. QED BY <2>5, SumIsSumOf DEF f, g
<1>. HIDE DEF spread
<1>11. coefficient_of_variation(w) = coefficient_of_variation(v)
    BY <1>7, <1>8, <1>10
<1>. QED BY <1>11 DEF v, w
=============================================================================
