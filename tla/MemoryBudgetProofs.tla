------------------------- MODULE MemoryBudgetProofs -------------------------
(***************************************************************************)
(* The safety properties of MemoryBudget for every number of threads, all  *)
(* estimates and every budget.  The first part proves what SumUpTo         *)
(* computes.  Induction over 0..n is stated for a set of indices           *)
(* (IndexInduction), which needs no operator as a parameter.               *)
(***************************************************************************)
EXTENDS MemoryBudget, WellFoundedInduction, TLAPS

LessOnNat == {ss \in Nat \X Nat : ss[1] < ss[2]}

(* Every non-empty set of naturals has a least element.                    *)
LEMMA LeastNatural ==
    ASSUME NEW T \in SUBSET Nat, T # {}
    PROVE  \E x \in T : \A y \in T : x <= y
<1>1. OpToRel(<, Nat) = LessOnNat
  BY Zenon DEF OpToRel, LessOnNat
<1>2. IsWellFoundedOn(LessOnNat, Nat)
  BY <1>1, NatLessThanWellFounded, Zenon
<1>3. PICK x \in T : \A y \in T : ~ (<<y, x>> \in LessOnNat)
  BY <1>2, WFMin
<1>4. ASSUME NEW y \in T
      PROVE  x <= y
  <2>1. x \in Nat /\ y \in Nat
    OBVIOUS
  <2>2. ASSUME y < x
        PROVE  <<y, x>> \in LessOnNat
    BY <2>1, <2>2 DEF LessOnNat
  <2>. QED
    BY <2>1, <2>2, <1>3
<1>. QED
  BY <1>4

(* A set of indices that holds 0 and the successor of each of its elements *)
(* up to n holds them all.                                                 *)
LEMMA IndexInduction ==
    ASSUME NEW n \in Nat, NEW T,
           0 \in T,
           \A i \in 1..n : i - 1 \in T => i \in T
    PROVE  \A i \in 0..n : i \in T
<1>. DEFINE Missing == (0..n) \ T
<1>1. SUFFICES ASSUME Missing # {}
               PROVE  FALSE
  OBVIOUS
<1>2. Missing \in SUBSET Nat
  OBVIOUS
<1>3. PICK m \in Missing : \A i \in Missing : m <= i
  <2>. HIDE DEF Missing
  <2>. QED
    BY <1>1, <1>2, LeastNatural
<1>4. m \in 1..n /\ m - 1 \in 0..n
  OBVIOUS
<1>5. m - 1 \in T
  BY <1>3, <1>4
<1>. QED
  BY <1>4, <1>5

-----------------------------------------------------------------------------
(* What SumUpTo computes.                                                  *)

IsSum(p, h, n) ==
    /\ p \in [0..n -> Nat]
    /\ p[0] = 0
    /\ \A i \in 1..n : p[i] = p[i - 1] + h[i]

LEMMA PrefixSumsExist ==
    ASSUME NEW h \in [Workers -> Nat]
    PROVE  \E p : IsSum(p, h, NumWorkers)
<1>. DEFINE Exists(n) == \E p : IsSum(p, h, n)
            T == {n \in 0..NumWorkers : Exists(n)}
<1>1. NumWorkers \in Nat
  BY BudgetAssumption
<1>2. Exists(0)
  <2>1. IsSum([i \in 0..0 |-> 0], h, 0)
    BY DEF IsSum
  <2>. QED
    BY <2>1
<1>3. ASSUME NEW m \in 1..NumWorkers, Exists(m - 1)
      PROVE  Exists(m)
  <2>1. PICK p : IsSum(p, h, m - 1)
    BY <1>3
  <2>. DEFINE q == [i \in 0..m |-> IF i = m THEN p[m - 1] + h[m] ELSE p[i]]
  <2>2. p \in [0..(m - 1) -> Nat] /\ h[m] \in Nat /\ m \in Nat
    BY <1>1, <2>1 DEF IsSum, Workers
  <2>3. q \in [0..m -> Nat]
    BY <2>2
  <2>4. q[0] = 0
    BY <2>1 DEF IsSum
  <2>5. ASSUME NEW i \in 1..m
        PROVE  q[i] = q[i - 1] + h[i]
    BY <1>1, <2>1, <2>2 DEF IsSum
  <2>6. IsSum(q, h, m)
    BY <2>3, <2>4, <2>5 DEF IsSum
  <2>. QED
    BY <2>6
<1>. HIDE DEF Exists
<1>4. 0 \in T /\ \A i \in 1..NumWorkers : i - 1 \in T => i \in T
  BY <1>1, <1>2, <1>3
<1>5. \A i \in 0..NumWorkers : i \in T
  <2>. HIDE DEF T
  <2>. QED
    BY <1>1, <1>4, IndexInduction
<1>6. Exists(NumWorkers)
  BY <1>1, <1>5
<1>. QED
  BY <1>6 DEF Exists

LEMMA SumUpToIsSum ==
    ASSUME NEW h \in [Workers -> Nat]
    PROVE  IsSum(SumUpTo(h), h, NumWorkers)
<1>. DEFINE Rec(p) == p = [i \in 0..NumWorkers |->
                             IF i = 0 THEN 0 ELSE p[i - 1] + h[i]]
            S == SumUpTo(h)
            T == {i \in 0..NumWorkers : S[i] \in Nat}
<1>1. NumWorkers \in Nat
  BY BudgetAssumption
<1>2. PICK q : IsSum(q, h, NumWorkers)
  BY PrefixSumsExist
<1>3. Rec(q)
  BY <1>1, <1>2 DEF IsSum
<1>4. S = CHOOSE p : Rec(p)
  BY DEF SumUpTo
<1>5. Rec(S)
  BY <1>3, <1>4
<1>. HIDE DEF S
<1>6. S = [i \in 0..NumWorkers |-> S[i]]
  BY <1>5, Zenon
<1>7. ASSUME NEW i \in 0..NumWorkers
      PROVE  S[i] = IF i = 0 THEN 0 ELSE S[i - 1] + h[i]
  BY <1>5, Zenon
<1>. HIDE DEF Rec
<1>8. S[0] = 0
  BY <1>1, <1>7
<1>9. ASSUME NEW i \in 1..NumWorkers
      PROVE  S[i] = S[i - 1] + h[i]
  BY <1>1, <1>7
<1>10. 0 \in T /\ \A i \in 1..NumWorkers : i - 1 \in T => i \in T
  BY <1>1, <1>8, <1>9 DEF Workers
<1>11. \A i \in 0..NumWorkers : i \in T
  <2>. HIDE DEF T
  <2>. QED
    BY <1>1, <1>10, IndexInduction
<1>12. S \in [0..NumWorkers -> Nat]
  BY <1>6, <1>11
<1>13. IsSum(S, h, NumWorkers)
  BY <1>8, <1>9, <1>12 DEF IsSum
<1>. QED
  BY <1>13 DEF S

(* A sum is natural, at least each of its summands, and zero when they are.*)
LEMMA SumOverBounds ==
    ASSUME NEW h \in [Workers -> Nat]
    PROVE  /\ SumOver(h) \in Nat
           /\ \A w \in Workers : h[w] <= SumOver(h)
           /\ (\A w \in Workers : h[w] = 0) => SumOver(h) = 0
<1>. DEFINE S == SumUpTo(h)
<1>1. NumWorkers \in Nat
  BY BudgetAssumption
<1>2. IsSum(S, h, NumWorkers)
  BY SumUpToIsSum
<1>. HIDE DEF S
<1>3. SumOver(h) = S[NumWorkers]
  BY DEF SumOver, S
<1>4. SumOver(h) \in Nat
  BY <1>1, <1>2, <1>3 DEF IsSum
<1>5. ASSUME NEW w \in Workers
      PROVE  h[w] <= SumOver(h)
  <2>. DEFINE T == {i \in 0..NumWorkers : i >= w => h[w] <= S[i]}
  <2>1. w \in 1..NumWorkers /\ h[w] \in Nat
    BY DEF Workers
  <2>2. ASSUME NEW i \in 1..NumWorkers, i - 1 \in T
        PROVE  i \in T
    <3>1. S[i] = S[i - 1] + h[i] /\ S[i - 1] \in Nat /\ h[i] \in Nat
      BY <1>1, <1>2 DEF IsSum, Workers
    <3>. QED
      BY <2>1, <2>2, <3>1
  <2>3. 0 \in T
    BY <1>1, <2>1
  <2>4. \A i \in 0..NumWorkers : i \in T
    <3>. HIDE DEF T
    <3>. QED
      BY <1>1, <2>2, <2>3, IndexInduction
  <2>. QED
    BY <1>1, <1>3, <2>1, <2>4
<1>6. ASSUME \A w \in Workers : h[w] = 0
      PROVE  SumOver(h) = 0
  <2>. DEFINE T == {i \in 0..NumWorkers : S[i] = 0}
  <2>1. 0 \in T
    BY <1>1, <1>2 DEF IsSum
  <2>2. ASSUME NEW i \in 1..NumWorkers, i - 1 \in T
        PROVE  i \in T
    BY <1>1, <1>2, <1>6, <2>2 DEF IsSum, Workers
  <2>3. \A i \in 0..NumWorkers : i \in T
    <3>. HIDE DEF T
    <3>. QED
      BY <1>1, <2>1, <2>2, IndexInduction
  <2>. QED
    BY <1>1, <1>3, <2>3
<1>. QED
  BY <1>4, <1>5, <1>6

(* Larger summands give a larger sum.                                      *)
LEMMA SumOverMonotone ==
    ASSUME NEW g \in [Workers -> Nat], NEW h \in [Workers -> Nat],
           \A w \in Workers : g[w] <= h[w]
    PROVE  SumOver(g) <= SumOver(h)
<1>. DEFINE G == SumUpTo(g)
            H == SumUpTo(h)
            T == {i \in 0..NumWorkers : G[i] <= H[i]}
<1>1. NumWorkers \in Nat
  BY BudgetAssumption
<1>2. IsSum(G, g, NumWorkers) /\ IsSum(H, h, NumWorkers)
  BY SumUpToIsSum
<1>. HIDE DEF G, H
<1>3. 0 \in T
  BY <1>1, <1>2 DEF IsSum
<1>4. ASSUME NEW i \in 1..NumWorkers, i - 1 \in T
      PROVE  i \in T
  <2>1. i - 1 \in 0..NumWorkers /\ i \in Workers
    BY <1>1 DEF Workers
  <2>2. G[i - 1] \in Nat /\ H[i - 1] \in Nat
    BY <1>2, <2>1 DEF IsSum
  <2>3. G[i] = G[i - 1] + g[i] /\ H[i] = H[i - 1] + h[i]
    BY <1>2 DEF IsSum
  <2>4. g[i] \in Nat /\ h[i] \in Nat /\ g[i] <= h[i]
    BY <2>1
  <2>5. G[i - 1] <= H[i - 1]
    BY <1>4
  <2>6. G[i] <= H[i]
    BY <2>2, <2>3, <2>4, <2>5
  <2>. QED
    BY <1>1, <2>6
<1>5. \A i \in 0..NumWorkers : i \in T
  <2>. HIDE DEF T
  <2>. QED
    BY <1>1, <1>3, <1>4, IndexInduction
<1>6. G[NumWorkers] <= H[NumWorkers]
  BY <1>1, <1>5
<1>. QED
  BY <1>6 DEF G, H, SumOver

(* Changing one summand changes the sum by the difference.                 *)
LEMMA SumOverUpdate ==
    ASSUME NEW h \in [Workers -> Nat], NEW w \in Workers, NEW a \in Nat
    PROVE  SumOver([h EXCEPT ![w] = a]) = SumOver(h) - h[w] + a
<1>. DEFINE g == [h EXCEPT ![w] = a]
            H == SumUpTo(h)
            G == SumUpTo(g)
            T == {i \in 0..NumWorkers :
                    G[i] = IF i < w THEN H[i] ELSE H[i] - h[w] + a}
<1>1. NumWorkers \in Nat /\ w \in 1..NumWorkers /\ h[w] \in Nat
  BY BudgetAssumption DEF Workers
<1>2. g \in [Workers -> Nat]
  OBVIOUS
<1>3. IsSum(H, h, NumWorkers) /\ IsSum(G, g, NumWorkers)
  BY <1>2, SumUpToIsSum
<1>. HIDE DEF H, G
<1>4. 0 \in T
  BY <1>1, <1>3 DEF IsSum
<1>5. ASSUME NEW i \in 1..NumWorkers, i - 1 \in T
      PROVE  i \in T
  <2>1. G[i - 1] = IF i - 1 < w THEN H[i - 1] ELSE H[i - 1] - h[w] + a
    BY <1>5
  <2>2. G[i] = G[i - 1] + g[i] /\ H[i] = H[i - 1] + h[i]
    BY <1>3 DEF IsSum
  <2>3. H[i - 1] \in Nat /\ h[i] \in Nat
    <3>1. i - 1 \in 0..NumWorkers /\ i \in Workers
      BY <1>1 DEF Workers
    <3>2. H \in [0..NumWorkers -> Nat]
      BY <1>3 DEF IsSum
    <3>. QED
      BY <3>1, <3>2
  <2>4. g[i] = IF i = w THEN a ELSE h[i]
    BY <1>1 DEF Workers
  <2>5. G[i] = IF i < w THEN H[i] ELSE H[i] - h[w] + a
    BY <1>1, <2>1, <2>2, <2>3, <2>4
  <2>. QED
    BY <1>1, <2>5
<1>6. \A i \in 0..NumWorkers : i \in T
  <2>. HIDE DEF T
  <2>. QED
    BY <1>1, <1>4, <1>5, IndexInduction
<1>7. G[NumWorkers] = H[NumWorkers] - h[w] + a
  BY <1>1, <1>6
<1>. QED
  BY <1>7 DEF G, H, SumOver

-----------------------------------------------------------------------------
(* The invariant.  Besides the four properties it says that a thread has   *)
(* an amount exactly while it is inside a call: without it Release could   *)
(* subtract what was never added.                                          *)

AmountIffCalling ==
    \A w \in Workers : call[w] # "none" => amount[w] \in Amounts

BudgetInv ==
    /\ BudgetTypeOK
    /\ AmountIffCalling
    /\ LedgerExact
    /\ BudgetRespected
    /\ NoLostWakeup

LEMMA HeldFacts ==
    ASSUME BudgetTypeOK
    PROVE  /\ Held \in [Workers -> Nat]
           /\ \A w \in Workers :
                Held[w] = IF call[w] = "holding" THEN amount[w] ELSE 0
<1>1. ASSUME NEW w \in Workers
      PROVE  amount[w] \in Nat
  <2>1. amount[w] \in Amounts \/ amount[w] = 0
    BY DEF BudgetTypeOK
  <2>2. \A a \in Amounts : a \in Nat
    BY BudgetAssumption
  <2>. QED
    BY <2>1, <2>2
<1>. QED
  BY <1>1 DEF Held

(* While somebody holds memory, used_mb is positive: "used_mb > 0" is an   *)
(* exact test for "somebody is running".                                   *)
LEMMA IdleExactlyWhenZero ==
    ASSUME BudgetTypeOK, AmountIffCalling, LedgerExact
    PROVE  used_mb > 0 <=> Holders # {}
<1>1. Held \in [Workers -> Nat]
  BY HeldFacts
<1>2. ASSUME NEW w \in Holders
      PROVE  used_mb > 0
  <2>1. w \in Workers /\ Held[w] = amount[w] /\ amount[w] \in Amounts
    BY HeldFacts DEF Holders, AmountIffCalling
  <2>2. amount[w] \in Nat \ {0} /\ amount[w] <= SumOver(Held)
    BY <1>1, <2>1, SumOverBounds, BudgetAssumption
  <2>3. SumOver(Held) \in Nat
    BY <1>1, SumOverBounds
  <2>. QED
    BY <2>2, <2>3 DEF LedgerExact
<1>3. ASSUME Holders = {}
      PROVE  used_mb = 0
  <2>1. \A w \in Workers : Held[w] = 0
    BY <1>3, HeldFacts DEF Holders
  <2>. QED
    BY <1>1, <2>1, SumOverBounds DEF LedgerExact
<1>. QED
  BY <1>2, <1>3 DEF BudgetTypeOK

(* One evaluation of acquire's loop test, by a thread that holds nothing.  *)
LEMMA TakeOrSleepKeepsInv ==
    ASSUME BudgetInv,
           NEW w \in Workers, NEW a \in Amounts,
           call[w] \in {"none", "notified"},
           TakeOrSleep(w, a),
           amount' = [amount EXCEPT ![w] = a]
    PROVE  BudgetInv'
<1>. USE DEF BudgetInv
<1>1. a \in Nat \ {0} /\ a > 0
  BY BudgetAssumption
<1>2. BudgetTypeOK' /\ AmountIffCalling'
  BY <1>1 DEF BudgetTypeOK, AmountIffCalling, TakeOrSleep, CallStates
<1>3. Held[w] = 0 /\ Held \in [Workers -> Nat]
  BY HeldFacts
<1>4. CASE Fits(a)
  <2>1. /\ used_mb' = used_mb + a
        /\ call' = [call EXCEPT ![w] = "holding"]
    BY <1>4 DEF TakeOrSleep
  <2>2. Held' = [Held EXCEPT ![w] = a]
    BY <2>1 DEF Held, BudgetTypeOK
  <2>3. LedgerExact'
    <3>1. SumOver([Held EXCEPT ![w] = a]) = SumOver(Held) - Held[w] + a
      BY <1>1, <1>3, SumOverUpdate
    <3>2. SumOver(Held)' = SumOver([Held EXCEPT ![w] = a])
      BY <2>2 DEF SumOver, SumUpTo
    <3>. QED
      BY <1>1, <1>3, <2>1, <3>1, <3>2 DEF LedgerExact, BudgetTypeOK
  <2>4. BudgetRespected'
    <3>1. SUFFICES ASSUME (used_mb > TotalMB)'
                   PROVE  Holders' = {w}
      BY DEF BudgetRespected
    <3>2. ~ used_mb > 0
      BY <1>1, <1>4, <2>1, <3>1, BudgetAssumption DEF Fits, BudgetTypeOK
    <3>3. Holders = {}
      BY <3>2, IdleExactlyWhenZero
    <3>. QED
      BY <2>1, <3>3 DEF Holders, BudgetTypeOK
  <2>5. NoLostWakeup'
    <3>1. SUFFICES ASSUME NEW v \in Workers, call'[v] = "asleep"
                   PROVE  ~ Fits(amount[v])'
      BY DEF NoLostWakeup
    <3>2. v # w
      BY <2>1, <3>1 DEF BudgetTypeOK
    <3>3. call[v] = "asleep" /\ amount'[v] = amount[v]
      BY <2>1, <3>1, <3>2 DEF BudgetTypeOK
    <3>4. amount[v] \in Nat
      BY <3>3, BudgetAssumption DEF AmountIffCalling
    <3>. QED
      BY <1>1, <2>1, <3>3, <3>4, BudgetAssumption
      DEF NoLostWakeup, Fits, BudgetTypeOK
  <2>. QED
    BY <1>2, <2>3, <2>4, <2>5
<1>5. CASE ~ Fits(a)
  <2>1. used_mb' = used_mb /\ call' = [call EXCEPT ![w] = "asleep"]
    BY <1>5 DEF TakeOrSleep
  <2>2. Held' = Held /\ Holders' = Holders
    BY <2>1 DEF Held, Holders, BudgetTypeOK
  <2>3. LedgerExact' /\ BudgetRespected'
    BY <2>1, <2>2 DEF LedgerExact, BudgetRespected, SumOver, SumUpTo
  <2>4. NoLostWakeup'
    BY <1>5, <2>1 DEF NoLostWakeup, Fits, BudgetTypeOK
  <2>. QED
    BY <1>2, <2>3, <2>4
<1>. QED
  BY <1>4, <1>5

LEMMA ReleaseKeepsInv ==
    ASSUME BudgetInv, NEW w \in Workers, Release(w)
    PROVE  BudgetInv'
<1>. USE DEF BudgetInv
<1>1. /\ Held \in [Workers -> Nat]
      /\ Held[w] = amount[w]
      /\ amount[w] \in Nat \ {0}
      /\ SumOver(Held) \in Nat
      /\ amount[w] <= SumOver(Held)
  BY HeldFacts, SumOverBounds, BudgetAssumption DEF Release, AmountIffCalling
<1>2. used_mb' = used_mb - amount[w] /\ used_mb' \in Nat
  BY <1>1 DEF Release, LedgerExact
<1>3. BudgetTypeOK' /\ AmountIffCalling'
  BY <1>2 DEF BudgetTypeOK, AmountIffCalling, Release, CallStates
<1>4. LedgerExact'
  <2>1. Held' = [Held EXCEPT ![w] = 0]
    BY DEF Held, Release, BudgetTypeOK
  <2>2. SumOver([Held EXCEPT ![w] = 0]) = SumOver(Held) - Held[w] + 0
    BY <1>1, SumOverUpdate
  <2>3. SumOver(Held)' = SumOver([Held EXCEPT ![w] = 0])
    BY <2>1 DEF SumOver, SumUpTo
  <2>. QED
    BY <1>1, <1>2, <2>2, <2>3 DEF LedgerExact
<1>5. BudgetRespected'
  <2>1. Holders' \subseteq Holders
    BY DEF Holders, Release, BudgetTypeOK
  <2>2. used_mb' > TotalMB => used_mb > TotalMB
    BY <1>1, <1>2, BudgetAssumption DEF BudgetTypeOK
  <2>. QED
    BY <2>1, <2>2 DEF BudgetRespected
<1>6. NoLostWakeup'
  BY DEF NoLostWakeup, Release, BudgetTypeOK
<1>. QED
  BY <1>3, <1>4, <1>5, <1>6

LEMMA InitHasInv == BudgetInit => BudgetInv
<1>1. SUFFICES ASSUME BudgetInit
               PROVE  BudgetInv
  OBVIOUS
<1>2. BudgetTypeOK /\ AmountIffCalling /\ BudgetRespected /\ NoLostWakeup
  BY <1>1 DEF BudgetInit, BudgetTypeOK, AmountIffCalling, BudgetRespected,
              NoLostWakeup, Holders, CallStates
<1>3. LedgerExact
  BY <1>1, <1>2, HeldFacts, SumOverBounds DEF BudgetInit, LedgerExact
<1>. QED
  BY <1>2, <1>3 DEF BudgetInv

LEMMA StepKeepsInv == BudgetInv /\ [BudgetNext]_budgetVars => BudgetInv'
<1>1. SUFFICES ASSUME BudgetInv, [BudgetNext]_budgetVars
               PROVE  BudgetInv'
  OBVIOUS
<1>2. ASSUME NEW w \in Workers, NEW a \in Amounts, Acquire(w, a)
      PROVE  BudgetInv'
  BY <1>1, <1>2, TakeOrSleepKeepsInv DEF Acquire
<1>3. ASSUME NEW w \in Workers, Recheck(w)
      PROVE  BudgetInv'
  <2>1. amount[w] \in Amounts /\ amount' = [amount EXCEPT ![w] = amount[w]]
    BY <1>1, <1>3 DEF Recheck, BudgetInv, AmountIffCalling, BudgetTypeOK
  <2>. QED
    BY <1>1, <1>3, <2>1, TakeOrSleepKeepsInv DEF Recheck
<1>4. ASSUME NEW w \in Workers, Release(w)
      PROVE  BudgetInv'
  BY <1>1, <1>4, ReleaseKeepsInv
<1>5. CASE UNCHANGED budgetVars
  <2>1. used_mb' = used_mb /\ call' = call /\ amount' = amount
    BY <1>5 DEF budgetVars
  <2>2. Held' = Held /\ Holders' = Holders
    BY <2>1 DEF Held, Holders
  <2>3. LedgerExact' /\ BudgetRespected'
    BY <1>1, <2>1, <2>2
    DEF BudgetInv, LedgerExact, BudgetRespected, SumOver, SumUpTo
  <2>4. BudgetTypeOK' /\ AmountIffCalling' /\ NoLostWakeup'
    BY <1>1, <2>1
    DEF BudgetInv, BudgetTypeOK, AmountIffCalling, NoLostWakeup, Fits
  <2>. QED
    BY <2>3, <2>4 DEF BudgetInv
<1>. QED
  BY <1>1, <1>2, <1>3, <1>4, <1>5 DEF BudgetNext

THEOREM BudgetInvariant == BudgetSpec => []BudgetInv
BY InitHasInv, StepKeepsInv, PTL DEF BudgetSpec

(* Nothing is released that was not taken: used_mb never goes negative.    *)
THEOREM BudgetTypeCorrect == BudgetSpec => []BudgetTypeOK
<1>1. BudgetInv => BudgetTypeOK
  BY DEF BudgetInv
<1>. QED
  BY <1>1, BudgetInvariant, PTL

(* used_mb is the exact sum of what is held and never negative.            *)
THEOREM LedgerCorrect == BudgetSpec => [](BudgetTypeOK /\ LedgerExact)
<1>1. BudgetInv => BudgetTypeOK /\ LedgerExact
  BY DEF BudgetInv
<1>. QED
  BY <1>1, BudgetInvariant, PTL

(* More than the budget is only ever taken by one job alone.               *)
THEOREM BudgetSafe == BudgetSpec => []BudgetRespected
<1>1. BudgetInv => BudgetRespected
  BY DEF BudgetInv
<1>. QED
  BY <1>1, BudgetInvariant, PTL

(* No thread sleeps while its request would be granted, so a sleeper       *)
(* always has a holder to wait for.                                        *)
THEOREM WakeupsNotLost ==
    BudgetSpec => [](NoLostWakeup
                     /\ \A w \in Workers : call[w] = "asleep" => Holders # {})
<1>1. BudgetInv => NoLostWakeup
                   /\ \A w \in Workers : call[w] = "asleep" => Holders # {}
  BY IdleExactlyWhenZero DEF BudgetInv, NoLostWakeup, Fits
<1>. QED
  BY <1>1, BudgetInvariant, PTL
=============================================================================
