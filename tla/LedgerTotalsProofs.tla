------------------------- MODULE LedgerTotalsProofs -------------------------
(***************************************************************************)
(* Lemmas about Total: it is an integer, it is additive, it is monotone,   *)
(* and a column with one non-zero row totals to that row.  They are what   *)
(* lets StockLedgerProofs reason about balances that are sums over tables  *)
(* of any size.  Induction is done by a least counterexample in a set of   *)
(* naturals (SetInduction), which needs no operator parameter.             *)
(***************************************************************************)
EXTENDS LedgerTotals, FiniteSetTheorems, WellFoundedInduction, NaturalsInduction, TLAPS

(***************************************************************************)
(* Induction over a set: a set of naturals that holds 0 and is closed      *)
(* under successor is Nat.                                                 *)
(***************************************************************************)
LEMMA SetInduction ==
  ASSUME NEW S \in SUBSET Nat, 0 \in S, \A n \in Nat : n \in S => n + 1 \in S
  PROVE  S = Nat
<1>1. SUFFICES ASSUME Nat \ S # {} PROVE FALSE
  OBVIOUS
<1>2. IsWellFoundedOn(OpToRel(<, Nat), Nat)
  BY NatLessThanWellFounded
<1>3. PICK m \in Nat \ S : \A k \in Nat \ S : ~ (<<k, m>> \in OpToRel(<, Nat))
  BY <1>1, <1>2, WFMin
<1>4. \A k \in Nat \ S : ~ (k < m)
  BY <1>3, Zenon DEF OpToRel
<1>5. m # 0
  OBVIOUS
<1>6. m - 1 \in Nat /\ (m - 1) + 1 = m /\ m - 1 < m
  BY <1>5
<1>7. m - 1 \in S
  BY <1>4, <1>6
<1>. QED
  BY <1>6, <1>7

\* One unfolding of the recursion of RunningTotals, as an operator on candidates g.
Unfolded(f, n, g) == [i \in 0 .. n |-> IF i = 0 THEN 0 ELSE g[i - 1] + f[i]]

(***************************************************************************)
(* Some integer function satisfies the recursion of RunningTotals.         *)
(***************************************************************************)
LEMMA RunningTotalsExist ==
  ASSUME NEW n \in Nat, NEW f \in [1 .. n -> Int]
  PROVE  \E g \in [0 .. n -> Int] : g = Unfolded(f, n, g)
<1> DEFINE S == {k \in Nat : k <= n => \E g \in [0 .. k -> Int] : g = Unfolded(f, k, g)}
<1>1. 0 \in S
  <2> DEFINE g == [i \in 0 .. 0 |-> 0]
  <2>1. g \in [0 .. 0 -> Int] /\ g = Unfolded(f, 0, g)
    BY DEF Unfolded
  <2>. QED  BY <2>1
<1>2. ASSUME NEW k \in Nat, k \in S PROVE k + 1 \in S
  <2>1. SUFFICES ASSUME k + 1 <= n
                 PROVE  \E h \in [0 .. k + 1 -> Int] : h = Unfolded(f, k + 1, h)
    BY DEF S
  <2>2. PICK g \in [0 .. k -> Int] : g = Unfolded(f, k, g)
    BY <1>2, <2>1
  <2> DEFINE h == [i \in 0 .. k + 1 |-> IF i = k + 1 THEN g[k] + f[k + 1] ELSE g[i]]
  <2>3. h \in [0 .. k + 1 -> Int]
    BY <2>1
  <2>4. ASSUME NEW i \in 0 .. k + 1
        PROVE  h[i] = IF i = 0 THEN 0 ELSE h[i - 1] + f[i]
    BY <2>2, <2>1 DEF Unfolded
  <2>5. h = Unfolded(f, k + 1, h)
    BY <2>4, Zenon DEF Unfolded
  <2>. QED  BY <2>3, <2>5
<1>. HIDE DEF S
<1>3. S = Nat
  BY <1>1, <1>2, SetInduction DEF S
<1>. QED
  BY <1>3 DEF S

(***************************************************************************)
(* RunningTotals satisfies its recursion.                                  *)
(***************************************************************************)
LEMMA RunningTotalsUnfold ==
  ASSUME NEW n \in Nat, NEW f \in [1 .. n -> Int]
  PROVE  RunningTotals(f, n) = Unfolded(f, n, RunningTotals(f, n))
<1>1. \E g : g = [i \in 0 .. n |-> IF i = 0 THEN 0 ELSE g[i - 1] + f[i]]
  BY RunningTotalsExist, Zenon DEF Unfolded
<1>. QED
  BY <1>1, Zenon DEF RunningTotals, Unfolded

(***************************************************************************)
(* Two functions that satisfy the recursion agree everywhere.              *)
(***************************************************************************)
LEMMA RunningTotalsUnique ==
  ASSUME NEW n \in Nat, NEW f \in [1 .. n -> Int], NEW g \in [0 .. n -> Int], NEW h,
         g = Unfolded(f, n, g), h = Unfolded(f, n, h)
  PROVE  h = g
<1> DEFINE S == {k \in Nat : k <= n => h[k] = g[k]}
<1>1. 0 \in S
  BY DEF Unfolded
<1>2. ASSUME NEW k \in Nat, k \in S PROVE k + 1 \in S
  BY <1>2 DEF Unfolded
<1>. HIDE DEF S
<1>3. S = Nat
  BY <1>1, <1>2, SetInduction DEF S
<1>4. \A k \in 0 .. n : h[k] = g[k]
  BY <1>3 DEF S
<1>5. h = [k \in 0 .. n |-> h[k]] /\ g = [k \in 0 .. n |-> g[k]]
  BY Zenon DEF Unfolded
<1>. QED
  BY <1>4, <1>5, Zenon

(***************************************************************************)
(* Running totals of an integer column are integers, start at 0 and add    *)
(* one row at a time.                                                      *)
(***************************************************************************)
LEMMA RunningTotalsType ==
  ASSUME NEW n \in Nat, NEW f \in [1 .. n -> Int]
  PROVE  /\ RunningTotals(f, n) \in [0 .. n -> Int]
         /\ RunningTotals(f, n)[0] = 0
         /\ \A i \in 1 .. n : RunningTotals(f, n)[i] = RunningTotals(f, n)[i - 1] + f[i]
<1>1. PICK g \in [0 .. n -> Int] : g = Unfolded(f, n, g)
  BY RunningTotalsExist
<1>2. RunningTotals(f, n) = g
  BY <1>1, RunningTotalsUnfold, RunningTotalsUnique
<1>3. g[0] = 0 /\ \A i \in 1 .. n : g[i] = g[i - 1] + f[i]
  BY <1>1 DEF Unfolded
<1>. QED
  BY <1>2, <1>3

(***************************************************************************)
(* The total of an integer column is an integer.                           *)
(***************************************************************************)
LEMMA TotalType ==
  ASSUME NEW n \in Nat, NEW f \in [1 .. n -> Int]
  PROVE  Total(f, n) \in Int
BY RunningTotalsType DEF Total

(***************************************************************************)
(* Totals are additive: a total may be taken column by column.  This is    *)
(* why adding signed deltas to a balance is the same as re-summing.        *)
(***************************************************************************)
LEMMA TotalAdds ==
  ASSUME NEW n \in Nat, NEW f \in [1 .. n -> Int], NEW g \in [1 .. n -> Int],
         NEW h \in [1 .. n -> Int], \A i \in 1 .. n : h[i] = f[i] + g[i]
  PROVE  Total(h, n) = Total(f, n) + Total(g, n)
<1> DEFINE F == RunningTotals(f, n)
           G == RunningTotals(g, n)
           H == RunningTotals(h, n)
           S == {k \in Nat : k <= n => H[k] = F[k] + G[k]}
<1>1. /\ F \in [0 .. n -> Int] /\ F[0] = 0 /\ \A i \in 1 .. n : F[i] = F[i - 1] + f[i]
      /\ G \in [0 .. n -> Int] /\ G[0] = 0 /\ \A i \in 1 .. n : G[i] = G[i - 1] + g[i]
      /\ H \in [0 .. n -> Int] /\ H[0] = 0 /\ \A i \in 1 .. n : H[i] = H[i - 1] + h[i]
  BY RunningTotalsType
<1>. HIDE DEF F, G, H
<1>2. 0 \in S
  BY <1>1
<1>3. ASSUME NEW k \in Nat, k \in S PROVE k + 1 \in S
  <2>1. SUFFICES ASSUME k + 1 <= n PROVE H[k + 1] = F[k + 1] + G[k + 1]
    OBVIOUS
  <2>2. k + 1 \in 1 .. n /\ (k + 1) - 1 = k /\ k \in 0 .. n /\ H[k] = F[k] + G[k]
    BY <1>3, <2>1
  <2>3. /\ H[k + 1] = H[k] + h[k + 1]
        /\ F[k + 1] = F[k] + f[k + 1]
        /\ G[k + 1] = G[k] + g[k + 1]
    BY <1>1, <2>2, Zenon
  <2>4. F[k] \in Int /\ G[k] \in Int /\ f[k + 1] \in Int /\ g[k + 1] \in Int
    BY <1>1, <2>2
  <2>. QED  BY <2>2, <2>3, <2>4
<1>. HIDE DEF S
<1>4. S = Nat
  BY <1>2, <1>3, SetInduction DEF S
<1>5. H[n] = F[n] + G[n]
  BY <1>4 DEF S
<1>. QED
  BY <1>5 DEF F, G, H, Total

(***************************************************************************)
(* A column whose rows are all at least 0 has a total of at least 0, and   *)
(* at least as large as each of its rows.                                  *)
(***************************************************************************)
LEMMA TotalOfNat ==
  ASSUME NEW n \in Nat, NEW f \in [1 .. n -> Nat]
  PROVE  /\ Total(f, n) \in Nat
         /\ \A i \in 1 .. n : f[i] <= Total(f, n)
<1> DEFINE F == RunningTotals(f, n)
           S == {k \in Nat : k <= n => F[k] >= 0 /\ \A i \in 1 .. k : f[i] <= F[k]}
<1>0. f \in [1 .. n -> Int]
  OBVIOUS
<1>1. F \in [0 .. n -> Int] /\ F[0] = 0 /\ \A i \in 1 .. n : F[i] = F[i - 1] + f[i]
  BY <1>0, RunningTotalsType
<1>. HIDE DEF F
<1>2. 0 \in S
  BY <1>1
<1>3. ASSUME NEW k \in Nat, k \in S PROVE k + 1 \in S
  <2>1. SUFFICES ASSUME k + 1 <= n
                 PROVE  F[k + 1] >= 0 /\ \A i \in 1 .. k + 1 : f[i] <= F[k + 1]
    OBVIOUS
  <2>2. /\ k + 1 \in 1 .. n /\ (k + 1) - 1 = k /\ k \in 0 .. n
        /\ F[k] >= 0 /\ \A i \in 1 .. k : f[i] <= F[k]
    BY <1>3, <2>1
  <2>3. F[k + 1] = F[k] + f[k + 1] /\ F[k] \in Int /\ f[k + 1] \in Nat
    BY <1>1, <2>2
  <2>. QED  BY <2>2, <2>3
<1>. HIDE DEF S
<1>4. S = Nat
  BY <1>2, <1>3, SetInduction DEF S
<1>5. F[n] >= 0 /\ \A i \in 1 .. n : f[i] <= F[n]
  BY <1>4 DEF S
<1>6. F[n] \in Int
  BY <1>1
<1>. QED
  BY <1>5, <1>6 DEF F, Total

(***************************************************************************)
(* The total of a column of zeros is 0.                                    *)
(***************************************************************************)
LEMMA TotalOfZeros ==
  ASSUME NEW n \in Nat, NEW f \in [1 .. n -> Int], \A i \in 1 .. n : f[i] = 0
  PROVE  Total(f, n) = 0
<1>1. Total(f, n) = Total(f, n) + Total(f, n)
  BY TotalAdds
<1>. QED
  BY <1>1, TotalType

(***************************************************************************)
(* A column with one non-zero row totals to that row.                      *)
(***************************************************************************)
LEMMA TotalOfOne ==
  ASSUME NEW n \in Nat, NEW f \in [1 .. n -> Int], NEW k \in 1 .. n,
         \A i \in 1 .. n : i # k => f[i] = 0
  PROVE  Total(f, n) = f[k]
<1> DEFINE F == RunningTotals(f, n)
           S == {j \in Nat : j <= n => F[j] = IF k <= j THEN f[k] ELSE 0}
<1>1. F \in [0 .. n -> Int] /\ F[0] = 0 /\ \A i \in 1 .. n : F[i] = F[i - 1] + f[i]
  BY RunningTotalsType
<1>. HIDE DEF F
<1>2. 0 \in S
  BY <1>1
<1>3. ASSUME NEW j \in Nat, j \in S PROVE j + 1 \in S
  <2>1. SUFFICES ASSUME j + 1 <= n PROVE F[j + 1] = IF k <= j + 1 THEN f[k] ELSE 0
    OBVIOUS
  <2>2. /\ j + 1 \in 1 .. n /\ (j + 1) - 1 = j /\ j \in 0 .. n
        /\ F[j] = IF k <= j THEN f[k] ELSE 0
    BY <1>3, <2>1
  <2>3. F[j + 1] = F[j] + f[j + 1] /\ F[j] \in Int /\ f[j + 1] \in Int /\ f[k] \in Int
    BY <1>1, <2>2
  <2>4. j + 1 # k => f[j + 1] = 0
    BY <2>2
  <2>. QED  BY <2>2, <2>3, <2>4
<1>. HIDE DEF S
<1>4. S = Nat
  BY <1>2, <1>3, SetInduction DEF S
<1>5. F[n] = f[k]
  BY <1>4 DEF S
<1>. QED
  BY <1>5 DEF F, Total

(***************************************************************************)
(* Columns that agree row by row have the same total.                      *)
(***************************************************************************)
LEMMA TotalAgrees ==
  ASSUME NEW n \in Nat, NEW f \in [1 .. n -> Int], NEW g \in [1 .. n -> Int],
         \A i \in 1 .. n : f[i] = g[i]
  PROVE  Total(f, n) = Total(g, n)
<1>1. f = g
  OBVIOUS
<1>. QED
  BY <1>1

(***************************************************************************)
(* A table may be added up row by row or column by column.                 *)
(***************************************************************************)
LEMMA TotalExchange ==
  ASSUME NEW n \in Nat, NEW k \in Nat, NEW F \in [1 .. n -> [1 .. k -> Int]]
  PROVE  Total([i \in 1 .. n |-> Total(F[i], k)], n)
           = Total([j \in 1 .. k |-> Total([i \in 1 .. n |-> F[i][j]], n)], k)
<1> DEFINE R == [i \in 1 .. n |-> Total(F[i], k)]
           C(j) == [i \in 1 .. n |-> F[i][j]]
           U(j) == RunningTotals(C(j), n)
           Part(i) == [j \in 1 .. k |-> U(j)[i]]
           S == {i \in Nat : i <= n => RunningTotals(R, n)[i] = Total(Part(i), k)}
<1>1. R \in [1 .. n -> Int] /\ \A i \in 1 .. n : R[i] = Total(F[i], k)
  <2>1. \A i \in 1 .. n : Total(F[i], k) \in Int
    BY TotalType
  <2>. QED  BY <2>1
<1>2. \A j \in 1 .. k : C(j) \in [1 .. n -> Int] /\ \A i \in 1 .. n : C(j)[i] = F[i][j]
  OBVIOUS
<1> HIDE DEF R, C
<1>3. /\ RunningTotals(R, n) \in [0 .. n -> Int] /\ RunningTotals(R, n)[0] = 0
      /\ \A i \in 1 .. n : RunningTotals(R, n)[i] = RunningTotals(R, n)[i - 1] + R[i]
  BY <1>1, RunningTotalsType
<1>4. \A j \in 1 .. k :
        /\ U(j) \in [0 .. n -> Int] /\ U(j)[0] = 0
        /\ \A i \in 1 .. n : U(j)[i] = U(j)[i - 1] + C(j)[i]
  BY <1>2, RunningTotalsType
<1> HIDE DEF U
<1>5. \A i \in 0 .. n : Part(i) \in [1 .. k -> Int] /\ \A j \in 1 .. k : Part(i)[j] = U(j)[i]
  BY <1>4
<1> HIDE DEF Part
<1>6. 0 \in S
  <2>1. Part(0) \in [1 .. k -> Int] /\ \A j \in 1 .. k : Part(0)[j] = 0
    <3>1. 0 \in 0 .. n
      OBVIOUS
    <3>2. Part(0) \in [1 .. k -> Int]
      BY <1>5, <3>1
    <3>3. \A j \in 1 .. k : Part(0)[j] = U(j)[0]
      BY <1>5, <3>1
    <3>. QED  BY <1>4, <3>2, <3>3
  <2>2. Total(Part(0), k) = 0
    BY <2>1, TotalOfZeros
  <2>. QED  BY <1>3, <2>2
<1>7. ASSUME NEW i \in Nat, i \in S PROVE i + 1 \in S
  <2>1. SUFFICES ASSUME i + 1 <= n
                 PROVE  RunningTotals(R, n)[i + 1] = Total(Part(i + 1), k)
    OBVIOUS
  <2>2. i + 1 \in 1 .. n /\ (i + 1) - 1 = i /\ i \in 0 .. n /\ i + 1 \in 0 .. n
    BY <2>1
  <2>3. RunningTotals(R, n)[i + 1] = Total(Part(i), k) + Total(F[i + 1], k)
    <3>1. RunningTotals(R, n)[i] = Total(Part(i), k)
      BY <1>7, <2>1
    <3>. QED  BY <1>1, <1>3, <2>2, <3>1
  <2>4. \A j \in 1 .. k : Part(i + 1)[j] = Part(i)[j] + F[i + 1][j]
    <3>1. \A j \in 1 .. k : U(j)[i + 1] = U(j)[i] + C(j)[i + 1]
      BY <1>4, <2>2
    <3>. QED  BY <1>2, <1>5, <2>2, <3>1
  <2>5. Total(Part(i + 1), k) = Total(Part(i), k) + Total(F[i + 1], k)
    <3>1. Part(i) \in [1 .. k -> Int] /\ Part(i + 1) \in [1 .. k -> Int]
          /\ F[i + 1] \in [1 .. k -> Int]
      BY <1>5, <2>2
    <3>. QED  BY <2>4, <3>1, TotalAdds
  <2>. QED  BY <2>3, <2>5
<1> HIDE DEF S
<1>8. S = Nat
  BY <1>6, <1>7, SetInduction DEF S
<1>9. RunningTotals(R, n)[n] = Total(Part(n), k)
  BY <1>8 DEF S
<1>10. Part(n) = [j \in 1 .. k |-> Total([i \in 1 .. n |-> F[i][j]], n)]
  BY DEF Part, U, C, Total
<1>. QED
  BY <1>9, <1>10 DEF R, Total

(***************************************************************************)
(* A column that is the difference of two others totals to the difference. *)
(***************************************************************************)
LEMMA TotalSubtracts ==
  ASSUME NEW n \in Nat, NEW f \in [1 .. n -> Int], NEW g \in [1 .. n -> Int],
         NEW h \in [1 .. n -> Int], \A i \in 1 .. n : h[i] = f[i] - g[i]
  PROVE  Total(h, n) = Total(f, n) - Total(g, n)
<1>1. \A i \in 1 .. n : f[i] = h[i] + g[i]
  <2>1. \A i \in 1 .. n : h[i] \in Int /\ f[i] \in Int /\ g[i] \in Int
    OBVIOUS
  <2>. QED  BY <2>1
<1>2. Total(f, n) = Total(h, n) + Total(g, n)
  BY <1>1, TotalAdds
<1>. QED
  BY <1>2, TotalType

-----------------------------------------------------------------------------
(***************************************************************************)
(* The rows a query picks have places 1, 2, ... in the order of their      *)
(* numbers: Ranked lists each of them once, and a later row comes last.    *)
(***************************************************************************)
LEMMA RankStep ==
  ASSUME NEW n \in Nat, NEW S \in SUBSET (1 .. n)
  PROVE  /\ IsFiniteSet(S) /\ Cardinality(S) \in Nat
         /\ \A i \in 0 .. n : Rank(S, i) \in Nat
         /\ Rank(S, 0) = 0
         /\ \A i \in 1 .. n : Rank(S, i) = Rank(S, i - 1) + (IF i \in S THEN 1 ELSE 0)
         /\ Rank(S, n) = Cardinality(S)
<1> DEFINE Low(i) == {j \in S : j <= i}
<1>0. \A i \in S : i \in Int /\ 1 <= i /\ i <= n
  OBVIOUS
<1>1. IsFiniteSet(S) /\ Cardinality(S) \in Nat
  <2>1. IsFiniteSet(1 .. n)
    BY FS_Interval
  <2>. QED  BY <2>1, FS_Subset, FS_CardinalityType
<1>2. \A i \in Int : IsFiniteSet(Low(i)) /\ Cardinality(Low(i)) \in Nat
  BY <1>1, FS_Subset, FS_CardinalityType
<1>3. Cardinality(Low(0)) = 0
  <2>1. ASSUME NEW j \in S, j <= 0 PROVE FALSE
    BY <1>0, <2>1
  <2>1a. Low(0) = {}
    BY <2>1
  <2>. QED  BY <2>1a, FS_EmptySet
<1>4. ASSUME NEW i \in 1 .. n
      PROVE  Cardinality(Low(i)) = Cardinality(Low(i - 1)) + (IF i \in S THEN 1 ELSE 0)
  <2>1. CASE i \in S
    <3>0. \A j \in S : j <= i <=> j <= i - 1 \/ j = i
      BY <1>0
    <3>1. \A j : j \in Low(i) <=> j \in Low(i - 1) \/ j = i
      BY <2>1, <3>0, Zenon
    <3>2. i \notin Low(i - 1) /\ i - 1 \in Int
      BY <1>0
    <3> HIDE DEF Low
    <3>3. Low(i) = Low(i - 1) \union {i}
      BY <3>1
    <3>4. IsFiniteSet(Low(i - 1))
      BY <3>2, <1>2
    <3>. QED  BY <2>1, <3>2, <3>3, <3>4, FS_AddElement
  <2>2. CASE i \notin S
    <3>0. \A j \in S : j <= i <=> j <= i - 1
      BY <2>2, <1>0
    <3>1. \A j : j \in Low(i) <=> j \in Low(i - 1)
      BY <3>0, Zenon
    <3>2. i - 1 \in Int
      OBVIOUS
    <3> HIDE DEF Low
    <3>3. Low(i) = Low(i - 1)
      BY <3>1
    <3>. QED  BY <2>2, <3>2, <3>3, <1>2
  <2>. QED  BY <2>1, <2>2
<1>5. Low(n) = S
  <2>1. \A j : j \in Low(n) <=> j \in S
    BY <1>0
  <2> HIDE DEF Low
  <2>. QED  BY <2>1
<1> HIDE DEF Low
<1>6. \A i : Rank(S, i) = Cardinality(Low(i))
  BY DEF Rank, Low
<1>. QED
  BY <1>1, <1>2, <1>3, <1>4, <1>5, <1>6

LEMMA RankGrows ==
  ASSUME NEW n \in Nat, NEW S \in SUBSET (1 .. n)
  PROVE  \A i, j \in 0 .. n : i <= j => Rank(S, i) <= Rank(S, j)
<1> DEFINE T == {k \in Nat : \A i, j \in 0 .. n : j = i + k => Rank(S, i) <= Rank(S, j)}
<1>1. 0 \in T
  <2>1. ASSUME NEW i \in 0 .. n, NEW j \in 0 .. n, j = i + 0
        PROVE  Rank(S, i) <= Rank(S, j)
    <3>1. i = j /\ Rank(S, i) \in Nat
      BY <2>1, RankStep
    <3>. QED  BY <3>1
  <2>. QED  BY <2>1
<1>2. ASSUME NEW k \in Nat, k \in T PROVE k + 1 \in T
  <2> SUFFICES ASSUME NEW i \in 0 .. n, NEW j \in 0 .. n, j = i + (k + 1)
               PROVE  Rank(S, i) <= Rank(S, j)
    OBVIOUS
  <2>1. j - 1 \in 0 .. n /\ j \in 1 .. n /\ j - 1 = i + k
    OBVIOUS
  <2>2. Rank(S, i) <= Rank(S, j - 1)
    BY <1>2, <2>1
  <2>3. Rank(S, j) = Rank(S, j - 1) + (IF j \in S THEN 1 ELSE 0)
    BY <2>1, RankStep
  <2>4. Rank(S, i) \in Nat /\ Rank(S, j) \in Nat /\ Rank(S, j - 1) \in Nat
    BY <2>1, RankStep
  <2>. QED  BY <2>2, <2>3, <2>4
<1>3. T = Nat
  <2>1. T \in SUBSET Nat
    OBVIOUS
  <2> HIDE DEF T
  <2>. QED  BY <1>1, <1>2, <2>1, SetInduction
<1>. QED
  <2> SUFFICES ASSUME NEW i \in 0 .. n, NEW j \in 0 .. n, i <= j
               PROVE  Rank(S, i) <= Rank(S, j)
    OBVIOUS
  <2>1. j - i \in Nat /\ j = i + (j - i)
    OBVIOUS
  <2>2. j - i \in T
    BY <1>3, <2>1
  <2>. QED  BY <2>1, <2>2

LEMMA RankedLists ==
  ASSUME NEW n \in Nat, NEW S \in SUBSET (1 .. n)
  PROVE  /\ Cardinality(S) \in Nat
         /\ Ranked(S) \in [1 .. Cardinality(S) -> S]
         /\ \A k \in 1 .. Cardinality(S) : Rank(S, Ranked(S)[k]) = k
         /\ \A i \in S : Rank(S, i) \in 1 .. Cardinality(S) /\ Ranked(S)[Rank(S, i)] = i
<1> DEFINE r == Cardinality(S)
<1>1. r \in Nat
  BY RankStep
<1>2. \A i \in S : /\ Rank(S, i) \in 1 .. r
                   /\ \A j \in S : i < j => Rank(S, i) < Rank(S, j)
  <2> SUFFICES ASSUME NEW i \in S
               PROVE  /\ Rank(S, i) \in 1 .. r
                      /\ \A j \in S : i < j => Rank(S, i) < Rank(S, j)
    OBVIOUS
  <2>1. i \in 1 .. n /\ i \in 0 .. n /\ i - 1 \in 0 .. n /\ n \in 0 .. n
    OBVIOUS
  <2>2. Rank(S, i) = Rank(S, i - 1) + 1 /\ Rank(S, i) \in Nat /\ Rank(S, i - 1) \in Nat
        /\ Rank(S, n) = r
    BY <2>1, RankStep
  <2>3. Rank(S, i) <= Rank(S, n)
    BY <2>1, RankGrows
  <2>4. ASSUME NEW j \in S, i < j PROVE Rank(S, i) < Rank(S, j)
    <3>1. j \in 1 .. n /\ j - 1 \in 0 .. n /\ i <= j - 1
      BY <2>4
    <3>2. Rank(S, i) <= Rank(S, j - 1)
      BY <2>1, <3>1, RankGrows
    <3>3. Rank(S, j) = Rank(S, j - 1) + 1 /\ Rank(S, j - 1) \in Nat
      BY <3>1, RankStep
    <3>. QED  BY <2>2, <3>2, <3>3
  <2>. QED  BY <1>1, <2>2, <2>3, <2>4
<1>3. \A i, j \in S : Rank(S, i) = Rank(S, j) => i = j
  <2> SUFFICES ASSUME NEW i \in S, NEW j \in S, Rank(S, i) = Rank(S, j)
               PROVE  i = j
    OBVIOUS
  <2>1. i \in Int /\ j \in Int /\ Rank(S, i) \in Int /\ Rank(S, j) \in Int
    BY <1>2
  <2>. QED  BY <1>2, <2>1
<1>4. ASSUME NEW k \in 1 .. r PROVE \E i \in S : Rank(S, i) = k
  <2> DEFINE T == {m \in Nat : m <= n => Rank(S, m) < k}
  <2>1. ASSUME \A i \in S : Rank(S, i) # k PROVE FALSE
    <3>1. 0 \in T
      <4>1. Rank(S, 0) = 0 /\ k > 0
        BY <1>1, RankStep
      <4>. QED  BY <4>1
    <3>2. ASSUME NEW m \in Nat, m \in T PROVE m + 1 \in T
      <4> SUFFICES ASSUME m + 1 <= n PROVE Rank(S, m + 1) < k
        OBVIOUS
      <4>1. m + 1 \in 1 .. n /\ m \in 0 .. n /\ (m + 1) - 1 = m
        OBVIOUS
      <4>2. Rank(S, m + 1) = Rank(S, m) + (IF m + 1 \in S THEN 1 ELSE 0) /\ Rank(S, m) \in Nat
        <5>1. \A i \in 1 .. n : Rank(S, i) = Rank(S, i - 1) + (IF i \in S THEN 1 ELSE 0)
          BY RankStep
        <5>2. \A i \in 0 .. n : Rank(S, i) \in Nat
          BY RankStep
        <5>. QED  BY <4>1, <5>1, <5>2
      <4>3. Rank(S, m) < k
        BY <3>2, <4>1
      <4>. QED  BY <2>1, <4>2, <4>3
    <3>3. T = Nat
      <4>1. T \in SUBSET Nat
        OBVIOUS
      <4> HIDE DEF T
      <4>. QED  BY <3>1, <3>2, <4>1, SetInduction
    <3>4. Rank(S, n) < k
      BY <3>3
    <3>. QED  BY <3>4, RankStep
  <2>. QED  BY <2>1
<1>5. \A k \in 1 .. r : Ranked(S)[k] \in S /\ Rank(S, Ranked(S)[k]) = k
  <2> SUFFICES ASSUME NEW k \in 1 .. r
               PROVE  Ranked(S)[k] \in S /\ Rank(S, Ranked(S)[k]) = k
    OBVIOUS
  <2>1. Ranked(S)[k] = CHOOSE i \in S : Rank(S, i) = k
    BY DEF Ranked
  <2>. QED  BY <1>4, <2>1
<1>6. Ranked(S) \in [1 .. r -> S]
  BY <1>5 DEF Ranked
<1>7. \A i \in S : Rank(S, i) \in 1 .. r /\ Ranked(S)[Rank(S, i)] = i
  BY <1>2, <1>3, <1>5
<1>. QED
  BY <1>1, <1>5, <1>6, <1>7

LEMMA RankedAppends ==
  ASSUME NEW n \in Nat, NEW S \in SUBSET (1 .. n), NEW m \in 1 .. n, \A i \in S : i < m
  PROVE  /\ Cardinality(S \union {m}) = Cardinality(S) + 1
         /\ \A k \in 1 .. Cardinality(S) : Ranked(S \union {m})[k] = Ranked(S)[k]
         /\ Ranked(S \union {m})[Cardinality(S) + 1] = m
<1> DEFINE T == S \union {m}
<1>1. T \in SUBSET (1 .. n) /\ m \notin S /\ m \in T /\ S \in SUBSET T
  OBVIOUS
<1>2. Cardinality(T) = Cardinality(S) + 1 /\ Cardinality(S) \in Nat
  BY <1>1, RankStep, FS_AddElement
<1>3. \A i \in S : Rank(T, i) = Rank(S, i)
  <2> SUFFICES ASSUME NEW i \in S PROVE Rank(T, i) = Rank(S, i)
    OBVIOUS
  <2>1. {j \in T : j <= i} = {j \in S : j <= i}
    <3>1. ~ (m <= i)
      BY <1>1
    <3>. QED  BY <3>1
  <2>. QED  BY <2>1 DEF Rank
<1>4. Rank(T, m) = Cardinality(T)
  <2>1. \A j \in T : j <= m
    OBVIOUS
  <2>1a. {j \in T : j <= m} = T
    <3> HIDE DEF T
    <3>. QED  BY <2>1
  <2>. QED  BY <2>1a DEF Rank
<1>5. \A i \in T : Ranked(T)[Rank(T, i)] = i
  <2> HIDE DEF T
  <2>. QED  BY <1>1, RankedLists
<1>6. \A k \in 1 .. Cardinality(S) : Ranked(T)[k] = Ranked(S)[k]
  <2> SUFFICES ASSUME NEW k \in 1 .. Cardinality(S)
               PROVE  Ranked(T)[k] = Ranked(S)[k]
    OBVIOUS
  <2>1. Ranked(S)[k] \in S /\ Rank(S, Ranked(S)[k]) = k
    BY RankedLists
  <2> HIDE DEF T
  <2>. QED  BY <1>1, <1>3, <1>5, <2>1
<1>. QED
  BY <1>1, <1>2, <1>4, <1>5, <1>6

LEMMA TotalOfCell ==
  ASSUME NEW n \in Nat, NEW a \in 1 .. n, NEW v \in Int
  PROVE  Total([b \in 1 .. n |-> IF a = b THEN v ELSE 0], n) = v
<1> DEFINE h == [b \in 1 .. n |-> IF a = b THEN v ELSE 0]
<1>1. h \in [1 .. n -> Int] /\ h[a] = v /\ \A b \in 1 .. n : b # a => h[b] = 0
  OBVIOUS
<1> HIDE DEF h
<1>2. Total(h, n) = h[a]
  BY <1>1, TotalOfOne
<1>. QED
  BY <1>1, <1>2 DEF h

(***************************************************************************)
(* A column whose rows are another's in other places, and zero elsewhere,  *)
(* has the same total.                                                     *)
(***************************************************************************)
LEMMA TotalMoved ==
  ASSUME NEW n \in Nat, NEW m \in Nat, NEW f \in [1 .. n -> Int], NEW g \in [1 .. m -> Int],
         NEW at \in [1 .. n -> 1 .. m],
         \A i, j \in 1 .. n : at[i] = at[j] => i = j,
         \A i \in 1 .. n : g[at[i]] = f[i],
         \A b \in 1 .. m : (\A i \in 1 .. n : at[i] # b) => g[b] = 0
  PROVE  Total(f, n) = Total(g, m)
<1> DEFINE F == [i \in 1 .. n |-> [b \in 1 .. m |-> IF at[i] = b THEN f[i] ELSE 0]]
           R == [i \in 1 .. n |-> Total(F[i], m)]
           C(b) == [i \in 1 .. n |-> F[i][b]]
           U == [b \in 1 .. m |-> Total(C(b), n)]
<1>1. F \in [1 .. n -> [1 .. m -> Int]]
  OBVIOUS
<1>2. Total(R, n) = Total(U, m)
  BY <1>1, TotalExchange
<1>3. ASSUME NEW i \in 1 .. n PROVE R[i] = f[i]
  <2>1. R[i] = Total([b \in 1 .. m |-> IF at[i] = b THEN f[i] ELSE 0], m)
    OBVIOUS
  <2>2. at[i] \in 1 .. m /\ f[i] \in Int
    OBVIOUS
  <2>3. \A a \in 1 .. m : \A v \in Int : Total([b \in 1 .. m |-> IF a = b THEN v ELSE 0], m) = v
    BY TotalOfCell
  <2> HIDE DEF R, F, U, C
  <2>. QED  BY <2>1, <2>2, <2>3, Zenon
<1>4. ASSUME NEW b \in 1 .. m PROVE U[b] = g[b]
  <2> DEFINE h == C(b)
  <2>1. U[b] = Total(h, n) /\ h \in [1 .. n -> Int]
    OBVIOUS
  <2>2. \A i \in 1 .. n : h[i] = IF at[i] = b THEN f[i] ELSE 0
    OBVIOUS
  <2> HIDE DEF h, U, F, C, R
  <2>3. CASE \A i \in 1 .. n : at[i] # b
    <3>1. \A i \in 1 .. n : h[i] = 0
      BY <2>2, <2>3
    <3>2. Total(h, n) = 0
      BY <2>1, <3>1, TotalOfZeros
    <3>. QED  BY <2>1, <2>3, <3>2
  <2>4. ASSUME NEW i \in 1 .. n, at[i] = b PROVE U[b] = g[b]
    <3>1. \A j \in 1 .. n : j # i => h[j] = 0
      BY <2>2, <2>4
    <3>2. Total(h, n) = h[i]
      BY <2>1, <3>1, TotalOfOne
    <3>. QED  BY <2>1, <2>2, <2>4, <3>2
  <2>. QED  BY <2>3, <2>4
<1>5. R \in [1 .. n -> Int] /\ U \in [1 .. m -> Int]
  <2>1. DOMAIN R = 1 .. n /\ DOMAIN U = 1 .. m
    OBVIOUS
  <2>2. R = [i \in 1 .. n |-> R[i]] /\ U = [b \in 1 .. m |-> U[b]]
    OBVIOUS
  <2> HIDE DEF R, U
  <2>. QED  BY <1>3, <1>4, <2>2
<1> HIDE DEF R, U
<1>6. Total(R, n) = Total(f, n)
  BY <1>3, <1>5, TotalAgrees
<1>7. Total(U, m) = Total(g, m)
  BY <1>4, <1>5, TotalAgrees
<1>. QED
  BY <1>2, <1>6, <1>7

(***************************************************************************)
(* Tables that grow.                                                       *)
(***************************************************************************)
\* A table with one row more.
LEMMA TotalExtended ==
  ASSUME NEW n \in Nat, NEW g \in [1..n -> Int], NEW f \in [1..(n + 1) -> Int],
         \A i \in 1..n : f[i] = g[i]
  PROVE  Total(f, n + 1) = Total(g, n) + f[n + 1]
<1> DEFINE m == n + 1
           h == [i \in 1..m |-> IF i = m THEN 0 ELSE g[i]]
           e == [i \in 1..m |-> IF i = m THEN f[m] ELSE 0]
           at == [i \in 1..n |-> i]
<1>1. /\ m \in Nat /\ m \in 1..m /\ 1..n \subseteq 1..m
      /\ \A i \in 1..m : i = m \/ i \in 1..n
      /\ f[m] \in Int /\ \A i \in 1..n : i # m
  OBVIOUS
<1>2. h \in [1..m -> Int] /\ e \in [1..m -> Int] /\ at \in [1..n -> 1..m]
  BY <1>1
<1>3. /\ \A i \in 1..m : h[i] = IF i = m THEN 0 ELSE g[i]
      /\ \A i \in 1..m : e[i] = IF i = m THEN f[m] ELSE 0
      /\ \A i \in 1..n : at[i] = i
  OBVIOUS
<1>4. f \in [1..m -> Int]
  OBVIOUS
<1> HIDE DEF h, e, at, m
<1>5. Total(g, n) = Total(h, m)
  <2>1. \A i, j \in 1..n : at[i] = at[j] => i = j
    BY <1>3
  <2>2. \A i \in 1..n : h[at[i]] = g[i]
    BY <1>1, <1>3
  <2>3. \A b \in 1..m : (\A i \in 1..n : at[i] # b) => h[b] = 0
    BY <1>1, <1>3
  <2>4. /\ n \in Nat /\ m \in Nat /\ g \in [1..n -> Int] /\ h \in [1..m -> Int]
        /\ at \in [1..n -> 1..m]
    BY <1>1, <1>2
  <2>. QED  BY <2>1, <2>2, <2>3, <2>4, TotalMoved, Zenon
<1>6. Total(e, m) = f[m]
  <2>1. \A i \in 1..m : i # m => e[i] = 0
    BY <1>3
  <2>2. e[m] = f[m]
    BY <1>1, <1>3
  <2>3. Total(e, m) = e[m]
    BY <1>1, <1>2, <2>1, TotalOfOne
  <2>. QED  BY <2>2, <2>3
<1>7. \A i \in 1..m : f[i] = h[i] + e[i]
  BY <1>1, <1>3
<1>8. Total(f, m) = Total(h, m) + Total(e, m)
  BY <1>1, <1>2, <1>4, <1>7, TotalAdds
<1>. QED
  BY <1>5, <1>6, <1>8 DEF m

\* A column none of whose rows grows.
LEMMA TotalGrows ==
  ASSUME NEW n \in Nat, NEW f \in [1..n -> Int], NEW g \in [1..n -> Int],
         \A i \in 1..n : f[i] <= g[i]
  PROVE  Total(f, n) <= Total(g, n)
<1> DEFINE h == [i \in 1..n |-> g[i] - f[i]]
<1>1. h \in [1..n -> Nat] /\ \A i \in 1..n : h[i] = g[i] - f[i]
  OBVIOUS
<1>2. h \in [1..n -> Int]
  BY <1>1
<1> HIDE DEF h
<1>3. Total(h, n) \in Nat
  BY <1>1, TotalOfNat
<1>4. Total(h, n) = Total(g, n) - Total(f, n)
  BY <1>1, <1>2, TotalSubtracts
<1>5. Total(f, n) \in Int /\ Total(g, n) \in Int
  BY TotalType
<1>. QED
  BY <1>3, <1>4, <1>5
=============================================================================
