---------------------------- MODULE LedgerTotals ----------------------------
(***************************************************************************)
(* Column totals over a table whose rows are numbered 1 .. n, the shape of *)
(* every SUM the ledger takes (alembic 20260923_0017 expected_balances,    *)
(* stock_balances.apply_balances).  Written as running totals, a recursive *)
(* function, so that the same definition is evaluated by TLC and unfolded  *)
(* by the proofs in LedgerTotalsProofs.  Beside them, the rows a query       *)
(* picks, in the order of their numbers (ORDER BY id).                     *)
(***************************************************************************)
EXTENDS Integers, FiniteSets

\* Running totals of column f over rows 1 .. n: entry i sums rows 1 .. i.
RunningTotals(f, n) ==
  LET upTo[i \in 0 .. n] == IF i = 0 THEN 0 ELSE upTo[i - 1] + f[i] IN upTo

Total(f, n) == RunningTotals(f, n)[n]

\* SUM(CASE WHEN include THEN amount ELSE 0 END): what a row outside a filter adds.
When(include, amount) == IF include THEN amount ELSE 0

\* The members of a set of numbers, the least first.
Rank(S, i) == Cardinality({j \in S : j <= i})
Ranked(S) == [k \in 1 .. Cardinality(S) |-> CHOOSE i \in S : Rank(S, i) = k]
=============================================================================
