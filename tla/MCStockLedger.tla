---------------------------- MODULE MCStockLedger ----------------------------
(* Instances of StockLedger for TLC: two teams, small amounts, and to begin *)
(* with an empty table, or one with exits of the days when they had to be   *)
(* confirmed, two lines under one batch number.                             *)
EXTENDS StockLedger

CONSTANTS wh, roll, qc, none

Of(q, w) == [quantity |-> q, weight |-> w]
Table(rows) == [t \in TransferId |-> IF t \in DOMAIN rows THEN rows[t] ELSE NoTransfer]

WaitingExits ==
  LET line == [Document("warehouse_outbound", 1, wh, none, Of(1, 1)) EXCEPT !.group = 1]
  IN Table(<<Received(Document("entry", 0, none, wh, Of(2, 2))), line, line>>)
NoHistory == {Table(<<>>)}
Histories == NoHistory \cup {WaitingExits}

SmallAmounts == {Of(1, 1), Of(2, 1)}
SmallCounts == {0, 2}
=============================================================================
