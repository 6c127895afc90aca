---------------------------- MODULE MCStockCare ----------------------------
(* Instances of StockCare for TLC: the tables of earlier versions, which    *)
(* the ledger alone goes on from, and small stores with unused remainders   *)
(* or an old hold, each with a few steps of every sort to spend.            *)
EXTENDS LedgerReports

CONSTANTS wh, roll, qc, none

Of(q, w) == [quantity |-> q, weight |-> w]
Table(rows) == [t \in TransferId |-> IF t \in DOMAIN rows THEN rows[t] ELSE NoTransfer]
NoteTable(rows) == [i \in AdjustmentId |-> IF i \in DOMAIN rows THEN rows[i] ELSE NoAdjustment]

Start(rows, notes, spare) ==
  [transfer |-> Table(rows), adjustment |-> NoteTable(notes),
   inspection |-> [i \in InspectionId |-> NoInspection],
   holdRoot |-> [t \in TransferId |-> 0], remainder |-> {}, left |-> spare]
Spare(ledger, quality, amend) == [ledger |-> ledger, quality |-> quality, amend |-> amend]

Stock(team, a) == Received(Document("entry", 0, none, team, a))
Handed(l, from, to, a) == Received(Edited(Document("transfer", l, from, to, a)))
Output(l, team, a) == Received(Document("processing_output", l, team, team, a))
Worked(l, a, out) == [source |-> l, why |-> "outputs", before |-> a, after |-> out]

\* A submission of the days when a combined batch number was confirmed as one:
\* lot 1 with two waiting lines, internal or external, perhaps one returned.
Batch(kind, from, to, returned) ==
  LET line == [Document(kind, 1, from, to, Of(1, 1)) EXCEPT !.group = 1]
  IN Start(<<Stock(from, Of(2, 2)), line, [line EXCEPT !.rejected = returned]>>, <<>>,
           Spare(4, 0, 0))

\* A handoff left over twice, the second time in more pieces than the first.
Nested ==
  [Start(<<Stock(wh, Of(4, 4)), Handed(1, wh, roll, Of(3, 3)),
           Output(2, roll, Of(1, 2)), Output(3, roll, Of(3, 2))>>,
         <<Worked(2, Of(3, 3), Of(1, 2)), Worked(3, Of(1, 2), Of(3, 2))>>,
         Spare(2, 0, 4)) EXCEPT !.remainder = {3, 4}]

\* A handoff of which one piece of two was processed while the other was to be sent back.
Halved ==
  [Start(<<Stock(wh, Of(3, 3)), Handed(1, wh, roll, Of(3, 3)),
           [Document("transfer", 2, roll, wh, Of(1, 1)) EXCEPT !.status = "voided"],
           Output(2, roll, Of(1, 1))>>,
         <<Worked(2, Of(2, 2), Of(1, 1))>>, Spare(2, 0, 3)) EXCEPT !.remainder = {4}]

Fresh == Start(<<Stock(wh, Of(2, 2)), Handed(1, wh, roll, Of(1, 1))>>, <<>>, Spare(2, 0, 3))

Failed(l, team) ==
  [NoInspection EXCEPT !.lot = l, !.kind = "patrol", !.failed = TRUE, !.blocks = TRUE,
                       !.teams = {team}]
\* An old hold on a lot of which one line waits and one was received.
OnHold ==
  LET s == Start(<<Stock(roll, Of(4, 4)), Document("transfer", 1, roll, qc, Of(1, 1)),
                   Handed(1, roll, qc, Of(1, 1))>>, <<>>, Spare(1, 2, 1))
  IN [s EXCEPT !.inspection = [@ EXCEPT ![1] = Failed(1, roll)]]

\* An old hold on a lot whose outputs carry it.
HoldPassedOn ==
  LET s == Start(<<Stock(roll, Of(3, 3)), Output(1, roll, Of(2, 2))>>,
                 <<Worked(1, Of(3, 3), Of(2, 2))>>, Spare(2, 1, 0))
  IN [s EXCEPT !.inspection = [@ EXCEPT ![1] = Failed(1, roll)],
               !.holdRoot = [@ EXCEPT ![2] = 1]]

McCases == <<
  Batch("transfer", roll, wh, TRUE),
  Batch("transfer", roll, qc, FALSE),
  Batch("warehouse_outbound", wh, none, FALSE),
  Nested, Halved, Fresh, OnHold, HoldPassedOn >>
McStarts == {McCases[i] : i \in DOMAIN McCases}

SmallAmounts == {Of(1, 1)}
Corrections == {Of(1, 1), Of(2, 2), Of(4, 3)}
SmallCounts == {0, 2}
OneTeamEach == {{roll}, {qc}}
=============================================================================
