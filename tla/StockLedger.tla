----------------------------- MODULE StockLedger -----------------------------
(***************************************************************************)
(* The material ledger of backend/app: the documents (material_transfers,  *)
(* material_losses, material_quantity_adjustments), the per-lot balances   *)
(* that flush hooks keep in step with them (stock_balances.py), and one    *)
(* action per committed business transaction that writes a document.       *)
(*                                                                         *)
(* A transfer row is a document while it is pending and a stock lot once   *)
(* it is received; source is the lot it was taken from (0: none).  Each    *)
(* transaction locks its source lots first, so a whole handler is one      *)
(* action here; the locking itself is modelled in LotWrites.  Amounts are  *)
(* integers in the smallest stored unit (pieces, 10^-6 kg).                *)
(***************************************************************************)
EXTENDS Integers, FiniteSets, LedgerTotals

CONSTANTS
  Team,            \* active teams that hold material
  NoTeam,          \* the NULL team reference
  Warehouse,       \* WAREHOUSE_TEAM_CODE
  Inspection,      \* INSPECTION_TEAM_CODE
  Processing,      \* PROCESSING_TEAM_CODES
  Splitting,       \* SPLITTING_TEAM_CODES
  Amounts,         \* the amounts a request may carry
  Counts,          \* the piece counts a recount may carry
  History,         \* transfer tables that predate the balance table
  MaxTransfer,     \* rows of material_transfers
  MaxLoss,         \* rows of material_losses
  MaxAdjustment,   \* rows of material_quantity_adjustments
  MaxVersion,      \* edits of one document
  MaxLines         \* lines of one submission

Measure == {"quantity", "weight"}
Column == {"received", "adjusted", "on_hand", "reserved", "in_transit",
           "dispatched", "converted", "lost"}

ExternalKinds == {"warehouse_outbound", "inspection_shipment"}
Conversions == {"processing_output", "rework_split"}
Kind == ExternalKinds \cup Conversions \cup
        {"none", "transfer", "entry", "serial_reallocation"}
        \* entry: warehouse_receipt and opening_stock, which nothing below tells apart
Status == {"absent", "pending", "received", "dispatched", "voided"}

TransferId == 1 .. MaxTransfer
LossId == 1 .. MaxLoss
AdjustmentId == 1 .. MaxAdjustment

Transfer == [kind : Kind, source : 0 .. MaxTransfer,
             sourceTeam : Team \cup {NoTeam}, nextTeam : Team \cup {NoTeam},
             status : Status, tracked : BOOLEAN, amount : [Measure -> Nat],
             version : Nat, rejected : BOOLEAN, group : Nat]
Loss == [source : 0 .. MaxTransfer, amount : [Measure -> Nat]]
Adjustment == [source : 0 .. MaxTransfer, why : {"none", "count", "outputs", "clear"},
               before : [Measure -> Int], after : [Measure -> Int]]

Nothing == [m \in Measure |-> 0]
NoTransfer == [kind |-> "none", source |-> 0, sourceTeam |-> NoTeam, nextTeam |-> NoTeam,
               status |-> "absent", tracked |-> FALSE, amount |-> Nothing,
               version |-> 0, rejected |-> FALSE, group |-> 0]
NoLoss == [source |-> 0, amount |-> Nothing]
NoAdjustment == [source |-> 0, why |-> "none", before |-> Nothing, after |-> Nothing]

VARIABLES
  transfer,     \* [TransferId -> Transfer]
  loss,         \* [LossId -> Loss]
  adjustment,   \* [AdjustmentId -> Adjustment]
  balance       \* material_stock_balances: a function on the lots that have a row

vars == <<transfer, loss, adjustment, balance>>

-----------------------------------------------------------------------------
(* What the documents say: stock_balances.is_stock and contribute.         *)

IsStock(row) == row.status = "received" /\ row.tracked
StockIds(tr) == {t \in TransferId : IsStock(tr[t])}

\* Mutated: a submission debits its lot only when it is settled.
DebitedWhenSettled(row, l) == row.source = l /\ row.status \in {"received", "dispatched"}
\* Mutated: a voided line is not given back.
DebitedThoughVoided(row, l) == row.source = l /\ row.status # "absent"
\* Mutated: an external exit is not counted as sent out.
LeftToATeam(row, l) == row.source = l /\ row.status = "received"
\* Mutated: a received line is still underway.
UnderwayThoughReceived(row, l) ==
  row.source = l /\ row.status \in {"pending", "received"} /\ row.kind = "transfer"

Debited(row, l) == row.source = l /\ row.status \in {"pending", "received", "dispatched"}
Reserved(row, l) == row.source = l /\ row.status = "pending"
Underway(row, l) == Reserved(row, l) /\ row.kind = "transfer"
Left(row, l) == row.source = l /\ row.status \in {"received", "dispatched"}

\* What transfer t, holding row, adds to column c of lot l.
TransferShare(t, row, l, c, m) ==
  LET own == t = l /\ IsStock(row)
      a == row.amount[m]
  IN CASE c = "received"   -> When(own, a)
       [] c = "on_hand"    -> When(own, a) - When(Debited(row, l), a)
       [] c = "reserved"   -> When(Reserved(row, l), a)
       [] c = "in_transit" -> When(Underway(row, l), a)
       [] c = "dispatched" -> When(Left(row, l), a)
       [] c = "converted"  -> When(Left(row, l) /\ row.kind \in Conversions, a)
       [] c \in {"adjusted", "lost"} -> 0

LossShare(row, l, c, m) ==
  When(row.source = l /\ c = "lost", row.amount[m])
    - When(row.source = l /\ c = "on_hand", row.amount[m])

\* Mutated: the weight of a registered output is left out.
AdjustmentShareNoWeight(row, l, c, m) ==
  When(row.source = l /\ c \in {"adjusted", "on_hand"} /\ m = "quantity",
       row.after[m] - row.before[m])

AdjustmentShare(row, l, c, m) ==
  When(row.source = l /\ c \in {"adjusted", "on_hand"}, row.after[m] - row.before[m])

(***************************************************************************)
(* apply_balances: the rows a flush changes are compared with their old    *)
(* selves, and the signed differences are added to the lots they touch.    *)
(***************************************************************************)
Delta(l, c, m) ==
    Total([t \in TransferId |->
            When(transfer'[t] # transfer[t], TransferShare(t, transfer'[t], l, c, m)
                                              - TransferShare(t, transfer[t], l, c, m))],
          MaxTransfer)
  + Total([i \in LossId |->
            When(loss'[i] # loss[i], LossShare(loss'[i], l, c, m) - LossShare(loss[i], l, c, m))],
          MaxLoss)
  + Total([i \in AdjustmentId |->
            When(adjustment'[i] # adjustment[i], AdjustmentShare(adjustment'[i], l, c, m)
                                                  - AdjustmentShare(adjustment[i], l, c, m))],
          MaxAdjustment)

\* The lots that the changed rows are, were, draw on or drew on.
Touched ==
  LET documents == {t \in TransferId : transfer'[t] # transfer[t]}
      losses == {i \in LossId : loss'[i] # loss[i]}
      notes == {i \in AdjustmentId : adjustment'[i] # adjustment[i]}
  IN documents \cup {transfer[t].source : t \in documents}
       \cup {transfer'[t].source : t \in documents}
       \cup {loss[i].source : i \in losses} \cup {loss'[i].source : i \in losses}
       \cup {adjustment[i].source : i \in notes} \cup {adjustment'[i].source : i \in notes}

\* Mutated: a lot that enters the books gets no balance row.
NoneCreated == {}
Created == StockIds(transfer') \ StockIds(transfer)
Removed == StockIds(transfer) \ StockIds(transfer')

ApplyBalances ==
  LET touched == Touched
      prior(l, c, m) == IF l \in Created THEN 0 ELSE balance[l][c][m]
  IN balance' = [l \in (DOMAIN balance \cup Created) \ Removed |->
                  IF l \notin touched THEN balance[l]
                  ELSE [c \in Column |-> [m \in Measure |-> prior(l, c, m) + Delta(l, c, m)]]]

Flush(tr, lo, ad) ==
  /\ transfer' = tr
  /\ loss' = lo
  /\ adjustment' = ad
  /\ ApplyBalances

(***************************************************************************)
(* The reference the incremental balances are measured against: the        *)
(* aggregate query of alembic 20260923_0017, extended with the adjusted    *)
(* and converted columns that 0020 and 0032 added.                         *)
(***************************************************************************)
ChildTotal(l, m, Included(_)) ==
  Total([t \in TransferId |->
          When(transfer[t].source = l /\ Included(transfer[t]), transfer[t].amount[m])],
        MaxTransfer)

Expected(l, c, m) ==
  LET received == transfer[l].amount[m]
      reserved == ChildTotal(l, m, LAMBDA row : row.status = "pending")
      dispatched == ChildTotal(l, m, LAMBDA row : row.status \in {"received", "dispatched"})
      lost == Total([i \in LossId |-> When(loss[i].source = l, loss[i].amount[m])], MaxLoss)
      adjusted == Total([i \in AdjustmentId |->
                          When(adjustment[i].source = l,
                               adjustment[i].after[m] - adjustment[i].before[m])], MaxAdjustment)
  IN CASE c = "received"   -> received
       [] c = "adjusted"   -> adjusted
       [] c = "reserved"   -> reserved
       [] c = "in_transit" -> ChildTotal(l, m, LAMBDA row : /\ row.status = "pending"
                                                           /\ row.kind = "transfer")
       [] c = "dispatched" -> dispatched
       [] c = "converted"  -> ChildTotal(l, m, LAMBDA row : /\ row.status \in {"received", "dispatched"}
                                                           /\ row.kind \in Conversions)
       [] c = "lost"       -> lost
       [] c = "on_hand"    -> received + adjusted - reserved - dispatched - lost

ExpectedBalance(l) == [c \in Column |-> [m \in Measure |-> Expected(l, c, m)]]

-----------------------------------------------------------------------------
(* Rows and guards the handlers share.                                     *)

\* Row numbers are handed out in order (AUTO_INCREMENT).
IsNext(i, used) == i \notin used /\ 1 .. i - 1 \subseteq used
NextIds(used, n) ==
  {ids \in SUBSET ((1 .. n) \ used) : \A i \in ids : 1 .. i \subseteq ids \cup used}
TransfersUsed == {t \in TransferId : transfer[t].status # "absent"}
LossesUsed == {i \in LossId : loss[i].source # 0}
AdjustmentsUsed == {i \in AdjustmentId : adjustment[i].why # "none"}

OnHand(l) == balance[l].on_hand
Plus(a, b) == [m \in Measure |-> a[m] + b[m]]
FitsIn(a, b) == \A m \in Measure : a[m] <= b[m]

Document(kind, source, from, to, a) ==
  [kind |-> kind, source |-> source, sourceTeam |-> from, nextTeam |-> to,
   status |-> "pending", tracked |-> FALSE, amount |-> a,
   version |-> 1, rejected |-> FALSE, group |-> 0]
Received(row) == [row EXCEPT !.status = "received", !.tracked = TRUE]
Edited(row) == [row EXCEPT !.version = @ + 1]

\* Rows of table replaced or added by those of rows.
Put(table, rows) == [i \in DOMAIN table |-> IF i \in DOMAIN rows THEN rows[i] ELSE table[i]]
PutOne(table, i, row) == [table EXCEPT ![i] = row]

\* Mutated: the team of the lot is not asked.
LotsOfAnyTeam(team) == StockIds(transfer)

\* lock_lot: only a received, tracked lot of the team may be drawn on.
LotsOf(team) == {l \in StockIds(transfer) : transfer[l].nextTeam = team}

\* A recount replaces the pieces on hand and leaves the weight as it is.
CountRow(l, q) == [source |-> l, why |-> "count", before |-> OnHand(l),
                   after |-> [OnHand(l) EXCEPT !["quantity"] = q]]
CanRecount(l, q) ==
  /\ transfer[l].nextTeam \in Processing \cap Splitting
  /\ OnHand(l) # Nothing
  /\ ~(q = 0 /\ OnHand(l)["weight"] = 0 /\ OnHand(l)["quantity"] > 0)

\* validate_outbound_clearance: the last of the weight leaves and pieces remain.
CanClear(available, a) ==
  /\ available["weight"] > 0
  /\ a["weight"] = available["weight"]
  /\ available["quantity"] > a["quantity"]
ClearRow(l, available, a) ==
  [source |-> l, why |-> "clear",
   before |-> [Nothing EXCEPT !["quantity"] = available["quantity"] - a["quantity"]],
   after |-> Nothing]

-----------------------------------------------------------------------------
(* Entries: material that comes from outside the ledger.                   *)

CreateReceipt ==
  \E a \in Amounts, t \in TransferId :
    /\ IsNext(t, TransfersUsed)
    /\ Flush(PutOne(transfer, t, Received(Document("entry", 0, NoTeam, Warehouse, a))),
             loss, adjustment)

CreateOpening(team) ==
  \E fresh \in NextIds(TransfersUsed, MaxTransfer) :
    /\ Cardinality(fresh) \in 1 .. MaxLines
    /\ \E a \in [fresh -> Amounts] :
         Flush(Put(transfer, [t \in fresh |->
                 Received(Document("entry", 0, NoTeam, team, a[t]))]),
               loss, adjustment)

\* A hand-written transfer sheet: it draws on no lot.
CreateTransfer(team, target) ==
  \E a \in Amounts, t \in TransferId :
    /\ target # team
    /\ IsNext(t, TransfersUsed)
    /\ Flush(PutOne(transfer, t, Document("transfer", 0, team, target, a)), loss, adjustment)

-----------------------------------------------------------------------------
(* One outbound submission: optional recounts of its sources, its lines,   *)
(* optional clearing of the pieces left once all the weight has gone.      *)

\* Mutated: only the first line of a lot counts.
SumFromFirstLine(lines, s) ==
  [m \in Measure |-> Total([t \in TransferId |->
     When(/\ t \in DOMAIN lines /\ lines[t].source = s
          /\ \A u \in DOMAIN lines : lines[u].source = s => t <= u,
          lines[t].amount[m])], MaxTransfer)]
SumFrom(lines, s) ==
  [m \in Measure |-> Total([t \in TransferId |->
     When(t \in DOMAIN lines /\ lines[t].source = s, lines[t].amount[m])], MaxTransfer)]

MayLeave(team, kind, target) ==
  CASE kind = "transfer" -> target \in Team \ {team}
    [] kind = "warehouse_outbound" -> team = Warehouse /\ target = NoTeam
    [] kind = "inspection_shipment" -> team = Inspection /\ target = NoTeam

\* An internal handoff waits for its receiver; an external exit is final at once.
LineRow(team, kind, target, line) ==
  LET row == Document(kind, line.source, team, target, line.amount)
  IN IF kind \in ExternalKinds THEN [row EXCEPT !.status = "dispatched"] ELSE row

\* require_unallocated_source
Allocated(l, available) ==
  /\ \A m \in Measure : available[m] <= 0
  /\ \E t \in TransferId : transfer[t].source = l /\ transfer[t].kind = "processing_output"

\* What a line sees of its lot: the recounts of its submission come first.
Available(l, count) ==
  IF l \in DOMAIN count THEN [OnHand(l) EXCEPT !["quantity"] = count[l]] ELSE OnHand(l)
Notes(lines, count, cleared) ==
  {CountRow(l, count[l]) : l \in DOMAIN count}
    \cup {ClearRow(l, Available(l, count), SumFrom(lines, l)) : l \in cleared}

SubmitLines(team, kind, target, lines, count, cleared) ==
  LET notes == Notes(lines, count, cleared) IN
  /\ Cardinality(DOMAIN lines) \in 1 .. MaxLines
  /\ \A l \in DOMAIN count : CanRecount(l, count[l])
  /\ \A t \in DOMAIN lines : ~Allocated(lines[t].source, Available(lines[t].source, count))
  /\ \A l \in cleared : CanClear(Available(l, count), SumFrom(lines, l))
  /\ \E noted \in NextIds(AdjustmentsUsed, MaxAdjustment) : \E note \in [noted -> notes] :
       /\ Cardinality(noted) = Cardinality(notes)
       /\ \A n \in notes : \E i \in noted : note[i] = n
       /\ Flush(Put(transfer, [t \in DOMAIN lines |-> LineRow(team, kind, target, lines[t])]),
                loss, Put(adjustment, note))

CreateDispatch(team, kind, target) ==
  /\ MayLeave(team, kind, target)
  /\ \E fresh \in NextIds(TransfersUsed, MaxTransfer) :
     \E lines \in [fresh -> [source : LotsOf(team), amount : Amounts]] :
     \E counted, cleared \in SUBSET {lines[t].source : t \in fresh} :
     \E count \in [counted -> Counts] :
       SubmitLines(team, kind, target, lines, count, cleared)

-----------------------------------------------------------------------------
(* Later steps of a document.                                              *)

\* Mutated: a settled document may still be edited.
EditableWhenSettled(t) ==
  /\ transfer[t].status # "absent"
  /\ transfer[t].version < MaxVersion
\* _locked_transfer: the source lot is locked first, and must be a lot.
Editable(t) ==
  LET row == transfer[t] IN
  /\ row.status = "pending"
  /\ row.source # 0 => IsStock(transfer[row.source])
  /\ row.version < MaxVersion

\* A line keeps its lot, so only a hand-written sheet may change receiver.
MayGoTo(row, target) ==
  IF row.source = 0 THEN target \in Team \ {row.sourceTeam} ELSE target = row.nextTeam

UpdateTransfer(t) ==
  \E a \in Amounts, target \in Team \cup {NoTeam}, clear \in BOOLEAN :
    LET old == transfer[t]
        l == old.source
        available == Plus(OnHand(l), old.amount)
        new == [Edited(old) EXCEPT !.amount = a, !.nextTeam = target, !.rejected = FALSE]
    IN /\ Editable(t)
       /\ MayGoTo(old, target)
       /\ IF clear
          THEN /\ l # 0
               /\ a # old.amount
               /\ CanClear(available, a)
               /\ \E i \in AdjustmentId :
                    /\ IsNext(i, AdjustmentsUsed)
                    /\ Flush(PutOne(transfer, t, new), loss,
                             PutOne(adjustment, i, ClearRow(l, available, a)))
          ELSE Flush(PutOne(transfer, t, new), loss, adjustment)

VoidTransfer(t) ==
  /\ Editable(t)
  /\ Flush(PutOne(transfer, t, [Edited(transfer[t]) EXCEPT !.status = "voided"]),
           loss, adjustment)

\* Mutated: a returned line is received all the same.
MayBeReceivedAnyway(row) == TRUE
MayBeReceived(row) == ~row.rejected

ConfirmTransfer(t) ==
  /\ Editable(t)
  /\ transfer[t].nextTeam # NoTeam
  /\ MayBeReceived(transfer[t])
  /\ Flush(PutOne(transfer, t, Received(Edited(transfer[t]))), loss, adjustment)

\* Mutated: a return leaves the version as it was.
RejectTransferSameVersion(t) ==
  /\ Editable(t)
  /\ transfer[t].nextTeam = Warehouse
  /\ Flush(PutOne(transfer, t, [transfer[t] EXCEPT !.rejected = TRUE]), loss, adjustment)

\* Only the warehouse returns a line for correction; the line stays pending.
RejectTransfer(t) ==
  /\ Editable(t)
  /\ transfer[t].nextTeam = Warehouse
  /\ Flush(PutOne(transfer, t, [Edited(transfer[t]) EXCEPT !.rejected = TRUE]),
           loss, adjustment)

ConfirmOutbound(t) ==
  /\ Editable(t)
  /\ transfer[t].kind \in ExternalKinds
  /\ Flush(PutOne(transfer, t, [Edited(transfer[t]) EXCEPT !.status = "dispatched"]),
           loss, adjustment)

\* Mutated: received lines are not tracked.
ConfirmedUntracked(row) ==
  [Edited(row) EXCEPT !.status = IF row.kind \in ExternalKinds THEN "dispatched" ELSE "received"]

Confirmed(row) ==
  IF row.kind \in ExternalKinds THEN [Edited(row) EXCEPT !.status = "dispatched"]
                                 ELSE Received(Edited(row))

\* The submissions that still carry a batch number are confirmed as a whole.
ConfirmDispatch(group) ==
  LET items == {t \in TransferId : transfer[t].group = group}
      pending == {t \in items : transfer[t].status = "pending"}
  IN /\ pending # {}
     /\ \A t \in items :
          /\ transfer[t].source # 0 /\ IsStock(transfer[transfer[t].source])
          /\ transfer[t].status \in {"pending", "voided", Confirmed(transfer[t]).status}
          /\ \A u \in items : /\ transfer[t].kind = transfer[u].kind
                              /\ transfer[t].sourceTeam = transfer[u].sourceTeam
                              /\ transfer[t].nextTeam = transfer[u].nextTeam
     /\ \A t \in pending : MayBeReceived(transfer[t]) /\ transfer[t].version < MaxVersion
     /\ Flush(Put(transfer, [t \in pending |-> Confirmed(transfer[t])]), loss, adjustment)

-----------------------------------------------------------------------------
(* What a team does with a lot it holds.                                   *)

CreateLoss(l) ==
  \E a \in Amounts : \E i \in LossId :
    /\ FitsIn(a, OnHand(l))
    /\ IsNext(i, LossesUsed)
    /\ Flush(transfer, PutOne(loss, i, [source |-> l, amount |-> a]), adjustment)

RecordRecount(l) ==
  \E q \in Counts : \E i \in AdjustmentId :
    /\ CanRecount(l, q)
    /\ IsNext(i, AdjustmentsUsed)
    /\ Flush(transfer, loss, PutOne(adjustment, i, CountRow(l, q)))

\* Processing turns what is on hand into new lots of the same team, all at once.
RegisterOutputs(l) ==
  LET team == transfer[l].nextTeam IN
  \E fresh \in NextIds(TransfersUsed, MaxTransfer) :
  \E lines \in [fresh -> [source : {l}, amount : Amounts]] : \E i \in AdjustmentId :
    LET output == SumFrom(lines, l) IN
    /\ Cardinality(fresh) \in 1 .. MaxLines
    /\ team \in Processing
    /\ \E m \in Measure : OnHand(l)[m] > 0
    /\ ~(output["quantity"] = 0 /\ OnHand(l)["weight"] = 0 /\ OnHand(l)["quantity"] > 0)
    /\ team \notin Splitting => \* by the piece: what is done and what remains
         /\ FitsIn(Nothing, OnHand(l))
         /\ output["quantity"] = OnHand(l)["quantity"]
         /\ Cardinality(fresh) <= 2
         /\ Cardinality(fresh) = 2 => output["weight"] = OnHand(l)["weight"]
    /\ IsNext(i, AdjustmentsUsed)
    /\ Flush(Put(transfer, [t \in fresh |->
                Received(Document("processing_output", l, team, team, lines[t].amount))]),
             loss,
             PutOne(adjustment, i, [source |-> l, why |-> "outputs",
                                    before |-> OnHand(l), after |-> output]))

\* Another serial number takes over part of a lot; no amount is refused.
Reallocate(l) ==
  LET team == transfer[l].nextTeam IN
  \E a \in Amounts, t \in TransferId :
    /\ IsNext(t, TransfersUsed)
    /\ Flush(PutOne(transfer, t, Received(Document("serial_reallocation", l, team, team, a))),
             loss, adjustment)

SplitRework(l) ==
  LET team == transfer[l].nextTeam IN
  \E a \in Amounts, t \in TransferId :
    /\ IsNext(t, TransfersUsed)
    /\ FitsIn(a, OnHand(l))
    /\ (a["quantity"] = OnHand(l)["quantity"]) <=> (a["weight"] = OnHand(l)["weight"])
    /\ Flush(PutOne(transfer, t, Received(Document("rework_split", l, team, team, a))),
             loss, adjustment)

-----------------------------------------------------------------------------
\* ck_mt_entry_kind_source and ck_mt_entry_destination: what the database asks of a
\* document of each kind.
PassesChecks(row) ==
  /\ row.kind \in Kind \ {"none"}
  /\ row.kind \in ExternalKinds \cup {"transfer"} => row.sourceTeam # NoTeam
  /\ row.kind = "entry" => /\ row.sourceTeam = NoTeam /\ row.source = 0
                          /\ IsStock(row)
  /\ row.kind \in Conversions \cup {"serial_reallocation"} =>
       /\ row.sourceTeam # NoTeam /\ row.sourceTeam = row.nextTeam /\ row.source # 0
       /\ IsStock(row)
  /\ row.kind \in ExternalKinds =>
       /\ row.nextTeam = NoTeam /\ row.source # 0 /\ ~row.tracked
       /\ row.status \in {"pending", "dispatched", "voided"}
  /\ row.kind \notin ExternalKinds =>
       row.nextTeam # NoTeam /\ row.status \in {"pending", "received", "voided"}

\* What the migrations find: documents that pass the checks, numbered in order, each
\* drawing on an older lot of its sending team.  Sources and tracked stock came in one
\* migration (20260906_0007), so what was received from a lot is tracked.  Returned
\* lines wait at the warehouse.
ASSUME SizesAssumption ==
  /\ MaxTransfer \in Nat /\ MaxLoss \in Nat /\ MaxAdjustment \in Nat
  /\ Amounts \subseteq [Measure -> Nat]
  /\ Counts \subseteq Nat
ASSUME TeamAssumption == Warehouse \in Team /\ NoTeam \notin Team
ASSUME HistoryAssumption ==
  \A tr \in History :
    /\ tr \in [TransferId -> Transfer]
    /\ \A t \in TransferId :
         /\ tr[t].status # "absent" => /\ \A u \in 1 .. t - 1 : tr[u].status # "absent"
                                      /\ PassesChecks(tr[t])
         /\ tr[t].source # 0 => /\ tr[t].source < t
                                /\ IsStock(tr[tr[t].source])
                                /\ tr[tr[t].source].nextTeam = tr[t].sourceTeam
                                /\ tr[t].status = "received" => tr[t].tracked
         /\ tr[t].rejected => /\ tr[t].status \in {"pending", "voided"}
                             /\ tr[t].nextTeam = Warehouse

\* The balance table starts as the migration's aggregate of the rows it found.
Init ==
  /\ transfer \in History
  /\ loss = [i \in LossId |-> NoLoss]
  /\ adjustment = [i \in AdjustmentId |-> NoAdjustment]
  /\ balance = [l \in StockIds(transfer) |-> ExpectedBalance(l)]

Enter == \/ CreateReceipt
         \/ \E team \in Team : CreateOpening(team)
         \/ \E team, target \in Team : CreateTransfer(team, target)
Leave == \E team \in Team, kind \in ExternalKinds \cup {"transfer"}, target \in Team \cup {NoTeam} :
           CreateDispatch(team, kind, target)
Settle == \/ \E t \in TransferId : \/ UpdateTransfer(t)
                                  \/ VoidTransfer(t)
                                  \/ ConfirmTransfer(t)
                                  \/ RejectTransfer(t)
                                  \/ ConfirmOutbound(t)
          \/ \E group \in {transfer[t].group : t \in TransferId} \ {0} : ConfirmDispatch(group)
Work == \E l \in StockIds(transfer) : \/ CreateLoss(l)
                                     \/ RecordRecount(l)
                                     \/ RegisterOutputs(l)
                                     \/ Reallocate(l)
                                     \/ SplitRework(l)

Next == Enter \/ Leave \/ Settle \/ Work
Spec == Init /\ [][Next]_vars

-----------------------------------------------------------------------------
(* Properties.                                                             *)

\* The columns hold what models.py declares, and only received lots have a balance.
TypeOK ==
  /\ transfer \in [TransferId -> Transfer]
  /\ loss \in [LossId -> Loss]
  /\ adjustment \in [AdjustmentId -> Adjustment]
  /\ balance \in [StockIds(transfer) -> [Column -> [Measure -> Int]]]

\* Whatever sequence of transactions ran, the balances the flush hooks kept by
\* signed differences equal a fresh aggregation of all documents
\* (stock_balances.apply_balances against expected_balances).
BalancesMatchDocuments ==
  /\ DOMAIN balance = StockIds(transfer)
  /\ \A l \in DOMAIN balance : balance[l] = ExpectedBalance(l)

\* No flush can be refused by the CHECK constraints of material_stock_balances
\* (models.py MaterialStockBalance): the columns reconcile and stay nonnegative.
BalanceChecksHold ==
  \A l \in DOMAIN balance : \A m \in Measure :
    LET b(c) == balance[l][c][m]
    IN /\ b("received") + b("adjusted")
            = b("on_hand") + b("reserved") + b("dispatched") + b("lost")
       /\ \A c \in {"received", "reserved", "in_transit", "dispatched", "lost"} : b(c) >= 0
       /\ b("in_transit") <= b("reserved")

\* Conservation over the whole factory (README.md:24): what is on hand, underway,
\* gone to a customer or lost is what entered, corrected by the recorded recounts.
\* It would fail if a step credited a receiver without debiting a source.
OverTransfers(m, Included(_)) ==
  Total([t \in TransferId |-> When(Included(transfer[t]), transfer[t].amount[m])], MaxTransfer)
Entered(row) == row.source = 0 /\ (row.status = "pending" \/ IsStock(row))
Waiting(row) == row.status = "pending"
Gone(row) == row.source # 0 /\ row.status = "dispatched"
MaterialConserved ==
  \A m \in Measure :
    Total([l \in TransferId |-> IF l \in DOMAIN balance THEN OnHand(l)[m] ELSE 0], MaxTransfer)
      + OverTransfers(m, Waiting) + OverTransfers(m, Gone)
      + Total([i \in LossId |-> loss[i].amount[m]], MaxLoss)
    = OverTransfers(m, Entered)
      + Total([i \in AdjustmentId |-> adjustment[i].after[m] - adjustment[i].before[m]],
              MaxAdjustment)

\* Lineage: a document draws on an older lot, and on one its sending team holds
\* still; amendments and traces walk this chain (material_lineage.relatives).
LineageIsSound ==
  \A t \in TransferId : transfer[t].source # 0 =>
    /\ transfer[t].source < t
    /\ IsStock(transfer[transfer[t].source])
    /\ transfer[transfer[t].source].nextTeam = transfer[t].sourceTeam

\* A line the warehouse returned for correction never becomes stock before its
\* sender edited it, whichever of the two confirmations is used.
ReturnedLinesWait ==
  \A t \in TransferId : transfer[t].rejected =>
    transfer[t].status \in {"pending", "voided"} /\ transfer[t].nextTeam = Warehouse

\* A step that changes a document someone may have read raises its version by
\* one, so that an expected_version taken before the change is refused after it.
EveryEditRaisesVersion ==
  [][\A t \in TransferId : transfer[t].status # "absent" /\ transfer'[t] # transfer[t] =>
       transfer'[t].version = transfer[t].version + 1]_vars

\* A document that was received, sent out or voided is never reopened, redirected
\* or drawn from another lot by any handler (an amendment may only change amounts).
Standing(row) == <<row.kind, row.source, row.sourceTeam, row.nextTeam, row.status>>
SettledDocumentsStay ==
  [][\A t \in TransferId : transfer[t].status \in {"received", "dispatched", "voided"} =>
       Standing(transfer'[t]) = Standing(transfer[t])]_vars

\* Clearing the last pieces and registering outputs leave nothing on hand, in
\* either measure, however many lines of the same submission drew on the lot.
ClosedLotsAreEmpty ==
  [][\A i \in AdjustmentId :
       adjustment'[i] # adjustment[i] /\ adjustment'[i].why \in {"clear", "outputs"} =>
         balance'[adjustment'[i].source].on_hand = Nothing]_vars

\* What the documents promise of outbound submissions
\* (docs/phase-1-material-transfer.md:207 keeps deductions within the stock).
NoOverdraw == \A l \in DOMAIN balance : FitsIn(Nothing, OnHand(l))
=============================================================================
