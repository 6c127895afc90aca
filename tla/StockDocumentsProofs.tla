------------------------ MODULE StockDocumentsProofs ------------------------
(***************************************************************************)
(* Further proofs about StockLedger, on top of the inductive invariant of  *)
(* StockLedgerProofs: every document passes the CHECK constraints of its   *)
(* table, returned lines wait, material is conserved over the whole        *)
(* factory, and lots that are cleared or used up are left empty.           *)
(***************************************************************************)
EXTENDS StockLedgerProofs, FiniteSetTheorems

\* What a row promises besides its type: the checks of its kind; tracked when it was
\* received from a lot; and when it was returned, it waits at the warehouse.
Fits(row) ==
  /\ row.status # "absent" => PassesChecks(row)
  /\ row.status = "received" /\ row.source # 0 => row.tracked
  /\ row.rejected => row.status \in {"pending", "voided"} /\ row.nextTeam = Warehouse

DocumentsFit == \A t \in TransferId : Fits(transfer[t])

\* A loss or an adjustment that was never written is empty.
NotesFit ==
  /\ \A i \in LossId : loss[i].source = 0 => loss[i] = NoLoss
  /\ \A i \in AdjustmentId :
       adjustment[i].source = 0 \/ adjustment[i].why = "none" => adjustment[i] = NoAdjustment

DInv == IInv /\ DocumentsFit /\ NotesFit

-----------------------------------------------------------------------------
(* The rows the handlers write fit.                                        *)

LEMMA EntryFits ==
  ASSUME NEW team \in Team, NEW a
  PROVE  Fits(Received(Document("entry", 0, NoTeam, team, a)))
BY TeamAssumption
DEF Fits, PassesChecks, Received, Document, Kind, ExternalKinds, Conversions, IsStock

LEMMA LineFits ==
  ASSUME NEW team \in Team, NEW target \in Team \cup {NoTeam}, NEW source, NEW a,
         NEW kind \in ExternalKinds \cup {"transfer"},
         kind = "transfer" => target \in Team,
         kind \in ExternalKinds => target = NoTeam /\ source # 0
  PROVE  /\ kind = "transfer" => Fits(Document(kind, source, team, target, a))
         /\ kind \in ExternalKinds =>
              Fits([Document(kind, source, team, target, a) EXCEPT !.status = "dispatched"])
BY TeamAssumption
DEF Fits, PassesChecks, Document, Kind, ExternalKinds, Conversions, IsStock

LEMMA LotFits ==
  ASSUME NEW team \in Team, NEW source, source # 0, NEW a,
         NEW kind \in Conversions \cup {"serial_reallocation"}
  PROVE  Fits(Received(Document(kind, source, team, team, a)))
BY TeamAssumption
DEF Fits, PassesChecks, Received, Document, Kind, ExternalKinds, Conversions, IsStock

\* What may become of a document that waits.
LEMMA WaitingFits ==
  ASSUME NEW row \in Transfer, row.status = "pending", Fits(row)
  PROVE  /\ row.kind \in ExternalKinds \cup {"transfer"}
         /\ Fits([Edited(row) EXCEPT !.status = "voided"])
         /\ ~row.rejected /\ row.nextTeam # NoTeam => Fits(Received(Edited(row)))
         /\ row.nextTeam = Warehouse => Fits([Edited(row) EXCEPT !.rejected = TRUE])
         /\ row.kind \in ExternalKinds => Fits([Edited(row) EXCEPT !.status = "dispatched"])
         /\ \A a \in [Measure -> Nat], target \in Team \cup {NoTeam} : MayGoTo(row, target) =>
              Fits([Edited(row) EXCEPT !.amount = a, !.nextTeam = target, !.rejected = FALSE])
<1>1. PassesChecks(row)
  BY DEF Fits
<1>2. row.kind \in ExternalKinds \cup {"transfer"}
  BY <1>1 DEF PassesChecks, IsStock, Kind
<1>3. Fits([Edited(row) EXCEPT !.status = "voided"])
  BY <1>1, <1>2 DEF Fits, PassesChecks, Edited, Transfer, IsStock, ExternalKinds, Conversions
<1>4. ASSUME ~row.rejected, row.nextTeam # NoTeam PROVE Fits(Received(Edited(row)))
  BY <1>1, <1>2, <1>4
  DEF Fits, PassesChecks, Edited, Received, Transfer, IsStock, ExternalKinds, Conversions
<1>5. ASSUME row.nextTeam = Warehouse PROVE Fits([Edited(row) EXCEPT !.rejected = TRUE])
  BY <1>1, <1>2, <1>5 DEF Fits, PassesChecks, Edited, Transfer, IsStock, ExternalKinds, Conversions
<1>6. ASSUME row.kind \in ExternalKinds PROVE Fits([Edited(row) EXCEPT !.status = "dispatched"])
  BY <1>1, <1>6, TeamAssumption
  DEF Fits, PassesChecks, Edited, Transfer, IsStock, ExternalKinds, Conversions
<1>7. ASSUME NEW a \in [Measure -> Nat], NEW target \in Team \cup {NoTeam}, MayGoTo(row, target)
      PROVE  Fits([Edited(row) EXCEPT !.amount = a, !.nextTeam = target, !.rejected = FALSE])
  BY <1>1, <1>2, <1>7, TeamAssumption
  DEF Fits, PassesChecks, MayGoTo, Edited, Transfer, IsStock, ExternalKinds, Conversions
<1>. QED  BY <1>2, <1>3, <1>4, <1>5, <1>6, <1>7

-----------------------------------------------------------------------------
(* A flush of rows that fit keeps the documents fitting.                   *)

LEMMA FittingRows ==
  ASSUME DInv, NEW rows, \A t \in DOMAIN rows : Fits(rows[t]), NEW lo, NEW ad,
         Flush(Put(transfer, rows), lo, ad)
  PROVE  DocumentsFit'
<1>1. DOMAIN transfer = TransferId
  BY DEF DInv, IInv, DocumentsTyped
<1>2. \A t \in TransferId : transfer'[t] = IF t \in DOMAIN rows THEN rows[t] ELSE transfer[t]
  BY <1>1 DEF Flush, Put
<1>3. \A t \in TransferId : Fits(transfer'[t])
  BY <1>2 DEF DInv, DocumentsFit
<1>. QED  BY <1>3 DEF DocumentsFit, Fits, PassesChecks, IsStock

LEMMA FittingRow ==
  ASSUME DInv, NEW t \in TransferId, NEW row, Fits(row), NEW lo, NEW ad,
         Flush(PutOne(transfer, t, row), lo, ad)
  PROVE  DocumentsFit'
<1>1. DOMAIN transfer = TransferId
  BY DEF DInv, IInv, DocumentsTyped
<1>2. \A u \in TransferId : transfer'[u] = IF u = t THEN row ELSE transfer[u]
  BY <1>1 DEF Flush, PutOne
<1>3. \A u \in TransferId : Fits(transfer'[u])
  BY <1>2 DEF DInv, DocumentsFit
<1>. QED  BY <1>3 DEF DocumentsFit, Fits, PassesChecks, IsStock

LEMMA SameRows ==
  ASSUME DInv, transfer' = transfer
  PROVE  DocumentsFit'
BY DEF DInv, DocumentsFit, Fits, PassesChecks, IsStock

-----------------------------------------------------------------------------
(* One lemma per group of handlers.                                        *)

LEMMA EnterFits == DInv /\ Enter => DocumentsFit'
<1> SUFFICES ASSUME DInv, Enter PROVE DocumentsFit'
  OBVIOUS
<1>1. CASE CreateReceipt
  <2>1. PICK a \in Amounts, t \in TransferId :
          Flush(PutOne(transfer, t, Received(Document("entry", 0, NoTeam, Warehouse, a))),
                loss, adjustment)
    BY <1>1 DEF CreateReceipt
  <2>. QED  BY <2>1, EntryFits, FittingRow, TeamAssumption
<1>2. ASSUME NEW team \in Team, CreateOpening(team) PROVE DocumentsFit'
  <2>1. PICK fresh, a :
          Flush(Put(transfer, [t \in fresh |-> Received(Document("entry", 0, NoTeam, team, a[t]))]),
                loss, adjustment)
    BY <1>2 DEF CreateOpening
  <2> DEFINE rows == [t \in fresh |-> Received(Document("entry", 0, NoTeam, team, a[t]))]
  <2>2. \A t \in DOMAIN rows : Fits(rows[t])
    BY EntryFits
  <2>3. Flush(Put(transfer, rows), loss, adjustment)
    BY <2>1
  <2> HIDE DEF rows
  <2>. QED  BY <2>2, <2>3, FittingRows
<1>3. ASSUME NEW team \in Team, NEW target \in Team, CreateTransfer(team, target)
      PROVE  DocumentsFit'
  <2>1. PICK a \in Amounts, t \in TransferId :
          Flush(PutOne(transfer, t, Document("transfer", 0, team, target, a)), loss, adjustment)
    BY <1>3 DEF CreateTransfer
  <2>2. Fits(Document("transfer", 0, team, target, a))
    BY LineFits DEF ExternalKinds
  <2>. QED  BY <2>1, <2>2, FittingRow
<1>. QED  BY <1>1, <1>2, <1>3 DEF Enter

LEMMA LeaveFits == DInv /\ Leave => DocumentsFit'
<1> SUFFICES ASSUME DInv, NEW team \in Team, NEW kind \in ExternalKinds \cup {"transfer"},
                    NEW target \in Team \cup {NoTeam}, CreateDispatch(team, kind, target)
             PROVE  DocumentsFit'
  BY DEF Leave
<1>1. PICK fresh, lines, cleared, count :
        /\ lines \in [fresh -> [source : LotsOf(team), amount : Amounts]]
        /\ SubmitLines(team, kind, target, lines, count, cleared)
  BY DEF CreateDispatch
<1> DEFINE rows == [t \in fresh |-> LineRow(team, kind, target, lines[t])]
<1>2. PICK note : Flush(Put(transfer, rows), loss, Put(adjustment, note))
  <2>1. DOMAIN lines = fresh
    BY <1>1
  <2>. QED  BY <1>1, <2>1 DEF SubmitLines
<1>3. ASSUME NEW t \in fresh PROVE Fits(rows[t])
  <2>1. lines[t].source # 0
    <3>1. lines[t].source \in StockIds(transfer)
      BY <1>1 DEF LotsOf
    <3>. QED  BY <3>1, SizesAssumption DEF StockIds, TransferId
  <2>2. /\ kind = "transfer" => target \in Team
        /\ kind \in ExternalKinds => target = NoTeam
    BY DEF CreateDispatch, MayLeave, ExternalKinds
  <2>3. rows[t] = LineRow(team, kind, target, lines[t])
    OBVIOUS
  <2> HIDE DEF rows
  <2> DEFINE row == Document(kind, lines[t].source, team, target, lines[t].amount)
  <2>4. /\ kind = "transfer" => Fits(row)
        /\ kind \in ExternalKinds => Fits([row EXCEPT !.status = "dispatched"])
    BY <2>1, <2>2, LineFits
  <2>5. rows[t] = IF kind \in ExternalKinds THEN [row EXCEPT !.status = "dispatched"] ELSE row
    BY <2>3 DEF LineRow
  <2> HIDE DEF row
  <2>6. CASE kind = "transfer"
    BY <2>6, <2>4, <2>5 DEF ExternalKinds
  <2>7. CASE kind \in ExternalKinds
    BY <2>7, <2>4, <2>5
  <2>. QED  BY <2>6, <2>7
<1>4. DOMAIN rows = fresh
  OBVIOUS
<1> HIDE DEF rows
<1>. QED  BY <1>2, <1>3, <1>4, FittingRows

\* A waiting document fits, and so does what may become of it.
LEMMA EditableFits ==
  ASSUME DInv, NEW t \in TransferId, transfer[t].status = "pending"
  PROVE  transfer[t] \in Transfer /\ Fits(transfer[t])
BY DEF DInv, IInv, DocumentsTyped, DocumentsFit

LEMMA SettleFits == DInv /\ Settle => DocumentsFit'
<1> SUFFICES ASSUME DInv, Settle PROVE DocumentsFit'
  OBVIOUS
<1>1. ASSUME NEW t \in TransferId, UpdateTransfer(t) PROVE DocumentsFit'
  <2>1. PICK a \in Amounts, target \in Team \cup {NoTeam} :
          /\ Editable(t) /\ MayGoTo(transfer[t], target)
          /\ \E ad : Flush(PutOne(transfer, t, [Edited(transfer[t]) EXCEPT
                          !.amount = a, !.nextTeam = target, !.rejected = FALSE]), loss, ad)
    BY <1>1 DEF UpdateTransfer
  <2> DEFINE row == [Edited(transfer[t]) EXCEPT
                       !.amount = a, !.nextTeam = target, !.rejected = FALSE]
  <2>2. Fits(row)
    BY <2>1, EditableFits, WaitingFits, SizesAssumption DEF Editable
  <2>3. PICK ad : Flush(PutOne(transfer, t, row), loss, ad)
    BY <2>1
  <2> HIDE DEF row
  <2>. QED  BY <2>2, <2>3, FittingRow
<1>2. ASSUME NEW t \in TransferId, VoidTransfer(t) PROVE DocumentsFit'
  <2>1. Fits([Edited(transfer[t]) EXCEPT !.status = "voided"])
    BY <1>2, EditableFits, WaitingFits DEF VoidTransfer, Editable
  <2>. QED  BY <1>2, <2>1, FittingRow DEF VoidTransfer
<1>3. ASSUME NEW t \in TransferId, ConfirmTransfer(t) PROVE DocumentsFit'
  <2>1. Fits(Received(Edited(transfer[t])))
    BY <1>3, EditableFits, WaitingFits DEF ConfirmTransfer, Editable, MayBeReceived
  <2>. QED  BY <1>3, <2>1, FittingRow DEF ConfirmTransfer
<1>4. ASSUME NEW t \in TransferId, RejectTransfer(t) PROVE DocumentsFit'
  <2>1. Fits([Edited(transfer[t]) EXCEPT !.rejected = TRUE])
    BY <1>4, EditableFits, WaitingFits DEF RejectTransfer, Editable
  <2>. QED  BY <1>4, <2>1, FittingRow DEF RejectTransfer
<1>5. ASSUME NEW t \in TransferId, ConfirmOutbound(t) PROVE DocumentsFit'
  <2>1. Fits([Edited(transfer[t]) EXCEPT !.status = "dispatched"])
    BY <1>5, EditableFits, WaitingFits DEF ConfirmOutbound, Editable
  <2>. QED  BY <1>5, <2>1, FittingRow DEF ConfirmOutbound
<1>6. ASSUME NEW group, ConfirmDispatch(group) PROVE DocumentsFit'
  <2> DEFINE pending == {t \in {t \in TransferId : transfer[t].group = group} :
                           transfer[t].status = "pending"}
             rows == [t \in pending |-> Confirmed(transfer[t])]
  <2>1. /\ Flush(Put(transfer, rows), loss, adjustment)
        /\ \A t \in pending : MayBeReceived(transfer[t])
    BY <1>6 DEF ConfirmDispatch
  <2>2. ASSUME NEW t \in pending PROVE Fits(Confirmed(transfer[t]))
    <3>1. /\ t \in TransferId /\ transfer[t] \in Transfer /\ Fits(transfer[t])
          /\ transfer[t].status = "pending" /\ ~transfer[t].rejected
      BY <2>1, EditableFits DEF MayBeReceived
    <3>2. CASE transfer[t].kind \in ExternalKinds
      BY <3>1, <3>2, WaitingFits DEF Confirmed
    <3>3. CASE transfer[t].kind \notin ExternalKinds
      <4>1. transfer[t].nextTeam # NoTeam
        BY <3>1, <3>3 DEF Fits, PassesChecks
      <4>. QED  BY <3>1, <3>3, <4>1, WaitingFits DEF Confirmed
    <3>. QED  BY <3>2, <3>3
  <2>3. DOMAIN rows = pending /\ \A t \in pending : rows[t] = Confirmed(transfer[t])
    OBVIOUS
  <2> HIDE DEF rows, pending
  <2>. QED  BY <2>1, <2>2, <2>3, FittingRows
<1>. QED  BY <1>1, <1>2, <1>3, <1>4, <1>5, <1>6 DEF Settle

\* A lot is held by a team.
LEMMA LotHeld ==
  ASSUME DInv, NEW l \in StockIds(transfer)
  PROVE  l # 0 /\ transfer[l].nextTeam \in Team
<1>1. l \in TransferId /\ transfer[l] \in Transfer /\ IsStock(transfer[l])
  BY OnHandType DEF DInv
<1>2. Fits(transfer[l])
  BY <1>1 DEF DInv, DocumentsFit
<1>3. transfer[l].nextTeam # NoTeam
  BY <1>1, <1>2 DEF Fits, PassesChecks, IsStock
<1>. QED  BY <1>1, <1>3, SizesAssumption DEF Transfer, TransferId

LEMMA WorkFits == DInv /\ Work => DocumentsFit'
<1> SUFFICES ASSUME DInv, NEW l \in StockIds(transfer),
                    \/ CreateLoss(l) \/ RecordRecount(l) \/ RegisterOutputs(l)
                    \/ Reallocate(l) \/ SplitRework(l)
             PROVE  DocumentsFit'
  BY DEF Work
<1> DEFINE team == transfer[l].nextTeam
<1>1. l # 0 /\ team \in Team
  BY LotHeld
<1>2. CASE CreateLoss(l) \/ RecordRecount(l)
  <2>1. transfer' = transfer
    BY <1>2 DEF CreateLoss, RecordRecount, Flush
  <2>. QED  BY <2>1, SameRows
<1>3. CASE RegisterOutputs(l)
  <2>1. PICK fresh, lines, ad :
          Flush(Put(transfer, [t \in fresh |->
                  Received(Document("processing_output", l, team, team, lines[t].amount))]), loss, ad)
    BY <1>3 DEF RegisterOutputs
  <2> DEFINE rows == [t \in fresh |->
                  Received(Document("processing_output", l, team, team, lines[t].amount))]
  <2>2. \A t \in DOMAIN rows : Fits(rows[t])
    BY <1>1, LotFits DEF Conversions
  <2>3. Flush(Put(transfer, rows), loss, ad)
    BY <2>1
  <2> HIDE DEF rows
  <2>. QED  BY <2>2, <2>3, FittingRows
<1>4. CASE Reallocate(l)
  <2>1. PICK a \in Amounts, t \in TransferId :
          Flush(PutOne(transfer, t, Received(Document("serial_reallocation", l, team, team, a))),
                loss, adjustment)
    BY <1>4 DEF Reallocate
  <2>. QED  BY <1>1, <2>1, LotFits, FittingRow
<1>5. CASE SplitRework(l)
  <2>1. PICK a \in Amounts, t \in TransferId :
          Flush(PutOne(transfer, t, Received(Document("rework_split", l, team, team, a))),
                loss, adjustment)
    BY <1>5 DEF SplitRework
  <2>2. Fits(Received(Document("rework_split", l, team, team, a)))
    BY <1>1, LotFits DEF Conversions
  <2>. QED  BY <2>1, <2>2, FittingRow
<1>. QED  BY <1>2, <1>3, <1>4, <1>5

-----------------------------------------------------------------------------
(* Losses and adjustments are only ever written on lots.                   *)

LEMMA SameNotes ==
  ASSUME DInv, loss' = loss, adjustment' = adjustment
  PROVE  NotesFit'
BY DEF DInv, NotesFit

LEMMA MoreNotes ==
  ASSUME DInv, loss' = loss, NEW note, adjustment' = Put(adjustment, note),
         \A i \in DOMAIN note : note[i].source # 0 /\ note[i].why # "none"
  PROVE  NotesFit'
<1>1. DOMAIN adjustment = AdjustmentId
  BY DEF DInv, IInv, DocumentsTyped
<1>2. \A i \in AdjustmentId : adjustment'[i] = IF i \in DOMAIN note THEN note[i] ELSE adjustment[i]
  BY <1>1 DEF Put
<1>. QED  BY <1>2 DEF DInv, NotesFit

LEMMA OneMoreNote ==
  ASSUME DInv, loss' = loss, NEW i, NEW note, adjustment' = PutOne(adjustment, i, note),
         note.source # 0, note.why # "none"
  PROVE  NotesFit'
<1>1. DOMAIN adjustment = AdjustmentId
  BY DEF DInv, IInv, DocumentsTyped
<1>2. \A k \in AdjustmentId : adjustment'[k] = IF k = i THEN note ELSE adjustment[k]
  BY <1>1 DEF PutOne
<1>. QED  BY <1>2 DEF DInv, NotesFit

LEMMA NotesStayFit == DInv /\ Next => NotesFit'
<1> SUFFICES ASSUME DInv, Next PROVE NotesFit'
  OBVIOUS
<1>1. CASE Enter
  <2>1. loss' = loss /\ adjustment' = adjustment
    BY <1>1 DEF Enter, CreateReceipt, CreateOpening, CreateTransfer, Flush
  <2>. QED  BY <2>1, SameNotes
<1>2. ASSUME NEW team \in Team, NEW kind, NEW target, CreateDispatch(team, kind, target)
      PROVE  NotesFit'
  <2>1. PICK fresh, lines, counted, cleared, count :
          /\ lines \in [fresh -> [source : LotsOf(team), amount : Amounts]]
          /\ counted \in SUBSET {lines[t].source : t \in fresh}
          /\ cleared \in SUBSET {lines[t].source : t \in fresh}
          /\ count \in [counted -> Counts]
          /\ SubmitLines(team, kind, target, lines, count, cleared)
    BY <1>2 DEF CreateDispatch
  <2> DEFINE notes == Notes(lines, count, cleared)
  <2>2. PICK noted, note : /\ note \in [noted -> notes]
                           /\ loss' = loss /\ adjustment' = Put(adjustment, note)
    BY <2>1 DEF SubmitLines, Flush
  <2>3. \A l \in counted \cup cleared : l # 0
    <3>1. \A t \in fresh : lines[t].source \in StockIds(transfer)
      BY <2>1 DEF LotsOf
    <3>. QED  BY <2>1, <3>1, SizesAssumption DEF StockIds, TransferId
  <2>4. \A n \in notes : n.source # 0 /\ n.why # "none"
    BY <2>1, <2>3 DEF Notes, CountRow, ClearRow
  <2> HIDE DEF notes
  <2>. QED  BY <2>2, <2>4, MoreNotes
<1>3. ASSUME NEW t \in TransferId, UpdateTransfer(t) PROVE NotesFit'
  <2>1. CASE loss' = loss /\ adjustment' = adjustment
    BY <2>1, SameNotes
  <2>2. CASE ~(loss' = loss /\ adjustment' = adjustment)
    <3>1. PICK i, available, a :
            /\ transfer[t].source # 0
            /\ loss' = loss
            /\ adjustment' = PutOne(adjustment, i, ClearRow(transfer[t].source, available, a))
      BY <1>3, <2>2 DEF UpdateTransfer, Flush
    <3>2. /\ ClearRow(transfer[t].source, available, a).source # 0
          /\ ClearRow(transfer[t].source, available, a).why # "none"
      BY <3>1 DEF ClearRow
    <3>. QED  BY <3>1, <3>2, OneMoreNote
  <2>. QED  BY <2>1, <2>2
<1>4. ASSUME Settle, \A t \in TransferId : ~UpdateTransfer(t) PROVE NotesFit'
  <2>1. loss' = loss /\ adjustment' = adjustment
    BY <1>4 DEF Settle, VoidTransfer, ConfirmTransfer, RejectTransfer, ConfirmOutbound,
                ConfirmDispatch, Flush
  <2>. QED  BY <2>1, SameNotes
<1>5. ASSUME NEW l \in StockIds(transfer), CreateLoss(l) PROVE NotesFit'
  <2>1. PICK a, i : /\ loss' = PutOne(loss, i, [source |-> l, amount |-> a])
                    /\ adjustment' = adjustment
    BY <1>5 DEF CreateLoss, Flush
  <2>2. DOMAIN loss = LossId
    BY DEF DInv, IInv, DocumentsTyped
  <2>3. \A k \in LossId : loss'[k] = IF k = i THEN [source |-> l, amount |-> a] ELSE loss[k]
    BY <2>1, <2>2 DEF PutOne
  <2>. QED  BY <2>1, <2>3, LotHeld DEF DInv, NotesFit
<1>6. ASSUME NEW l \in StockIds(transfer), RecordRecount(l) PROVE NotesFit'
  <2>1. PICK q, i : loss' = loss /\ adjustment' = PutOne(adjustment, i, CountRow(l, q))
    BY <1>6 DEF RecordRecount, Flush
  <2>2. CountRow(l, q).source # 0 /\ CountRow(l, q).why # "none"
    BY LotHeld DEF CountRow
  <2>. QED  BY <2>1, <2>2, OneMoreNote
<1>7. ASSUME NEW l \in StockIds(transfer), RegisterOutputs(l) PROVE NotesFit'
  <2>1. PICK i, after : /\ loss' = loss
                        /\ adjustment' = PutOne(adjustment, i,
                             [source |-> l, why |-> "outputs", before |-> OnHand(l), after |-> after])
    BY <1>7 DEF RegisterOutputs, Flush
  <2> DEFINE note == [source |-> l, why |-> "outputs", before |-> OnHand(l), after |-> after]
  <2>2. note.source # 0 /\ note.why # "none"
    BY LotHeld
  <2>. QED  BY <2>1, <2>2, OneMoreNote
<1>8. ASSUME NEW l \in StockIds(transfer), Reallocate(l) \/ SplitRework(l) PROVE NotesFit'
  <2>1. loss' = loss /\ adjustment' = adjustment
    BY <1>8 DEF Reallocate, SplitRework, Flush
  <2>. QED  BY <2>1, SameNotes
<1>9. CASE Settle
  BY <1>3, <1>4, <1>9
<1>10. CASE Leave
  BY <1>2, <1>10 DEF Leave
<1>11. CASE Work
  BY <1>5, <1>6, <1>7, <1>8, <1>11 DEF Work
<1>. QED  BY <1>1, <1>9, <1>10, <1>11 DEF Next

LEMMA FitIsInductive ==
  /\ Init => DInv
  /\ DInv /\ [Next]_vars => DInv'
<1>1. ASSUME Init PROVE DInv
  <2>1. IInv /\ DocumentsFit
    BY <1>1, InitIsSound, HistoryAssumption DEF Init, DocumentsFit, Fits
  <2>2. NotesFit
    BY <1>1 DEF Init, NotesFit
  <2>. QED  BY <2>1, <2>2 DEF DInv
<1>2. ASSUME DInv, [Next]_vars PROVE DInv'
  <2>1. IInv'
    BY <1>2, NextIsSound DEF DInv
  <2>2. DocumentsFit'
    <3>1. CASE Next
      BY <1>2, <3>1, EnterFits, LeaveFits, SettleFits, WorkFits DEF Next
    <3>2. CASE UNCHANGED vars
      BY <1>2, <3>2, SameRows DEF vars
    <3>. QED  BY <1>2, <3>1, <3>2
  <2>3. NotesFit'
    BY <1>2, NotesStayFit, SameNotes DEF vars
  <2>. QED  BY <2>1, <2>2, <2>3 DEF DInv
<1>. QED  BY <1>1, <1>2

\* No transaction is refused by the CHECK constraints of material_transfers
\* (models.py ck_mt_entry_kind_source, ck_mt_entry_destination): each kind of document
\* keeps the source, the receiver and the states it may have.
THEOREM DocumentsAlwaysFit == Spec => []DInv
<1>. QED  BY FitIsInductive, PTL DEF Spec

\* A line the warehouse returned never becomes stock before its sender edited it.
THEOREM ReturnedAlwaysWait == Spec => []ReturnedLinesWait
<1>1. DInv => ReturnedLinesWait
  BY DEF DInv, DocumentsFit, Fits, ReturnedLinesWait
<1>. QED  BY <1>1, DocumentsAlwaysFit, PTL

-----------------------------------------------------------------------------
(* Conservation.  What all lots have on hand is, row by row instead of lot *)
(* by lot, what each row gives to its own lot less what it takes from its  *)
(* source; a row that is still underway or has left the factory is counted *)
(* where it is, and only a row without a source brings material in.        *)

\* What one row adds to the stock on hand of all lots together.
LEMMA RowOnHand ==
  ASSUME DInv, NEW t \in TransferId, NEW m \in Measure
  PROVE  LET row == transfer[t]
             share == [l \in TransferId |-> TransferShare(t, row, l, "on_hand", m)]
         IN /\ share \in [TransferId -> Int]
            /\ Total(share, MaxTransfer) + When(Waiting(row), row.amount[m])
                 + When(Gone(row), row.amount[m])
                 = When(Entered(row), row.amount[m])
<1> DEFINE row == transfer[t]
           a == row.amount[m]
           share == [l \in TransferId |-> TransferShare(t, row, l, "on_hand", m)]
           given == [l \in TransferId |-> When(t = l /\ IsStock(row), a)]
           taken == [l \in TransferId |-> When(Debited(row, l), a)]
<1>1. /\ row \in Transfer /\ Fits(row) /\ a \in Nat
      /\ row.source \in {0} \cup TransferId /\ 0 \notin TransferId
      /\ row.source # t
  <2>1. row \in Transfer /\ Fits(row)
    BY DEF DInv, IInv, DocumentsTyped, DocumentsFit
  <2>2. a \in Nat
    BY <2>1 DEF Transfer
  <2>3. row.source \in {0} \cup TransferId
    BY DEF DInv, IInv, DrawOnLots, StockIds
  <2>4. 0 \notin TransferId
    BY SizesAssumption DEF TransferId
  <2>5. row.source # 0 => row.source < t
    BY DEF DInv, IInv, LineageIsSound
  <2>. QED  BY <2>1, <2>2, <2>3, <2>4, <2>5, SizesAssumption DEF TransferId
<1>2. /\ share \in [TransferId -> Int] /\ given \in [TransferId -> Int]
      /\ taken \in [TransferId -> Int]
      /\ \A l \in TransferId : share[l] = given[l] - taken[l]
  BY <1>1 DEF TransferShare, When
<1>3. /\ \A l \in TransferId : given[l] = When(t = l /\ IsStock(row), a)
      /\ \A l \in TransferId : taken[l] = When(Debited(row, l), a)
  OBVIOUS
<1> HIDE DEF share, given, taken
<1>4. Total(share, MaxTransfer) = Total(given, MaxTransfer) - Total(taken, MaxTransfer)
  BY <1>2, TotalSubtracts, SizesAssumption DEF TransferId
<1>5. Total(given, MaxTransfer) = When(IsStock(row), a)
  <2>1. \A l \in TransferId : l # t => given[l] = 0
    BY <1>3 DEF When
  <2>2. Total(given, MaxTransfer) = given[t]
    BY <1>2, <2>1, TotalOfOne, SizesAssumption DEF TransferId
  <2>3. given[t] = When(IsStock(row), a)
    BY <1>3 DEF When
  <2>. QED  BY <2>2, <2>3
<1>6. Total(taken, MaxTransfer)
        = When(row.source # 0 /\ row.status \in {"pending", "received", "dispatched"}, a)
  <2>1. CASE row.source = 0
    <3>1. \A l \in TransferId : taken[l] = 0
      BY <1>1, <1>3, <2>1 DEF When, Debited
    <3>2. Total(taken, MaxTransfer) = 0
      BY <1>2, <3>1, TotalOfZeros, SizesAssumption DEF TransferId
    <3>. QED  BY <2>1, <3>2 DEF When
  <2>2. CASE row.source # 0
    <3>1. row.source \in TransferId
      BY <1>1, <2>2
    <3>2. \A l \in TransferId : l # row.source => taken[l] = 0
      BY <1>3 DEF When, Debited
    <3>3. Total(taken, MaxTransfer) = taken[row.source]
      BY <1>2, <3>1, <3>2, TotalOfOne, SizesAssumption DEF TransferId
    <3>. QED  BY <1>3, <2>2, <3>1, <3>3 DEF Debited
  <2>. QED  BY <2>1, <2>2
<1>7. Total(share, MaxTransfer) + When(Waiting(row), a) + When(Gone(row), a) = When(Entered(row), a)
  BY <1>1, <1>4, <1>5, <1>6
  DEF When, Waiting, Gone, Entered, IsStock, Fits
<1>. QED  BY <1>2, <1>7 DEF share

\* What a loss takes from all lots together.
LEMMA LossOnHand ==
  ASSUME DInv, NEW i \in LossId, NEW m \in Measure
  PROVE  LET share == [l \in TransferId |-> LossShare(loss[i], l, "on_hand", m)]
         IN /\ share \in [TransferId -> Int]
            /\ Total(share, MaxTransfer) + When(loss[i].source # 0, loss[i].amount[m]) = 0
<1> DEFINE row == loss[i]
           share == [l \in TransferId |-> LossShare(row, l, "on_hand", m)]
<1>1. /\ row.amount[m] \in Nat /\ row.source \in {0} \cup TransferId /\ 0 \notin TransferId
  BY SizesAssumption DEF DInv, IInv, DocumentsTyped, Loss, DrawOnLots, StockIds, TransferId
<1>2. /\ share \in [TransferId -> Int]
      /\ \A l \in TransferId : share[l] = - When(row.source = l, row.amount[m])
  BY <1>1 DEF LossShare, When
<1> HIDE DEF share
<1>3. CASE row.source = 0
  <2>1. \A l \in TransferId : share[l] = 0
    BY <1>1, <1>2, <1>3 DEF When
  <2>2. Total(share, MaxTransfer) = 0
    BY <1>2, <2>1, TotalOfZeros, SizesAssumption DEF TransferId
  <2>3. When(row.source # 0, row.amount[m]) = 0
    BY <1>3 DEF When
  <2>. QED  BY <1>2, <2>2, <2>3 DEF share
<1>4. CASE row.source # 0
  <2>1. row.source \in TransferId
    BY <1>1, <1>4
  <2>2. \A l \in TransferId : l # row.source => share[l] = 0
    BY <1>2 DEF When
  <2>3. Total(share, MaxTransfer) = share[row.source]
    BY <1>2, <2>1, <2>2, TotalOfOne, SizesAssumption DEF TransferId
  <2>4. Total(share, MaxTransfer) = - row.amount[m]
    BY <1>2, <2>1, <2>3 DEF When
  <2>5. When(row.source # 0, row.amount[m]) = row.amount[m]
    BY <1>4 DEF When
  <2>. QED  BY <1>1, <1>2, <2>4, <2>5 DEF share
<1>. QED  BY <1>3, <1>4

\* What an adjustment adds to all lots together.
LEMMA AdjustmentOnHand ==
  ASSUME DInv, NEW i \in AdjustmentId, NEW m \in Measure
  PROVE  LET row == adjustment[i]
             share == [l \in TransferId |-> AdjustmentShare(row, l, "on_hand", m)]
         IN /\ share \in [TransferId -> Int]
            /\ Total(share, MaxTransfer) = When(row.source # 0, row.after[m] - row.before[m])
<1> DEFINE row == adjustment[i]
           change == row.after[m] - row.before[m]
           share == [l \in TransferId |-> AdjustmentShare(row, l, "on_hand", m)]
<1>1. change \in Int /\ row.source \in {0} \cup TransferId /\ 0 \notin TransferId
  BY SizesAssumption DEF DInv, IInv, DocumentsTyped, Adjustment, DrawOnLots, StockIds, TransferId
<1>2. /\ share \in [TransferId -> Int]
      /\ \A l \in TransferId : share[l] = When(row.source = l, change)
  BY <1>1 DEF AdjustmentShare, When
<1> HIDE DEF share
<1>3. CASE row.source = 0
  <2>1. \A l \in TransferId : share[l] = 0
    BY <1>1, <1>2, <1>3 DEF When
  <2>2. Total(share, MaxTransfer) = 0
    BY <1>2, <2>1, TotalOfZeros, SizesAssumption DEF TransferId
  <2>. QED  BY <1>2, <1>3, <2>2 DEF When, share
<1>4. CASE row.source # 0
  <2>1. row.source \in TransferId
    BY <1>1, <1>4
  <2>2. \A l \in TransferId : l # row.source => share[l] = 0
    BY <1>2 DEF When
  <2>3. Total(share, MaxTransfer) = share[row.source]
    BY <1>2, <2>1, <2>2, TotalOfOne, SizesAssumption DEF TransferId
  <2>4. Total(share, MaxTransfer) = change
    BY <1>2, <2>1, <2>3 DEF When
  <2>. QED  BY <1>2, <1>4, <2>4 DEF When, share
<1>. QED  BY <1>3, <1>4

\* What all lots have on hand together, table by table and row by row.
LEMMA OnHandByRow ==
  ASSUME DInv, NEW m \in Measure
  PROVE  Total([l \in TransferId |-> IF l \in DOMAIN balance THEN OnHand(l)[m] ELSE 0], MaxTransfer)
           = Total([t \in TransferId |->
                     Total([l \in TransferId |-> TransferShare(t, transfer[t], l, "on_hand", m)],
                           MaxTransfer)], MaxTransfer)
           + Total([i \in LossId |->
                     Total([l \in TransferId |-> LossShare(loss[i], l, "on_hand", m)],
                           MaxTransfer)], MaxLoss)
           + Total([i \in AdjustmentId |->
                     Total([l \in TransferId |-> AdjustmentShare(adjustment[i], l, "on_hand", m)],
                           MaxTransfer)], MaxAdjustment)
<1> DEFINE c == "on_hand"
           O == [l \in TransferId |-> IF l \in DOMAIN balance THEN OnHand(l)[m] ELSE 0]
           FT == [l \in 1 .. MaxTransfer |-> TransferColumn(transfer, l, c, m)]
           FL == [l \in 1 .. MaxTransfer |-> LossColumn(loss, l, c, m)]
           FA == [l \in 1 .. MaxTransfer |-> AdjustmentColumn(adjustment, l, c, m)]
           T == [l \in 1 .. MaxTransfer |-> Total(FT[l], MaxTransfer)]
           L == [l \in 1 .. MaxTransfer |-> Total(FL[l], MaxLoss)]
           A == [l \in 1 .. MaxTransfer |-> Total(FA[l], MaxAdjustment)]
           TL == [l \in 1 .. MaxTransfer |-> T[l] + L[l]]
<1>1. /\ DocumentsTyped(transfer, loss, adjustment) /\ DrawOnLots(transfer, loss, adjustment)
      /\ DOMAIN balance = StockIds(transfer) /\ c \in Column
  BY DEF DInv, IInv, BalancesAreBooks, Column
<1>2. /\ FT \in [1 .. MaxTransfer -> [1 .. MaxTransfer -> Int]]
      /\ FL \in [1 .. MaxTransfer -> [1 .. MaxLoss -> Int]]
      /\ FA \in [1 .. MaxTransfer -> [1 .. MaxAdjustment -> Int]]
  BY <1>1, ColumnTypes
<1>3. /\ T \in [1 .. MaxTransfer -> Int] /\ L \in [1 .. MaxTransfer -> Int]
      /\ A \in [1 .. MaxTransfer -> Int]
  <2> HIDE DEF FT, FL, FA
  <2>. QED  BY <1>2, TotalType, SizesAssumption
<1>4. ASSUME NEW l \in TransferId
      PROVE  O[l] = T[l] + L[l] + A[l]
  <2>1. Books(transfer, loss, adjustment, l, c, m) = T[l] + L[l] + A[l]
    BY DEF Books, TransferId
  <2>2. CASE l \in StockIds(transfer)
    BY <1>1, <2>1, <2>2 DEF DInv, IInv, BalancesAreBooks, OnHand
  <2>3. CASE l \notin StockIds(transfer)
    <3>1. Books(transfer, loss, adjustment, l, c, m) = 0
      BY <1>1, <2>3, NoBooksBefore DEF StockIds
    <3>. QED  BY <1>1, <2>1, <2>3, <3>1
  <2>. QED  BY <2>2, <2>3
<1> HIDE DEF T, L, A, O
<1>5. /\ TL \in [1 .. MaxTransfer -> Int] /\ \A l \in 1 .. MaxTransfer : TL[l] = T[l] + L[l]
  BY <1>3
<1>6. /\ O \in [1 .. MaxTransfer -> Int] /\ \A l \in 1 .. MaxTransfer : O[l] = TL[l] + A[l]
  BY <1>3, <1>4, <1>5 DEF O, TransferId
<1> HIDE DEF TL
<1>7. /\ Total(TL, MaxTransfer) = Total(T, MaxTransfer) + Total(L, MaxTransfer)
      /\ Total(O, MaxTransfer) = Total(TL, MaxTransfer) + Total(A, MaxTransfer)
  BY <1>3, <1>5, <1>6, TotalAdds, SizesAssumption
<1>8. Total(T, MaxTransfer)
        = Total([t \in TransferId |->
            Total([l \in TransferId |-> TransferShare(t, transfer[t], l, c, m)], MaxTransfer)],
                MaxTransfer)
  <2>1. Total(T, MaxTransfer)
          = Total([t \in 1 .. MaxTransfer |-> Total([l \in 1 .. MaxTransfer |-> FT[l][t]],
                                                    MaxTransfer)], MaxTransfer)
    <3> HIDE DEF FT
    <3>. QED  BY <1>2, TotalExchange, SizesAssumption DEF T
  <2>. QED  BY <2>1 DEF TransferColumn, TransferId
<1>9. Total(L, MaxTransfer)
        = Total([i \in LossId |->
            Total([l \in TransferId |-> LossShare(loss[i], l, c, m)], MaxTransfer)], MaxLoss)
  <2>1. Total(L, MaxTransfer)
          = Total([i \in 1 .. MaxLoss |-> Total([l \in 1 .. MaxTransfer |-> FL[l][i]],
                                                MaxTransfer)], MaxLoss)
    <3> HIDE DEF FL
    <3>. QED  BY <1>2, TotalExchange, SizesAssumption DEF L
  <2>. QED  BY <2>1 DEF LossColumn, LossId, TransferId
<1>10. Total(A, MaxTransfer)
        = Total([i \in AdjustmentId |->
            Total([l \in TransferId |-> AdjustmentShare(adjustment[i], l, c, m)], MaxTransfer)],
                MaxAdjustment)
  <2>1. Total(A, MaxTransfer)
          = Total([i \in 1 .. MaxAdjustment |-> Total([l \in 1 .. MaxTransfer |-> FA[l][i]],
                                                      MaxTransfer)], MaxAdjustment)
    <3> HIDE DEF FA
    <3>. QED  BY <1>2, TotalExchange, SizesAssumption DEF A
  <2>. QED  BY <2>1 DEF AdjustmentColumn, AdjustmentId, TransferId
<1>11. /\ Total(T, MaxTransfer) \in Int /\ Total(L, MaxTransfer) \in Int
       /\ Total(A, MaxTransfer) \in Int
  BY <1>3, TotalType, SizesAssumption
<1>. QED  BY <1>7, <1>8, <1>9, <1>10, <1>11 DEF O

LEMMA FitConserves == DInv => MaterialConserved
<1> SUFFICES ASSUME DInv, NEW m \in Measure
             PROVE  Total([l \in TransferId |-> IF l \in DOMAIN balance THEN OnHand(l)[m] ELSE 0],
                          MaxTransfer)
                      + OverTransfers(m, Waiting) + OverTransfers(m, Gone)
                      + Total([i \in LossId |-> loss[i].amount[m]], MaxLoss)
                    = OverTransfers(m, Entered)
                      + Total([i \in AdjustmentId |-> adjustment[i].after[m] - adjustment[i].before[m]],
                              MaxAdjustment)
  BY DEF MaterialConserved
<1> DEFINE T == [t \in TransferId |->
                  Total([l \in TransferId |-> TransferShare(t, transfer[t], l, "on_hand", m)],
                        MaxTransfer)]
           W == [t \in TransferId |-> When(Waiting(transfer[t]), transfer[t].amount[m])]
           G == [t \in TransferId |-> When(Gone(transfer[t]), transfer[t].amount[m])]
           E == [t \in TransferId |-> When(Entered(transfer[t]), transfer[t].amount[m])]
           L == [i \in LossId |->
                  Total([l \in TransferId |-> LossShare(loss[i], l, "on_hand", m)], MaxTransfer)]
           X == [i \in LossId |-> loss[i].amount[m]]
           A == [i \in AdjustmentId |->
                  Total([l \in TransferId |-> AdjustmentShare(adjustment[i], l, "on_hand", m)],
                        MaxTransfer)]
           C == [i \in AdjustmentId |-> adjustment[i].after[m] - adjustment[i].before[m]]
           TW == [t \in TransferId |-> T[t] + W[t]]
           Z == [i \in LossId |-> 0]
<1>1. \A t \in TransferId : /\ T[t] \in Int /\ W[t] \in Int /\ G[t] \in Int /\ E[t] \in Int
                             /\ T[t] + W[t] + G[t] = E[t]
  <2>1. ASSUME NEW t \in TransferId PROVE transfer[t].amount[m] \in Int
    BY DEF DInv, IInv, DocumentsTyped, Transfer
  <2>2. ASSUME NEW t \in TransferId
        PROVE  /\ T[t] \in Int
               /\ T[t] + When(Waiting(transfer[t]), transfer[t].amount[m])
                    + When(Gone(transfer[t]), transfer[t].amount[m])
                  = When(Entered(transfer[t]), transfer[t].amount[m])
    <3> DEFINE share == [l \in TransferId |-> TransferShare(t, transfer[t], l, "on_hand", m)]
    <3>1. /\ share \in [TransferId -> Int]
          /\ Total(share, MaxTransfer) + When(Waiting(transfer[t]), transfer[t].amount[m])
                + When(Gone(transfer[t]), transfer[t].amount[m])
             = When(Entered(transfer[t]), transfer[t].amount[m])
      BY RowOnHand
    <3>2. T[t] = Total(share, MaxTransfer)
      OBVIOUS
    <3> HIDE DEF share, T
    <3>3. Total(share, MaxTransfer) \in Int
      BY <3>1, TotalType, SizesAssumption DEF TransferId
    <3>. QED  BY <3>1, <3>2, <3>3
  <2> HIDE DEF T
  <2>. QED  BY <2>1, <2>2 DEF When
<1>2. \A i \in LossId : /\ L[i] \in Int /\ X[i] \in Int /\ L[i] + X[i] = 0
  <2> SUFFICES ASSUME NEW i \in LossId PROVE L[i] \in Int /\ X[i] \in Int /\ L[i] + X[i] = 0
    OBVIOUS
  <2> DEFINE share == [l \in TransferId |-> LossShare(loss[i], l, "on_hand", m)]
  <2>1. /\ share \in [TransferId -> Int]
        /\ Total(share, MaxTransfer) + When(loss[i].source # 0, loss[i].amount[m]) = 0
    BY LossOnHand
  <2>2. L[i] = Total(share, MaxTransfer) /\ X[i] = loss[i].amount[m]
    OBVIOUS
  <2> HIDE DEF share, L, X
  <2>3. Total(share, MaxTransfer) \in Int
    BY <2>1, TotalType, SizesAssumption DEF TransferId
  <2>4. loss[i].amount[m] \in Int
    BY DEF DInv, IInv, DocumentsTyped, Loss
  <2>5. When(loss[i].source # 0, loss[i].amount[m]) = loss[i].amount[m]
    BY DEF DInv, NotesFit, NoLoss, Nothing, When
  <2>. QED  BY <2>1, <2>2, <2>3, <2>4, <2>5
<1>3. \A i \in AdjustmentId : A[i] \in Int /\ C[i] \in Int /\ A[i] = C[i]
  <2> SUFFICES ASSUME NEW i \in AdjustmentId PROVE A[i] \in Int /\ C[i] \in Int /\ A[i] = C[i]
    OBVIOUS
  <2> DEFINE share == [l \in TransferId |-> AdjustmentShare(adjustment[i], l, "on_hand", m)]
  <2>1. /\ share \in [TransferId -> Int]
        /\ Total(share, MaxTransfer)
             = When(adjustment[i].source # 0, adjustment[i].after[m] - adjustment[i].before[m])
    BY AdjustmentOnHand
  <2>2. A[i] = Total(share, MaxTransfer) /\ C[i] = adjustment[i].after[m] - adjustment[i].before[m]
    OBVIOUS
  <2> HIDE DEF share, A, C
  <2>3. Total(share, MaxTransfer) \in Int
    BY <2>1, TotalType, SizesAssumption DEF TransferId
  <2>4. When(adjustment[i].source # 0, adjustment[i].after[m] - adjustment[i].before[m])
          = adjustment[i].after[m] - adjustment[i].before[m]
    BY DEF DInv, NotesFit, NoAdjustment, Nothing, When
  <2>. QED  BY <2>1, <2>2, <2>3, <2>4
<1>4. /\ T = [t \in TransferId |-> T[t]] /\ W = [t \in TransferId |-> W[t]]
      /\ G = [t \in TransferId |-> G[t]] /\ E = [t \in TransferId |-> E[t]]
      /\ L = [i \in LossId |-> L[i]] /\ X = [i \in LossId |-> X[i]]
      /\ A = [i \in AdjustmentId |-> A[i]] /\ C = [i \in AdjustmentId |-> C[i]]
  OBVIOUS
<1> HIDE DEF T, W, G, E, L, X, A, C
<1>5. /\ T \in [1 .. MaxTransfer -> Int] /\ W \in [1 .. MaxTransfer -> Int]
      /\ G \in [1 .. MaxTransfer -> Int] /\ E \in [1 .. MaxTransfer -> Int]
  BY <1>1, <1>4 DEF TransferId
<1>6. L \in [1 .. MaxLoss -> Int] /\ X \in [1 .. MaxLoss -> Int]
  BY <1>2, <1>4 DEF LossId
<1>7. A = C
  BY <1>3, <1>4, Zenon
<1>8. TW \in [1 .. MaxTransfer -> Int] /\ \A t \in 1 .. MaxTransfer : TW[t] = T[t] + W[t]
  BY <1>5 DEF TransferId
<1>9. Z \in [1 .. MaxLoss -> Int] /\ \A i \in 1 .. MaxLoss : Z[i] = 0
  BY DEF LossId
<1> HIDE DEF TW, Z
<1>10. Total(TW, MaxTransfer) = Total(T, MaxTransfer) + Total(W, MaxTransfer)
  BY <1>5, <1>8, TotalAdds, SizesAssumption
<1>11. Total(E, MaxTransfer) = Total(TW, MaxTransfer) + Total(G, MaxTransfer)
  <2>1. \A t \in 1 .. MaxTransfer : E[t] = TW[t] + G[t]
    BY <1>1, <1>8 DEF TransferId
  <2>. QED  BY <1>5, <1>8, <2>1, TotalAdds, SizesAssumption
<1>12. 0 = Total(L, MaxLoss) + Total(X, MaxLoss)
  <2>1. \A i \in 1 .. MaxLoss : Z[i] = L[i] + X[i]
    BY <1>2, <1>9 DEF LossId
  <2>2. Total(Z, MaxLoss) = Total(L, MaxLoss) + Total(X, MaxLoss)
    BY <1>6, <1>9, <2>1, TotalAdds, SizesAssumption
  <2>3. Total(Z, MaxLoss) = 0
    BY <1>9, TotalOfZeros, SizesAssumption
  <2>. QED  BY <2>2, <2>3
<1>13. Total([l \in TransferId |-> IF l \in DOMAIN balance THEN OnHand(l)[m] ELSE 0], MaxTransfer)
         = Total(T, MaxTransfer) + Total(L, MaxLoss) + Total(A, MaxAdjustment)
  BY OnHandByRow DEF T, L, A
<1>14. /\ Total(T, MaxTransfer) \in Int /\ Total(W, MaxTransfer) \in Int
       /\ Total(G, MaxTransfer) \in Int /\ Total(L, MaxLoss) \in Int
       /\ Total(X, MaxLoss) \in Int /\ Total(A, MaxAdjustment) \in Int
  <2>1. A \in [1 .. MaxAdjustment -> Int]
    BY <1>3, <1>4 DEF AdjustmentId
  <2>. QED  BY <1>5, <1>6, <2>1, TotalType, SizesAssumption
<1>15. /\ OverTransfers(m, Waiting) = Total(W, MaxTransfer)
       /\ OverTransfers(m, Gone) = Total(G, MaxTransfer)
       /\ OverTransfers(m, Entered) = Total(E, MaxTransfer)
  BY DEF OverTransfers, W, G, E
<1>16. /\ Total([i \in LossId |-> loss[i].amount[m]], MaxLoss) = Total(X, MaxLoss)
       /\ Total([i \in AdjustmentId |-> adjustment[i].after[m] - adjustment[i].before[m]],
                MaxAdjustment) = Total(C, MaxAdjustment)
  BY DEF X, C
<1>. QED  BY <1>7, <1>10, <1>11, <1>12, <1>13, <1>14, <1>15, <1>16

\* Material is conserved over the whole factory: what is on hand, underway, gone to a
\* customer or lost is what entered, corrected by the recorded recounts, however many
\* lots, lines and losses there are.
THEOREM MaterialAlwaysConserved == Spec => []MaterialConserved
<1>. QED  BY FitConserves, DocumentsAlwaysFit, PTL

-----------------------------------------------------------------------------
(* Closing a lot.  A flush moves what a lot has on hand by the rows it     *)
(* changes; the lines of a submission take from the lot, and its note      *)
(* brings the rest to zero.                                                *)

\* What the changed rows of each table add to the stock on hand of lot l.
TransferGain(l, m) ==
  Total([t \in TransferId |->
          When(transfer'[t] # transfer[t], TransferShare(t, transfer'[t], l, "on_hand", m)
                                            - TransferShare(t, transfer[t], l, "on_hand", m))],
        MaxTransfer)
AdjustmentGain(l, m) ==
  Total([i \in AdjustmentId |->
          When(adjustment'[i] # adjustment[i], AdjustmentShare(adjustment'[i], l, "on_hand", m)
                                                - AdjustmentShare(adjustment[i], l, "on_hand", m))],
        MaxAdjustment)

LEMMA LossesSame ==
  ASSUME loss' = loss, NEW l, NEW c, NEW m
  PROVE  Total([i \in LossId |->
                 When(loss'[i] # loss[i], LossShare(loss'[i], l, c, m) - LossShare(loss[i], l, c, m))],
               MaxLoss) = 0
<1> DEFINE f == [i \in LossId |->
                 When(loss'[i] # loss[i], LossShare(loss'[i], l, c, m) - LossShare(loss[i], l, c, m))]
<1>1. f \in [1 .. MaxLoss -> Int] /\ \A i \in 1 .. MaxLoss : f[i] = 0
  BY DEF LossId, When
<1> HIDE DEF f
<1>2. Total(f, MaxLoss) = 0
  BY <1>1, TotalOfZeros, SizesAssumption
<1>. QED  BY <1>2 DEF f

LEMMA OnHandMoves ==
  ASSUME IInv, IInv', loss' = loss, NEW l \in StockIds(transfer), l \in StockIds(transfer'),
         NEW m \in Measure, NEW p \in Int, NEW q \in Int,
         TransferGain(l, m) = p, AdjustmentGain(l, m) = q
  PROVE  /\ balance'[l].on_hand \in [Measure -> Int]
         /\ balance'[l].on_hand[m] = OnHand(l)[m] + p + q
<1> DEFINE c == "on_hand"
<1>1. c \in Column
  BY DEF Column
<1>2. /\ OnHand(l)[m] = Books(transfer, loss, adjustment, l, c, m)
      /\ OnHand(l)[m] \in Int
  BY <1>1, OnHandType DEF IInv, BalancesAreBooks, OnHand
<1>3. /\ balance'[l].on_hand \in [Measure -> Int]
      /\ balance'[l].on_hand[m] = Books(transfer', loss', adjustment', l, c, m)
  BY <1>1 DEF IInv, BalancesAreBooks, Column
<1>4. Books(transfer', loss', adjustment', l, c, m)
        = Books(transfer, loss, adjustment, l, c, m) + Delta(l, c, m)
  BY <1>1, DeltaIsDifference DEF IInv
<1>5. Delta(l, c, m) = p + q
  <2>1. Delta(l, c, m) = p + 0 + q
    BY LossesSame DEF Delta, TransferGain, AdjustmentGain
  <2>. QED  BY <2>1
<1>. QED  BY <1>2, <1>3, <1>4, <1>5

\* New lines take their amounts from their lot.
LEMMA LinesTake ==
  ASSUME DInv, NEW fresh \in SUBSET TransferId, fresh \cap TransfersUsed = {},
         NEW lines, DOMAIN lines = fresh,
         \A t \in fresh : lines[t].amount \in [Measure -> Nat],
         NEW rows, DOMAIN rows = fresh, transfer' = Put(transfer, rows),
         \A t \in fresh : /\ rows[t].source = lines[t].source
                          /\ rows[t].amount = lines[t].amount
                          /\ rows[t].status \in {"pending", "received", "dispatched"},
         NEW l \in StockIds(transfer), NEW m \in Measure
  PROVE  /\ SumFrom(lines, l)[m] \in Int
         /\ TransferGain(l, m) = - SumFrom(lines, l)[m]
<1> DEFINE f == [t \in TransferId |->
                  When(transfer'[t] # transfer[t], TransferShare(t, transfer'[t], l, "on_hand", m)
                                                    - TransferShare(t, transfer[t], l, "on_hand", m))]
           g == [t \in TransferId |-> When(t \in DOMAIN lines /\ lines[t].source = l, lines[t].amount[m])]
           z == [t \in TransferId |-> 0]
<1>1. /\ l \in TransferId /\ IsStock(transfer[l]) /\ DOMAIN transfer = TransferId
      /\ l \in TransfersUsed
  BY DEF DInv, IInv, DocumentsTyped, StockIds, IsStock, TransfersUsed
<1>2. ASSUME NEW t \in TransferId
      PROVE  f[t] \in Int /\ g[t] \in Int /\ 0 = f[t] + g[t]
  <2>1. CASE t \in fresh
    <3>1. transfer[t].status = "absent" /\ t # l
      BY <1>1, <2>1 DEF TransfersUsed
    <3>2. transfer'[t] = rows[t] /\ transfer'[t] # transfer[t]
      BY <1>1, <2>1, <3>1 DEF Put
    <3>3. TransferShare(t, transfer[t], l, "on_hand", m) = 0
      BY <3>1 DEF TransferShare, When, IsStock, Debited
    <3>4. TransferShare(t, transfer'[t], l, "on_hand", m)
            = 0 - When(lines[t].source = l, lines[t].amount[m])
      BY <2>1, <3>1, <3>2 DEF TransferShare, When, Debited
    <3>5. lines[t].amount[m] \in Int
      BY <2>1
    <3>. QED  BY <2>1, <3>2, <3>3, <3>4, <3>5 DEF When
  <2>2. CASE t \notin fresh
    <3>1. transfer'[t] = transfer[t]
      BY <1>1, <2>2 DEF Put
    <3>. QED  BY <2>2, <3>1 DEF When
  <2>. QED  BY <2>1, <2>2
<1>3. /\ f = [t \in TransferId |-> f[t]] /\ g = [t \in TransferId |-> g[t]]
      /\ z \in [1 .. MaxTransfer -> Int] /\ \A t \in 1 .. MaxTransfer : z[t] = 0
  BY DEF TransferId
<1>4. TransferGain(l, m) = Total(f, MaxTransfer) /\ SumFrom(lines, l)[m] = Total(g, MaxTransfer)
  BY DEF TransferGain, SumFrom
<1> HIDE DEF f, g, z
<1>5. f \in [1 .. MaxTransfer -> Int] /\ g \in [1 .. MaxTransfer -> Int]
  BY <1>2, <1>3 DEF TransferId
<1>6. \A t \in 1 .. MaxTransfer : z[t] = f[t] + g[t]
  BY <1>2, <1>3 DEF TransferId
<1>7. Total(z, MaxTransfer) = Total(f, MaxTransfer) + Total(g, MaxTransfer)
  <2>1. MaxTransfer \in Nat /\ z \in [1 .. MaxTransfer -> Int]
    BY <1>3, SizesAssumption
  <2>. QED  BY <1>5, <1>6, <2>1, TotalAdds
<1>8. /\ Total(z, MaxTransfer) = 0
      /\ Total(f, MaxTransfer) \in Int /\ Total(g, MaxTransfer) \in Int
  BY <1>3, <1>5, TotalOfZeros, TotalType, SizesAssumption
<1>. QED  BY <1>4, <1>7, <1>8

\* An edited line gives back what it took and takes what it takes now.
LEMMA EditTakes ==
  ASSUME DInv, DInv', NEW t \in TransferId, transfer[t].status = "pending", NEW row,
         row.status = "pending", row.source = transfer[t].source, row.amount \in [Measure -> Nat],
         transfer' = PutOne(transfer, t, row),
         NEW l \in StockIds(transfer), l = transfer[t].source, NEW m \in Measure
  PROVE  TransferGain(l, m) = transfer[t].amount[m] - row.amount[m]
<1> DEFINE f == [u \in TransferId |->
                  When(transfer'[u] # transfer[u], TransferShare(u, transfer'[u], l, "on_hand", m)
                                                    - TransferShare(u, transfer[u], l, "on_hand", m))]
<1>1. /\ l \in TransferId /\ IsStock(transfer[l]) /\ DOMAIN transfer = TransferId
      /\ transfer[t].amount[m] \in Int /\ row.amount[m] \in Int
  BY DEF DInv, IInv, DocumentsTyped, StockIds, Transfer
<1>2. transfer'[t] = row /\ \A u \in TransferId : u # t => transfer'[u] = transfer[u]
  BY <1>1 DEF PutOne
<1>3. \A u \in TransferId : u # t => f[u] = 0
  BY <1>2 DEF When
<1>4. f[t] = transfer[t].amount[m] - row.amount[m]
  <2>1. TransferShare(t, transfer[t], l, "on_hand", m) = 0 - transfer[t].amount[m]
    BY <1>1 DEF TransferShare, When, IsStock, Debited
  <2>2. TransferShare(t, row, l, "on_hand", m) = 0 - row.amount[m]
    BY <1>1 DEF TransferShare, When, IsStock, Debited
  <2>3. CASE transfer'[t] # transfer[t]
    BY <1>1, <1>2, <2>1, <2>2, <2>3 DEF When
  <2>4. CASE transfer'[t] = transfer[t]
    BY <1>1, <1>2, <2>4 DEF When
  <2>. QED  BY <2>3, <2>4
<1>5. f = [u \in TransferId |-> f[u]] /\ TransferGain(l, m) = Total(f, MaxTransfer)
  BY DEF TransferGain
<1> HIDE DEF f
<1>6. f \in [1 .. MaxTransfer -> Int]
  <2>1. \A u \in TransferId : f[u] \in Int
    BY <1>1, <1>3, <1>4
  <2>. QED  BY <1>5, <2>1 DEF TransferId
<1>7. Total(f, MaxTransfer) = f[t]
  BY <1>3, <1>6, TotalOfOne, SizesAssumption DEF TransferId
<1>. QED  BY <1>4, <1>5, <1>7

\* One note on an unused row changes its lot by what it says.
LEMMA NoteMoves ==
  ASSUME DInv, NEW i \in AdjustmentId, i \notin AdjustmentsUsed, NEW note \in Adjustment,
         adjustment' = PutOne(adjustment, i, note), note.source # 0, NEW m \in Measure
  PROVE  AdjustmentGain(note.source, m) = note.after[m] - note.before[m]
<1> DEFINE l == note.source
           f == [k \in AdjustmentId |->
                  When(adjustment'[k] # adjustment[k], AdjustmentShare(adjustment'[k], l, "on_hand", m)
                                                - AdjustmentShare(adjustment[k], l, "on_hand", m))]
<1>1. /\ DOMAIN adjustment = AdjustmentId /\ adjustment[i] = NoAdjustment
      /\ note.after[m] - note.before[m] \in Int
  BY DEF DInv, IInv, DocumentsTyped, NotesFit, AdjustmentsUsed, Adjustment
<1>2. adjustment'[i] = note /\ \A k \in AdjustmentId : k # i => adjustment'[k] = adjustment[k]
  BY <1>1 DEF PutOne
<1>3. \A k \in AdjustmentId : k # i => f[k] = 0
  BY <1>2 DEF When
<1>4. f[i] = note.after[m] - note.before[m]
  <2>1. AdjustmentShare(note, l, "on_hand", m) = note.after[m] - note.before[m]
    BY DEF AdjustmentShare, When
  <2>2. AdjustmentShare(NoAdjustment, l, "on_hand", m) = 0
    BY DEF AdjustmentShare, When, NoAdjustment
  <2>3. adjustment'[i] # adjustment[i]
    BY <1>1, <1>2 DEF NoAdjustment
  <2>. QED  BY <1>1, <1>2, <2>1, <2>2, <2>3 DEF When
<1>5. f = [k \in AdjustmentId |-> f[k]] /\ AdjustmentGain(l, m) = Total(f, MaxAdjustment)
  BY DEF AdjustmentGain
<1> HIDE DEF f
<1>6. f \in [1 .. MaxAdjustment -> Int]
  <2>1. \A k \in AdjustmentId : f[k] \in Int
    BY <1>1, <1>3, <1>4
  <2>. QED  BY <1>5, <2>1 DEF AdjustmentId
<1>7. Total(f, MaxAdjustment) = f[i]
  BY <1>3, <1>6, TotalOfOne, SizesAssumption DEF AdjustmentId
<1>. QED  BY <1>4, <1>5, <1>7

\* Each of the notes is written to a row of its own.
Written(noted, notes, note) ==
  /\ noted \in NextIds(AdjustmentsUsed, MaxAdjustment)
  /\ notes \in SUBSET Adjustment /\ note \in [noted -> notes]
  /\ Cardinality(noted) = Cardinality(notes)
  /\ \A n \in notes : \E i \in noted : note[i] = n
  /\ adjustment' = Put(adjustment, note)

\* These two, or this one, are all the notes about lot l.
NotesOfLot(notes, l, clear, count) ==
  /\ l # 0 /\ clear \in notes /\ count \in notes
  /\ clear.source = l /\ count.source = l
  /\ \A n \in notes : n.source = l => n = clear \/ n = count

\* The notes of a submission are each written once; those of a lot are at most two.
LEMMA NotesMove ==
  ASSUME DInv, NEW noted, NEW notes, NEW note, NEW l, NEW clear, NEW count, NEW m \in Measure,
         Written(noted, notes, note), NotesOfLot(notes, l, clear, count)
  PROVE  AdjustmentGain(l, m) = (clear.after[m] - clear.before[m])
                                + When(count # clear, count.after[m] - count.before[m])
<1> DEFINE f == [k \in AdjustmentId |->
                  When(adjustment'[k] # adjustment[k], AdjustmentShare(adjustment'[k], l, "on_hand", m)
                                                - AdjustmentShare(adjustment[k], l, "on_hand", m))]
           x == clear.after[m] - clear.before[m]
           y == When(count # clear, count.after[m] - count.before[m])
<1>. USE DEF Written, NotesOfLot
<1>1. /\ DOMAIN adjustment = AdjustmentId /\ noted \in SUBSET AdjustmentId
      /\ \A i \in noted : adjustment[i] = NoAdjustment
      /\ x \in Int /\ y \in Int
  <2>1. DOMAIN adjustment = AdjustmentId
    BY DEF DInv, IInv, DocumentsTyped
  <2>2. noted \in SUBSET AdjustmentId /\ \A i \in noted : i \notin AdjustmentsUsed
    BY DEF NextIds, AdjustmentId
  <2>3. \A i \in noted : adjustment[i] = NoAdjustment
    BY <2>2 DEF DInv, NotesFit, AdjustmentsUsed
  <2>4. x \in Int /\ count.after[m] - count.before[m] \in Int
    BY DEF Adjustment
  <2>. QED  BY <2>1, <2>2, <2>3, <2>4 DEF When
<1>2. \A i, k \in noted : note[i] = note[k] => i = k
  <2>1. IsFiniteSet(AdjustmentId)
    BY FS_Interval, SizesAssumption DEF AdjustmentId
  <2>2. IsFiniteSet(noted)
    BY <1>1, <2>1, FS_Subset
  <2>3. note \in Surjection(noted, notes)
    BY DEF Surjection
  <2>4. note \in Injection(noted, notes)
    BY <2>2, <2>3, FS_SurjSameCardinalityImpliesInj
  <2>. QED  BY <2>4 DEF Injection, IsInjective
<1>3. PICK i \in noted : note[i] = clear
  OBVIOUS
<1>4. PICK k \in noted : note[k] = count
  OBVIOUS
<1> DEFINE one == [j \in AdjustmentId |-> IF j = i THEN x ELSE 0]
           two == [j \in AdjustmentId |-> IF j = k THEN y ELSE 0]
<1>5. ASSUME NEW j \in AdjustmentId PROVE f[j] = one[j] + two[j]
  <2>1. CASE j \notin noted
    <3>1. adjustment'[j] = adjustment[j]
      BY <1>1, <2>1 DEF Put
    <3>2. j # i /\ j # k
      BY <2>1
    <3>. QED  BY <3>1, <3>2 DEF When
  <2>2. CASE j \in noted
    <3>1. adjustment'[j] = note[j] /\ note[j] \in notes /\ note[j] \in Adjustment
      BY <1>1, <2>2 DEF Put
    <3>2. note[j].after[m] - note[j].before[m] \in Int
      BY <3>1 DEF Adjustment
    <3>3. AdjustmentShare(adjustment[j], l, "on_hand", m) = 0
      BY <1>1, <2>2 DEF AdjustmentShare, When, NoAdjustment
    <3>4. AdjustmentShare(adjustment'[j], l, "on_hand", m)
            = When(note[j].source = l, note[j].after[m] - note[j].before[m])
      BY <3>1 DEF AdjustmentShare, When
    <3>5. note[j].source = l => adjustment'[j] # adjustment[j]
      BY <1>1, <2>2, <3>1 DEF NoAdjustment
    <3>6. f[j] = When(note[j].source = l, note[j].after[m] - note[j].before[m])
      BY <3>2, <3>3, <3>4, <3>5 DEF When
    <3>7. /\ j = i <=> note[j] = clear
          /\ j = k <=> note[j] = count
      BY <1>2, <1>3, <1>4, <2>2
    <3>8. CASE note[j].source # l
      BY <3>6, <3>7, <3>8 DEF When
    <3>9. CASE note[j].source = l
      <4>1. note[j] = clear \/ note[j] = count
        BY <3>1, <3>9
      <4>2. f[j] = note[j].after[m] - note[j].before[m]
        BY <3>6, <3>9 DEF When
      <4> HIDE DEF f
      <4>3. CASE note[j] = clear
        <5>1. two[j] = 0
          BY <1>1, <3>7, <4>3 DEF When
        <5>. QED  BY <1>1, <3>7, <4>2, <4>3, <5>1
      <4>4. CASE note[j] # clear
        <5>1. note[j] = count /\ count # clear
          BY <4>1, <4>4
        <5>2. two[j] = count.after[m] - count.before[m] /\ one[j] = 0
          BY <3>7, <5>1 DEF When
        <5>. QED  BY <3>2, <4>2, <5>1, <5>2
      <4>. QED  BY <4>3, <4>4
    <3>. QED  BY <3>8, <3>9
  <2>. QED  BY <2>1, <2>2
<1>6. f = [j \in AdjustmentId |-> f[j]] /\ AdjustmentGain(l, m) = Total(f, MaxAdjustment)
  BY DEF AdjustmentGain
<1>7. /\ one \in [1 .. MaxAdjustment -> Int] /\ two \in [1 .. MaxAdjustment -> Int]
      /\ i \in 1 .. MaxAdjustment /\ k \in 1 .. MaxAdjustment
      /\ one[i] = x /\ two[k] = y
      /\ \A j \in 1 .. MaxAdjustment : j # i => one[j] = 0
      /\ \A j \in 1 .. MaxAdjustment : j # k => two[j] = 0
  BY <1>1 DEF AdjustmentId
<1> HIDE DEF f, one, two, x, y
<1>8. f \in [1 .. MaxAdjustment -> Int]
  <2>1. \A j \in AdjustmentId : f[j] \in Int
    BY <1>5, <1>7 DEF AdjustmentId
  <2>. QED  BY <1>6, <2>1 DEF AdjustmentId
<1>9. Total(f, MaxAdjustment) = Total(one, MaxAdjustment) + Total(two, MaxAdjustment)
  <2>1. \A j \in 1 .. MaxAdjustment : f[j] = one[j] + two[j]
    BY <1>5 DEF AdjustmentId
  <2>. QED  BY <1>7, <1>8, <2>1, TotalAdds, SizesAssumption
<1>10. Total(one, MaxAdjustment) = x
  BY <1>7, TotalOfOne, SizesAssumption
<1>11. Total(two, MaxAdjustment) = y
  BY <1>7, TotalOfOne, SizesAssumption
<1>. QED  BY <1>6, <1>9, <1>10, <1>11 DEF x, y

\* What ClosedLotsAreEmpty asks of one step.
ClosedNow ==
  \A i \in AdjustmentId :
    adjustment'[i] # adjustment[i] /\ adjustment'[i].why \in {"clear", "outputs"} =>
      balance'[adjustment'[i].source].on_hand = Nothing

\* A lot of which both measures came to zero has nothing on hand.
LEMMA EmptyNow ==
  ASSUME NEW b \in [Measure -> Int], \A m \in Measure : b[m] = 0
  PROVE  b = Nothing
BY DEF Nothing

LEMMA LotsStay == DInv /\ Next => StockIds(transfer) \subseteq StockIds(transfer')
<1>1. DInv /\ Next => RowsMove
  BY NextIsSound, Zenon DEF DInv, RowsMove, vars
<1>. QED  BY <1>1 DEF RowsMove, StockIds, IsStock

LEMMA OutputsClose ==
  ASSUME DInv, DInv', Next, NEW l \in StockIds(transfer), RegisterOutputs(l)
  PROVE  ClosedNow
<1> DEFINE team == transfer[l].nextTeam
           Rows(fresh, lines) ==
             [t \in fresh |-> Received(Document("processing_output", l, team, team, lines[t].amount))]
<1>1. PICK fresh, lines, i :
        /\ fresh \in NextIds(TransfersUsed, MaxTransfer)
        /\ lines \in [fresh -> [source : {l}, amount : Amounts]]
        /\ i \in AdjustmentId /\ IsNext(i, AdjustmentsUsed)
        /\ Flush(Put(transfer, Rows(fresh, lines)), loss,
                 PutOne(adjustment, i, [source |-> l, why |-> "outputs", before |-> OnHand(l),
                                        after |-> SumFrom(lines, l)]))
  BY DEF RegisterOutputs
<1> DEFINE rows == Rows(fresh, lines)
           note == [source |-> l, why |-> "outputs", before |-> OnHand(l), after |-> SumFrom(lines, l)]
<1>2. /\ fresh \in SUBSET TransferId /\ fresh \cap TransfersUsed = {} /\ DOMAIN lines = fresh
      /\ \A t \in fresh : lines[t].amount \in [Measure -> Nat] /\ lines[t].source = l
  BY <1>1, NextIdsInOrder, SizesAssumption
<1>3. /\ DOMAIN rows = fresh
      /\ \A t \in fresh : /\ rows[t].source = lines[t].source
                          /\ rows[t].amount = lines[t].amount
                          /\ rows[t].status \in {"pending", "received", "dispatched"}
  BY <1>2 DEF Received, Document
<1>4. /\ transfer' = Put(transfer, rows) /\ loss' = loss
      /\ adjustment' = PutOne(adjustment, i, note)
  BY <1>1 DEF Flush
<1>5. /\ i \in AdjustmentId /\ i \notin AdjustmentsUsed /\ note \in Adjustment
      /\ note.source = l /\ l # 0
      /\ note.before = OnHand(l) /\ note.after = SumFrom(lines, l)
  <2>1. SumFrom(lines, l) \in [Measure -> Nat]
    BY <1>2, SumFromType
  <2>2. SumFrom(lines, l) \in [Measure -> Int] /\ OnHand(l) \in [Measure -> Int]
    BY <2>1, OnHandType DEF DInv
  <2>3. l \in 0 .. MaxTransfer /\ l # 0
    BY LotHeld, SizesAssumption DEF StockIds, TransferId
  <2>4. i \notin AdjustmentsUsed
    BY <1>1 DEF IsNext
  <2>. QED  BY <1>1, <2>2, <2>3, <2>4 DEF Adjustment
<1> HIDE DEF rows, note, Rows
<1>6. ASSUME NEW m \in Measure
      PROVE  balance'[l].on_hand \in [Measure -> Int] /\ balance'[l].on_hand[m] = 0
  <2> DEFINE s == SumFrom(lines, l)[m]
             h == OnHand(l)[m]
  <2>1. s \in Int /\ TransferGain(l, m) = - s
    BY <1>2, <1>3, <1>4, LinesTake
  <2>2. AdjustmentGain(l, m) = s - h
    BY <1>4, <1>5, NoteMoves
  <2>3. h \in Int /\ l \in StockIds(transfer')
    BY OnHandType, LotsStay DEF DInv
  <2> HIDE DEF s, h
  <2>4. - s \in Int /\ s - h \in Int
    BY <2>1, <2>3
  <2>5. /\ balance'[l].on_hand \in [Measure -> Int]
        /\ balance'[l].on_hand[m] = OnHand(l)[m] + (- s) + (s - h)
    BY <1>4, <2>1, <2>2, <2>3, <2>4, OnHandMoves DEF DInv
  <2>. QED  BY <2>1, <2>3, <2>5 DEF h
<1>7. balance'[l].on_hand = Nothing
  BY <1>6, EmptyNow DEF Measure
<1>8. \A k \in AdjustmentId : adjustment'[k] # adjustment[k] => adjustment'[k].source = l
  <2>1. DOMAIN adjustment = AdjustmentId
    BY DEF DInv, IInv, DocumentsTyped
  <2>. QED  BY <1>4, <1>5, <2>1 DEF PutOne
<1>. QED  BY <1>7, <1>8 DEF ClosedNow

LEMMA EditCloses ==
  ASSUME DInv, DInv', Next, NEW t \in TransferId, UpdateTransfer(t)
  PROVE  ClosedNow
<1> DEFINE old == transfer[t]
           l == old.source
           available == Plus(OnHand(l), old.amount)
           New(a, target) == [Edited(old) EXCEPT !.amount = a, !.nextTeam = target, !.rejected = FALSE]
<1>1. CASE adjustment' = adjustment
  BY <1>1 DEF ClosedNow
<1>2. CASE adjustment' # adjustment
  <2>1. PICK a \in Amounts, target \in Team \cup {NoTeam}, i \in AdjustmentId :
          /\ Editable(t) /\ l # 0
          /\ CanClear(available, a)
          /\ IsNext(i, AdjustmentsUsed)
          /\ Flush(PutOne(transfer, t, New(a, target)), loss,
                   PutOne(adjustment, i, ClearRow(l, available, a)))
    BY <1>2 DEF UpdateTransfer, Flush
  <2> DEFINE row == New(a, target)
             note == ClearRow(l, available, a)
  <2>2. /\ l \in StockIds(transfer) /\ l \in StockIds(transfer') /\ l # 0
        /\ OnHand(l) \in [Measure -> Int]
        /\ old \in Transfer /\ old.amount \in [Measure -> Nat]
        /\ a \in [Measure -> Nat] /\ old.status = "pending"
    <3>1. l \in StockIds(transfer) /\ old \in Transfer
      BY <2>1 DEF DInv, IInv, DrawOnLots, DocumentsTyped
    <3>. QED  BY <2>1, <3>1, OnHandType, LotsStay, SizesAssumption DEF DInv, Transfer, Editable
  <2>3. /\ row.status = "pending" /\ row.source = l /\ row.amount = a
        /\ transfer' = PutOne(transfer, t, row) /\ loss' = loss
        /\ adjustment' = PutOne(adjustment, i, note)
    BY <2>1, <2>2 DEF Flush, Edited, Transfer
  <2>4. available \in [Measure -> Int]
    BY <2>2 DEF Plus
  <2>5. /\ i \notin AdjustmentsUsed /\ note \in Adjustment /\ note.source = l
        /\ note.after = Nothing
        /\ note.before["quantity"] = available["quantity"] - a["quantity"]
        /\ note.before["weight"] = 0
    <3>1. i \notin AdjustmentsUsed
      BY <2>1 DEF IsNext
    <3>2. a \in [Measure -> Int]
      BY <2>2
    <3>3. NoteOK(note)
      <4> HIDE DEF available, l
      <4>. QED  BY <2>2, <2>4, <3>2, ClearRowOK DEF DInv
    <3>. QED  BY <3>1, <3>3 DEF NoteOK, ClearRow, Nothing, Measure
  <2>6. a["weight"] = available["weight"]
    BY <2>1 DEF CanClear
  <2> HIDE DEF row, note, New
  <2>7. ASSUME NEW m \in Measure
        PROVE  balance'[l].on_hand \in [Measure -> Int] /\ balance'[l].on_hand[m] = 0
    <3>1. TransferGain(l, m) = old.amount[m] - a[m]
      BY <2>2, <2>3, EditTakes
    <3>2. AdjustmentGain(l, m) = note.after[m] - note.before[m]
      BY <2>2, <2>3, <2>5, NoteMoves
    <3>3. /\ OnHand(l)[m] \in Int /\ old.amount[m] \in Int /\ a[m] \in Int
          /\ note.after[m] = 0 /\ note.before[m] \in Int
      BY <2>2, <2>5 DEF Nothing, Adjustment
    <3>4. old.amount[m] - a[m] \in Int /\ note.after[m] - note.before[m] \in Int
      BY <3>3
    <3>5. /\ balance'[l].on_hand \in [Measure -> Int]
          /\ balance'[l].on_hand[m]
               = OnHand(l)[m] + (old.amount[m] - a[m]) + (note.after[m] - note.before[m])
      <4> HIDE DEF l, old
      <4>. QED  BY <2>2, <2>3, <3>1, <3>2, <3>4, OnHandMoves DEF DInv
    <3>6. available[m] = OnHand(l)[m] + old.amount[m]
      BY DEF Plus
    <3>7. note.before[m] = available[m] - a[m]
      <4>1. CASE m = "quantity"
        BY <2>5, <4>1
      <4>2. CASE m = "weight"
        BY <2>5, <2>6, <3>3, <3>6, <4>2
      <4>. QED  BY <4>1, <4>2 DEF Measure
    <3> HIDE DEF available, l, old
    <3>. QED  BY <3>3, <3>5, <3>6, <3>7
  <2>8. balance'[l].on_hand = Nothing
    BY <2>7, EmptyNow DEF Measure
  <2>9. \A k \in AdjustmentId : adjustment'[k] # adjustment[k] => adjustment'[k].source = l
    <3>1. DOMAIN adjustment = AdjustmentId
      BY DEF DInv, IInv, DocumentsTyped
    <3>. QED  BY <2>3, <2>5, <3>1 DEF PutOne
  <2>. QED  BY <2>8, <2>9 DEF ClosedNow
<1>. QED  BY <1>1, <1>2

LEMMA SubmissionCloses ==
  ASSUME DInv, DInv', Next, NEW team \in Team, NEW kind \in ExternalKinds \cup {"transfer"},
         NEW target \in Team \cup {NoTeam}, CreateDispatch(team, kind, target)
  PROVE  ClosedNow
<1>1. PICK fresh, lines, counted, cleared, count :
        /\ fresh \in NextIds(TransfersUsed, MaxTransfer)
        /\ lines \in [fresh -> [source : LotsOf(team), amount : Amounts]]
        /\ counted \in SUBSET {lines[t].source : t \in fresh}
        /\ cleared \in SUBSET {lines[t].source : t \in fresh}
        /\ count \in [counted -> Counts]
        /\ SubmitLines(team, kind, target, lines, count, cleared)
  BY DEF CreateDispatch
<1> DEFINE notes == Notes(lines, count, cleared)
           rows == [t \in fresh |-> LineRow(team, kind, target, lines[t])]
<1>2. DOMAIN lines = fresh /\ DOMAIN count = counted
  BY <1>1
<1>3. PICK noted, note :
        /\ noted \in NextIds(AdjustmentsUsed, MaxAdjustment) /\ note \in [noted -> notes]
        /\ Cardinality(noted) = Cardinality(notes)
        /\ \A n \in notes : \E i \in noted : note[i] = n
        /\ transfer' = Put(transfer, rows) /\ loss' = loss /\ adjustment' = Put(adjustment, note)
  BY <1>1, <1>2 DEF SubmitLines, Flush
<1>4. \A l \in cleared : CanClear(Available(l, count), SumFrom(lines, l))
  BY <1>1 DEF SubmitLines
<1>5. /\ fresh \in SUBSET TransferId /\ fresh \cap TransfersUsed = {}
      /\ \A t \in fresh : lines[t].amount \in [Measure -> Nat]
  BY <1>1, NextIdsInOrder, SizesAssumption
<1>6. /\ DOMAIN rows = fresh
      /\ \A t \in fresh : /\ rows[t].source = lines[t].source
                          /\ rows[t].amount = lines[t].amount
                          /\ rows[t].status \in {"pending", "received", "dispatched"}
  BY DEF LineRow, Document
<1>7. \A l \in counted \cup cleared :
        /\ l \in StockIds(transfer) /\ l # 0
        /\ l \in counted => count[l] \in Nat
  <2>1. \A t \in fresh : lines[t].source \in StockIds(transfer)
    BY <1>1 DEF LotsOf
  <2>. QED  BY <1>1, <2>1, LotHeld, SizesAssumption
<1>8. \A l \in cleared : Available(l, count) \in [Measure -> Int]
  <2> SUFFICES ASSUME NEW l \in cleared PROVE Available(l, count) \in [Measure -> Int]
    OBVIOUS
  <2>1. OnHand(l) \in [Measure -> Int]
    BY <1>7, OnHandType DEF DInv
  <2>2. CASE l \in counted
    <3>1. count[l] \in Int
      BY <1>7, <2>2
    <3>. QED  BY <1>2, <2>1, <2>2, <3>1, PieceType DEF Available
  <2>3. CASE l \notin counted
    BY <1>2, <2>1, <2>3 DEF Available
  <2>. QED  BY <2>2, <2>3
<1>9. /\ \A n \in notes : n \in Adjustment
      /\ \A l \in counted : CountRow(l, count[l]) \in notes
      /\ \A l \in cleared : ClearRow(l, Available(l, count), SumFrom(lines, l)) \in notes
  <2>1. \A l \in counted : CountRow(l, count[l]) \in Adjustment
    BY <1>7, CountRowOK DEF NoteOK, DInv
  <2>2. ASSUME NEW l \in cleared
        PROVE  ClearRow(l, Available(l, count), SumFrom(lines, l)) \in Adjustment
    <3>1. SumFrom(lines, l) \in [Measure -> Nat]
      BY <1>2, <1>5, SumFromType
    <3>2. SumFrom(lines, l) \in [Measure -> Int]
      BY <3>1
    <3>. QED  BY <1>7, <1>8, <3>2, ClearRowOK DEF NoteOK, DInv
  <2>. QED  BY <1>2, <2>1, <2>2 DEF Notes
<1>10. \A n \in notes : \/ \E l \in counted : n = CountRow(l, count[l])
                        \/ \E l \in cleared : n = ClearRow(l, Available(l, count), SumFrom(lines, l))
  BY <1>2 DEF Notes
<1> HIDE DEF notes, rows
<1>11. ASSUME NEW l \in cleared PROVE balance'[l].on_hand = Nothing
  <2> DEFINE clear == ClearRow(l, Available(l, count), SumFrom(lines, l))
             seen == IF l \in counted THEN CountRow(l, count[l]) ELSE clear
             sum == SumFrom(lines, l)
             available == Available(l, count)
  <2>1. /\ clear \in notes /\ seen \in notes /\ clear.source = l /\ seen.source = l
        /\ \A n \in notes : n.source = l => n = clear \/ n = seen
        /\ clear \in Adjustment /\ seen \in Adjustment
        /\ seen # clear <=> l \in counted
    BY <1>9, <1>10 DEF CountRow, ClearRow
  <2>2. /\ clear.after = Nothing
        /\ clear.before["quantity"] = available["quantity"] - sum["quantity"]
        /\ clear.before["weight"] = 0
        /\ l \in counted => /\ seen.before = OnHand(l)
                            /\ seen.after = available
    BY <1>2 DEF ClearRow, CountRow, Nothing, Measure, Available
  <2>3. l \notin counted => available = OnHand(l)
    BY <1>2 DEF Available
  <2>4. sum["weight"] = available["weight"]
    BY <1>4 DEF CanClear
  <2>5. available \in [Measure -> Int] /\ OnHand(l) \in [Measure -> Int]
    BY <1>7, <1>8, OnHandType DEF DInv
  <2> HIDE DEF clear, seen, sum, available
  <2>6. ASSUME NEW m \in Measure
        PROVE  balance'[l].on_hand \in [Measure -> Int] /\ balance'[l].on_hand[m] = 0
    <3> DEFINE x == clear.after[m] - clear.before[m]
               y == When(seen # clear, seen.after[m] - seen.before[m])
    <3>1. sum[m] \in Int /\ TransferGain(l, m) = - sum[m]
      BY <1>2, <1>3, <1>5, <1>6, <1>7, LinesTake DEF sum
    <3>2. notes \in SUBSET Adjustment
      BY <1>9
    <3>3. AdjustmentGain(l, m) = x + y
      <4>1. /\ l # 0 /\ clear \in notes /\ seen \in notes /\ clear.source = l /\ seen.source = l
            /\ \A n \in notes : n.source = l => n = clear \/ n = seen
        BY <1>7, <2>1
      <4>2. /\ noted \in NextIds(AdjustmentsUsed, MaxAdjustment) /\ note \in [noted -> notes]
            /\ Cardinality(noted) = Cardinality(notes)
            /\ \A n \in notes : \E i \in noted : note[i] = n
            /\ adjustment' = Put(adjustment, note)
        BY <1>3
      <4>4. /\ noted \in NextIds(AdjustmentsUsed, MaxAdjustment)
            /\ notes \in SUBSET Adjustment /\ note \in [noted -> notes]
            /\ Cardinality(noted) = Cardinality(notes)
            /\ \A n \in notes : \E i \in noted : note[i] = n
            /\ adjustment' = Put(adjustment, note)
        BY <3>2, <4>2
      <4>3. AdjustmentGain(l, m) = (clear.after[m] - clear.before[m])
                                   + When(seen # clear, seen.after[m] - seen.before[m])
        <5>1. Written(noted, notes, note) /\ NotesOfLot(notes, l, clear, seen)
          BY <4>1, <4>4 DEF Written, NotesOfLot
        <5>. QED  BY <5>1, NotesMove
      <4>. QED  BY <4>3
    <3>4. /\ available[m] \in Int /\ OnHand(l)[m] \in Int
          /\ x = sum[m] - available[m]
      <4>1. CASE m = "quantity"
        BY <2>2, <2>5, <3>1, <4>1 DEF Nothing, Measure
      <4>2. CASE m = "weight"
        BY <2>2, <2>4, <2>5, <3>1, <4>2 DEF Nothing, Measure
      <4>. QED  BY <2>5, <4>1, <4>2 DEF Measure
    <3>5. y = available[m] - OnHand(l)[m]
      <4>1. CASE l \in counted
        BY <2>1, <2>2, <4>1 DEF When
      <4>2. CASE l \notin counted
        BY <2>1, <2>3, <3>4, <4>2 DEF When
      <4>. QED  BY <4>1, <4>2
    <3> HIDE DEF x, y
    <3>6. - sum[m] \in Int /\ x + y \in Int /\ x \in Int /\ y \in Int
      BY <3>1, <3>4, <3>5
    <3>7. /\ balance'[l].on_hand \in [Measure -> Int]
          /\ balance'[l].on_hand[m] = OnHand(l)[m] + (- sum[m]) + (x + y)
      <4>1. l \in StockIds(transfer) /\ l \in StockIds(transfer')
        BY <1>7, LotsStay
      <4>. QED  BY <1>3, <3>1, <3>3, <3>6, <4>1, OnHandMoves DEF DInv
    <3>. QED  BY <3>1, <3>4, <3>5, <3>7
  <2>. QED  BY <2>6, EmptyNow DEF Measure
<1>12. ASSUME NEW i \in AdjustmentId, adjustment'[i] # adjustment[i],
              adjustment'[i].why \in {"clear", "outputs"}
       PROVE  adjustment'[i].source \in cleared
  <2>1. adjustment'[i] \in notes
    <3>1. DOMAIN adjustment = AdjustmentId
      BY DEF DInv, IInv, DocumentsTyped
    <3>. QED  BY <1>3, <1>12, <3>1 DEF Put
  <2>. QED  BY <1>10, <1>12, <2>1 DEF CountRow, ClearRow
<1>. QED  BY <1>11, <1>12 DEF ClosedNow

LEMMA StepCloses == DInv /\ DInv' /\ Next => ClosedNow
<1> SUFFICES ASSUME DInv, DInv', Next PROVE ClosedNow
  OBVIOUS
<1>1. CASE Leave
  BY <1>1, SubmissionCloses DEF Leave
<1>2. ASSUME NEW t \in TransferId, UpdateTransfer(t) PROVE ClosedNow
  BY <1>2, EditCloses
<1>3. ASSUME NEW l \in StockIds(transfer), RegisterOutputs(l) PROVE ClosedNow
  BY <1>3, OutputsClose
<1>4. ASSUME NEW l \in StockIds(transfer), RecordRecount(l) PROVE ClosedNow
  <2>1. PICK q, i : adjustment' = PutOne(adjustment, i, CountRow(l, q))
    BY <1>4 DEF RecordRecount, Flush
  <2>2. DOMAIN adjustment = AdjustmentId
    BY DEF DInv, IInv, DocumentsTyped
  <2>3. \A k \in AdjustmentId : adjustment'[k] # adjustment[k] => adjustment'[k].why = "count"
    BY <2>1, <2>2 DEF PutOne, CountRow
  <2>. QED  BY <2>3 DEF ClosedNow
<1>5. CASE adjustment' = adjustment
  BY <1>5 DEF ClosedNow
<1>6. CASE Enter
  BY <1>5, <1>6 DEF Enter, CreateReceipt, CreateOpening, CreateTransfer, Flush
<1>7. CASE Settle
  BY <1>2, <1>5, <1>7 DEF Settle, VoidTransfer, ConfirmTransfer, RejectTransfer, ConfirmOutbound,
                          ConfirmDispatch, Flush
<1>8. CASE Work
  BY <1>3, <1>4, <1>5, <1>8 DEF Work, CreateLoss, Reallocate, SplitRework, Flush
<1>. QED  BY <1>1, <1>6, <1>7, <1>8 DEF Next

\* Clearing the last pieces and registering outputs leave nothing on hand, in either
\* measure, however many lines of the same submission drew on the lot and whatever
\* recount came first.
THEOREM ClosedAlwaysEmpty == Spec => ClosedLotsAreEmpty
<1>1. DInv /\ DInv' /\ [Next]_vars => [ClosedNow]_vars
  BY StepCloses
<1>. QED  BY <1>1, DocumentsAlwaysFit, PTL DEF Spec, ClosedLotsAreEmpty, ClosedNow

=============================================================================
