-------------------------- MODULE StockLedgerProofs --------------------------
(***************************************************************************)
(* Proofs about StockLedger, for every number of rows, teams and amounts.  *)
(*                                                                         *)
(* The inductive invariant says that documents are well typed, that their  *)
(* lineage is sound (a document draws only on an older lot of its team),   *)
(* and that every column of every balance is the total of what all rows    *)
(* contribute to it.  A flush adds the differences of those contributions; *)
(* totals are additive, so the invariant survives; and a lot that enters   *)
(* the books starts at zero because no row can have drawn on it before.    *)
(***************************************************************************)
EXTENDS StockLedger, LedgerTotalsProofs

TransferColumn(tr, l, c, m) == [t \in TransferId |-> TransferShare(t, tr[t], l, c, m)]
LossColumn(lo, l, c, m) == [i \in LossId |-> LossShare(lo[i], l, c, m)]
AdjustmentColumn(ad, l, c, m) == [i \in AdjustmentId |-> AdjustmentShare(ad[i], l, c, m)]

Books(tr, lo, ad, l, c, m) ==
    Total(TransferColumn(tr, l, c, m), MaxTransfer)
  + Total(LossColumn(lo, l, c, m), MaxLoss)
  + Total(AdjustmentColumn(ad, l, c, m), MaxAdjustment)

DocumentsTyped(tr, lo, ad) ==
  /\ tr \in [TransferId -> Transfer]
  /\ lo \in [LossId -> Loss]
  /\ ad \in [AdjustmentId -> Adjustment]

\* Everything drawn is drawn on a lot.
DrawOnLots(tr, lo, ad) ==
  /\ \A t \in TransferId : tr[t].source \in {0} \cup StockIds(tr)
  /\ \A i \in LossId : lo[i].source \in {0} \cup StockIds(tr)
  /\ \A i \in AdjustmentId : ad[i].source \in {0} \cup StockIds(tr)

BalancesAreBooks ==
  /\ balance \in [StockIds(transfer) -> [Column -> [Measure -> Int]]]
  /\ \A l \in StockIds(transfer), c \in Column, m \in Measure :
       balance[l][c][m] = Books(transfer, loss, adjustment, l, c, m)

\* Rows are handed out in order.
RowsInOrder(tr) ==
  \A t \in TransferId : tr[t].status # "absent" => \A u \in 1 .. t - 1 : tr[u].status # "absent"

IInv ==
  /\ DocumentsTyped(transfer, loss, adjustment)
  /\ DrawOnLots(transfer, loss, adjustment)
  /\ RowsInOrder(transfer)
  /\ LineageIsSound
  /\ BalancesAreBooks

-----------------------------------------------------------------------------
(* Contributions are integers.                                             *)

LEMMA ShareTypes ==
  ASSUME NEW c \in Column, NEW m \in Measure, NEW l
  PROVE  /\ \A t, row : row \in Transfer => TransferShare(t, row, l, c, m) \in Int
         /\ \A row \in Loss : LossShare(row, l, c, m) \in Int
         /\ \A row \in Adjustment : AdjustmentShare(row, l, c, m) \in Int
<1>1. ASSUME NEW t, NEW row \in Transfer PROVE TransferShare(t, row, l, c, m) \in Int
  <2>1. row.amount[m] \in Int
    BY DEF Transfer
  <2>. QED  BY <2>1 DEF TransferShare, When, Column
<1>2. ASSUME NEW row \in Loss PROVE LossShare(row, l, c, m) \in Int
  <2>1. row.amount[m] \in Int
    BY <1>2 DEF Loss
  <2>. QED  BY <2>1 DEF LossShare, When
<1>3. ASSUME NEW row \in Adjustment PROVE AdjustmentShare(row, l, c, m) \in Int
  <2>1. row.before[m] \in Int /\ row.after[m] \in Int
    BY <1>3 DEF Adjustment
  <2>. QED  BY <2>1 DEF AdjustmentShare, When
<1>. QED  BY <1>1, <1>2, <1>3

LEMMA ColumnTypes ==
  ASSUME NEW tr, NEW lo, NEW ad, DocumentsTyped(tr, lo, ad),
         NEW l, NEW c \in Column, NEW m \in Measure
  PROVE  /\ TransferColumn(tr, l, c, m) \in [1 .. MaxTransfer -> Int]
         /\ LossColumn(lo, l, c, m) \in [1 .. MaxLoss -> Int]
         /\ AdjustmentColumn(ad, l, c, m) \in [1 .. MaxAdjustment -> Int]
BY ShareTypes DEF DocumentsTyped, TransferColumn, LossColumn, AdjustmentColumn,
                  TransferId, LossId, AdjustmentId

LEMMA BooksType ==
  ASSUME NEW tr, NEW lo, NEW ad, DocumentsTyped(tr, lo, ad),
         NEW l, NEW c \in Column, NEW m \in Measure
  PROVE  Books(tr, lo, ad, l, c, m) \in Int
<1>1. /\ TransferColumn(tr, l, c, m) \in [1 .. MaxTransfer -> Int]
      /\ LossColumn(lo, l, c, m) \in [1 .. MaxLoss -> Int]
      /\ AdjustmentColumn(ad, l, c, m) \in [1 .. MaxAdjustment -> Int]
  BY ColumnTypes
<1>2. /\ Total(TransferColumn(tr, l, c, m), MaxTransfer) \in Int
      /\ Total(LossColumn(lo, l, c, m), MaxLoss) \in Int
      /\ Total(AdjustmentColumn(ad, l, c, m), MaxAdjustment) \in Int
  BY <1>1, TotalType, SizesAssumption
<1>. QED  BY <1>2 DEF Books

-----------------------------------------------------------------------------
(* A flush adds to a lot exactly the change in its books.                  *)

LEMMA DeltaIsDifference ==
  ASSUME DocumentsTyped(transfer, loss, adjustment),
         DocumentsTyped(transfer', loss', adjustment'),
         NEW l, NEW c \in Column, NEW m \in Measure
  PROVE  Books(transfer', loss', adjustment', l, c, m)
           = Books(transfer, loss, adjustment, l, c, m) + Delta(l, c, m)
<1> DEFINE T == [t \in TransferId |->
                  When(transfer'[t] # transfer[t], TransferShare(t, transfer'[t], l, c, m)
                                                    - TransferShare(t, transfer[t], l, c, m))]
           L == [i \in LossId |->
                  When(loss'[i] # loss[i], LossShare(loss'[i], l, c, m)
                                            - LossShare(loss[i], l, c, m))]
           A == [i \in AdjustmentId |->
                  When(adjustment'[i] # adjustment[i], AdjustmentShare(adjustment'[i], l, c, m)
                                            - AdjustmentShare(adjustment[i], l, c, m))]
           T0 == TransferColumn(transfer, l, c, m)
           T1 == TransferColumn(transfer', l, c, m)
           L0 == LossColumn(loss, l, c, m)
           L1 == LossColumn(loss', l, c, m)
           A0 == AdjustmentColumn(adjustment, l, c, m)
           A1 == AdjustmentColumn(adjustment', l, c, m)
<1>1. /\ T0 \in [1 .. MaxTransfer -> Int] /\ T1 \in [1 .. MaxTransfer -> Int]
      /\ L0 \in [1 .. MaxLoss -> Int] /\ L1 \in [1 .. MaxLoss -> Int]
      /\ A0 \in [1 .. MaxAdjustment -> Int] /\ A1 \in [1 .. MaxAdjustment -> Int]
  BY ColumnTypes
<1>2. /\ T \in [1 .. MaxTransfer -> Int]
      /\ \A t \in 1 .. MaxTransfer : T1[t] = T0[t] + T[t]
  <2>1. \A t \in TransferId : /\ TransferShare(t, transfer[t], l, c, m) \in Int
                              /\ TransferShare(t, transfer'[t], l, c, m) \in Int
    BY ShareTypes DEF DocumentsTyped
  <2>. QED  BY <2>1 DEF TransferColumn, TransferId, When
<1>3. /\ L \in [1 .. MaxLoss -> Int]
      /\ \A i \in 1 .. MaxLoss : L1[i] = L0[i] + L[i]
  <2>1. \A i \in LossId : LossShare(loss[i], l, c, m) \in Int /\ LossShare(loss'[i], l, c, m) \in Int
    BY ShareTypes DEF DocumentsTyped
  <2>. QED  BY <2>1 DEF LossColumn, LossId, When
<1>4. /\ A \in [1 .. MaxAdjustment -> Int]
      /\ \A i \in 1 .. MaxAdjustment : A1[i] = A0[i] + A[i]
  <2>1. \A i \in AdjustmentId : /\ AdjustmentShare(adjustment[i], l, c, m) \in Int
                                /\ AdjustmentShare(adjustment'[i], l, c, m) \in Int
    BY ShareTypes DEF DocumentsTyped
  <2>. QED  BY <2>1 DEF AdjustmentColumn, AdjustmentId, When
<1> HIDE DEF T, L, A, T0, T1, L0, L1, A0, A1
<1>5. /\ Total(T1, MaxTransfer) = Total(T0, MaxTransfer) + Total(T, MaxTransfer)
      /\ Total(L1, MaxLoss) = Total(L0, MaxLoss) + Total(L, MaxLoss)
      /\ Total(A1, MaxAdjustment) = Total(A0, MaxAdjustment) + Total(A, MaxAdjustment)
  BY <1>1, <1>2, <1>3, <1>4, TotalAdds, SizesAssumption
<1>6. /\ Total(T0, MaxTransfer) \in Int /\ Total(T, MaxTransfer) \in Int
      /\ Total(L0, MaxLoss) \in Int /\ Total(L, MaxLoss) \in Int
      /\ Total(A0, MaxAdjustment) \in Int /\ Total(A, MaxAdjustment) \in Int
  BY <1>1, <1>2, <1>3, <1>4, TotalType, SizesAssumption
<1>7. Delta(l, c, m) = Total(T, MaxTransfer) + Total(L, MaxLoss) + Total(A, MaxAdjustment)
  BY DEF Delta, T, L, A
<1>8. /\ Books(transfer', loss', adjustment', l, c, m)
           = Total(T1, MaxTransfer) + Total(L1, MaxLoss) + Total(A1, MaxAdjustment)
      /\ Books(transfer, loss, adjustment, l, c, m)
           = Total(T0, MaxTransfer) + Total(L0, MaxLoss) + Total(A0, MaxAdjustment)
  BY DEF Books, T0, T1, L0, L1, A0, A1
<1>. QED  BY <1>5, <1>6, <1>7, <1>8

\* No row can have contributed to a lot before it was one.
LEMMA NoBooksBefore ==
  ASSUME DocumentsTyped(transfer, loss, adjustment), DrawOnLots(transfer, loss, adjustment),
         NEW l \in TransferId, ~IsStock(transfer[l]), NEW c \in Column, NEW m \in Measure
  PROVE  Books(transfer, loss, adjustment, l, c, m) = 0
<1> DEFINE T == TransferColumn(transfer, l, c, m)
           L == LossColumn(loss, l, c, m)
           A == AdjustmentColumn(adjustment, l, c, m)
<1>1. l \notin {0} \cup StockIds(transfer)
  BY SizesAssumption DEF StockIds, TransferId
<1>2. \A t \in 1 .. MaxTransfer : T[t] = 0
  <2>1. ASSUME NEW t \in TransferId PROVE TransferShare(t, transfer[t], l, c, m) = 0
    <3>1. transfer[t].source # l /\ ~(t = l /\ IsStock(transfer[t]))
      BY <1>1 DEF DrawOnLots
    <3>. QED  BY <3>1 DEF TransferShare, When, Debited, Reserved, Underway, Left, Column
  <2>. QED  BY <2>1 DEF TransferColumn, TransferId
<1>3. \A i \in 1 .. MaxLoss : L[i] = 0
  <2>1. ASSUME NEW i \in LossId PROVE LossShare(loss[i], l, c, m) = 0
    <3>1. loss[i].source # l
      BY <1>1 DEF DrawOnLots
    <3>. QED  BY <3>1 DEF LossShare, When
  <2>. QED  BY <2>1 DEF LossColumn, LossId
<1>4. \A i \in 1 .. MaxAdjustment : A[i] = 0
  <2>1. ASSUME NEW i \in AdjustmentId PROVE AdjustmentShare(adjustment[i], l, c, m) = 0
    <3>1. adjustment[i].source # l
      BY <1>1 DEF DrawOnLots
    <3>. QED  BY <3>1 DEF AdjustmentShare, When
  <2>. QED  BY <2>1 DEF AdjustmentColumn, AdjustmentId
<1>5. /\ T \in [1 .. MaxTransfer -> Int]
      /\ L \in [1 .. MaxLoss -> Int]
      /\ A \in [1 .. MaxAdjustment -> Int]
  BY ColumnTypes
<1> HIDE DEF T, L, A
<1>6. Total(T, MaxTransfer) = 0 /\ Total(L, MaxLoss) = 0 /\ Total(A, MaxAdjustment) = 0
  BY <1>2, <1>3, <1>4, <1>5, TotalOfZeros, SizesAssumption
<1>. QED  BY <1>6 DEF Books, T, L, A

\* A lot no changed row names keeps its books.
LEMMA UntouchedBooks ==
  ASSUME DocumentsTyped(transfer, loss, adjustment),
         DocumentsTyped(transfer', loss', adjustment'),
         NEW l \in TransferId, l \notin Touched, NEW c \in Column, NEW m \in Measure
  PROVE  Books(transfer', loss', adjustment', l, c, m) = Books(transfer, loss, adjustment, l, c, m)
<1>1. TransferColumn(transfer', l, c, m) = TransferColumn(transfer, l, c, m)
  <2>1. ASSUME NEW t \in TransferId
        PROVE  TransferShare(t, transfer'[t], l, c, m) = TransferShare(t, transfer[t], l, c, m)
    <3>1. CASE transfer'[t] = transfer[t]
      BY <3>1
    <3>2. CASE transfer'[t] # transfer[t]
      <4>1. t # l /\ transfer[t].source # l /\ transfer'[t].source # l
        BY <3>2 DEF Touched
      <4>. QED  BY <4>1 DEF TransferShare, When, Debited, Reserved, Underway, Left, Column
    <3>. QED  BY <3>1, <3>2
  <2>. QED  BY <2>1 DEF TransferColumn
<1>2. LossColumn(loss', l, c, m) = LossColumn(loss, l, c, m)
  <2>1. ASSUME NEW i \in LossId
        PROVE  LossShare(loss'[i], l, c, m) = LossShare(loss[i], l, c, m)
    <3>1. CASE loss'[i] = loss[i]
      BY <3>1
    <3>2. CASE loss'[i] # loss[i]
      <4>1. loss[i].source # l /\ loss'[i].source # l
        BY <3>2 DEF Touched
      <4>. QED  BY <4>1 DEF LossShare, When
    <3>. QED  BY <3>1, <3>2
  <2>. QED  BY <2>1 DEF LossColumn
<1>3. AdjustmentColumn(adjustment', l, c, m) = AdjustmentColumn(adjustment, l, c, m)
  <2>1. ASSUME NEW i \in AdjustmentId
        PROVE  AdjustmentShare(adjustment'[i], l, c, m) = AdjustmentShare(adjustment[i], l, c, m)
    <3>1. CASE adjustment'[i] = adjustment[i]
      BY <3>1
    <3>2. CASE adjustment'[i] # adjustment[i]
      <4>1. adjustment[i].source # l /\ adjustment'[i].source # l
        BY <3>2 DEF Touched
      <4>. QED  BY <4>1 DEF AdjustmentShare, When
    <3>. QED  BY <3>1, <3>2
  <2>. QED  BY <2>1 DEF AdjustmentColumn
<1>. QED  BY <1>1, <1>2, <1>3 DEF Books

\* apply_balances keeps every balance equal to its books.
LEMMA FlushKeepsBooks ==
  ASSUME DocumentsTyped(transfer, loss, adjustment), DrawOnLots(transfer, loss, adjustment),
         DocumentsTyped(transfer', loss', adjustment'), BalancesAreBooks, ApplyBalances
  PROVE  BalancesAreBooks'
<1>1. DOMAIN balance = StockIds(transfer)
  BY DEF BalancesAreBooks
<1>2. DOMAIN balance' = StockIds(transfer')
  BY <1>1 DEF ApplyBalances, Created, Removed
<1>3. ASSUME NEW l \in StockIds(transfer')
      PROVE  /\ balance'[l] \in [Column -> [Measure -> Int]]
             /\ \A c \in Column, m \in Measure :
                  balance'[l][c][m] = Books(transfer', loss', adjustment', l, c, m)
  <2>1. l \in TransferId /\ l \in (DOMAIN balance \cup Created) \ Removed
    BY <1>1 DEF StockIds, Created, Removed
  <2>2. CASE l \notin Touched
    <3>1. balance'[l] = balance[l]
      BY <2>1, <2>2 DEF ApplyBalances
    <3>2. l \in StockIds(transfer)
      BY <2>1, <2>2 DEF Touched, StockIds
    <3>. QED  BY <2>1, <2>2, <3>1, <3>2, UntouchedBooks DEF BalancesAreBooks
  <2>3. CASE l \in Touched
    <3> DEFINE prior(c, m) == IF l \in Created THEN 0 ELSE balance[l][c][m]
    <3>1. balance'[l] = [c \in Column |-> [m \in Measure |-> prior(c, m) + Delta(l, c, m)]]
      BY <2>1, <2>3 DEF ApplyBalances
    <3>2. ASSUME NEW c \in Column, NEW m \in Measure
          PROVE  /\ prior(c, m) = Books(transfer, loss, adjustment, l, c, m)
                 /\ prior(c, m) + Delta(l, c, m) = Books(transfer', loss', adjustment', l, c, m)
                 /\ prior(c, m) + Delta(l, c, m) \in Int
      <4>1. prior(c, m) = Books(transfer, loss, adjustment, l, c, m)
        <5>1. CASE l \in Created
          BY <2>1, <5>1, NoBooksBefore DEF Created, StockIds
        <5>2. CASE l \notin Created
          BY <1>1, <2>1, <5>2 DEF BalancesAreBooks
        <5>. QED  BY <5>1, <5>2
      <4>2. Books(transfer', loss', adjustment', l, c, m)
              = Books(transfer, loss, adjustment, l, c, m) + Delta(l, c, m)
        BY DeltaIsDifference
      <4>3. Books(transfer', loss', adjustment', l, c, m) \in Int
        BY BooksType
      <4>. QED  BY <4>1, <4>2, <4>3
    <3>. QED  BY <3>1, <3>2
  <2>. QED  BY <2>2, <2>3
<1>4. balance' = [l \in StockIds(transfer') |-> balance'[l]]
  BY <1>1 DEF ApplyBalances, Created, Removed
<1>. QED  BY <1>3, <1>4 DEF BalancesAreBooks

-----------------------------------------------------------------------------
(* The books are what the migration's aggregate query returns.             *)

\* Each column of a lot is fed by one table, except what is on hand.
LEMMA BooksByTable ==
  ASSUME DocumentsTyped(transfer, loss, adjustment), NEW l, NEW m \in Measure
  PROVE  /\ \A c \in {"received", "reserved", "in_transit", "dispatched", "converted"} :
              Books(transfer, loss, adjustment, l, c, m)
                = Total(TransferColumn(transfer, l, c, m), MaxTransfer)
         /\ Books(transfer, loss, adjustment, l, "lost", m)
              = Total(LossColumn(loss, l, "lost", m), MaxLoss)
         /\ Books(transfer, loss, adjustment, l, "adjusted", m)
              = Total(AdjustmentColumn(adjustment, l, "adjusted", m), MaxAdjustment)
<1> DEFINE T(c) == TransferColumn(transfer, l, c, m)
           L(c) == LossColumn(loss, l, c, m)
           A(c) == AdjustmentColumn(adjustment, l, c, m)
<1>1. \A c \in Column : /\ T(c) \in [1 .. MaxTransfer -> Int]
                        /\ L(c) \in [1 .. MaxLoss -> Int]
                        /\ A(c) \in [1 .. MaxAdjustment -> Int]
  BY ColumnTypes
<1>2. \A c \in {"adjusted", "lost"} : \A t \in 1 .. MaxTransfer : T(c)[t] = 0
  BY DEF TransferColumn, TransferShare, TransferId
<1>3. \A c \in Column \ {"lost", "on_hand"} : \A i \in 1 .. MaxLoss : L(c)[i] = 0
  BY DEF LossColumn, LossShare, LossId, When
<1>4. \A c \in Column \ {"adjusted", "on_hand"} : \A i \in 1 .. MaxAdjustment : A(c)[i] = 0
  BY DEF AdjustmentColumn, AdjustmentShare, AdjustmentId, When
<1>5. \A c \in Column : /\ Total(T(c), MaxTransfer) \in Int
                        /\ Total(L(c), MaxLoss) \in Int
                        /\ Total(A(c), MaxAdjustment) \in Int
  BY <1>1, TotalType, SizesAssumption
<1> HIDE DEF T, L, A
<1>6. \A c \in {"adjusted", "lost"} : Total(T(c), MaxTransfer) = 0
  <2>1. \A c \in {"adjusted", "lost"} : c \in Column
    BY DEF Column
  <2>. QED  BY <1>1, <1>2, <2>1, TotalOfZeros, SizesAssumption
<1>7. \A c \in Column \ {"lost", "on_hand"} : Total(L(c), MaxLoss) = 0
  BY <1>1, <1>3, TotalOfZeros, SizesAssumption
<1>8. \A c \in Column \ {"adjusted", "on_hand"} : Total(A(c), MaxAdjustment) = 0
  BY <1>1, <1>4, TotalOfZeros, SizesAssumption
<1>9. \A c \in Column : Books(transfer, loss, adjustment, l, c, m)
        = Total(T(c), MaxTransfer) + Total(L(c), MaxLoss) + Total(A(c), MaxAdjustment)
  BY DEF Books, T, L, A
<1>10. /\ \A c \in {"received", "reserved", "in_transit", "dispatched", "converted"} :
            c \in Column \ {"lost", "adjusted", "on_hand"}
       /\ "lost" \in Column \ {"adjusted", "on_hand"}
       /\ "adjusted" \in Column \ {"lost", "on_hand"}
  BY DEF Column
<1>. QED  BY <1>5, <1>6, <1>7, <1>8, <1>9, <1>10 DEF T, L, A

\* What is on hand is what the other columns leave.
LEMMA BooksReconcile ==
  ASSUME DocumentsTyped(transfer, loss, adjustment), NEW l, NEW m \in Measure
  PROVE  LET b(c) == Books(transfer, loss, adjustment, l, c, m)
         IN b("on_hand") = b("received") + b("adjusted") - b("reserved") - b("dispatched") - b("lost")
<1> DEFINE T(c) == TransferColumn(transfer, l, c, m)
           L(c) == LossColumn(loss, l, c, m)
           A(c) == AdjustmentColumn(adjustment, l, c, m)
<1>1. /\ T("received") \in [1 .. MaxTransfer -> Int] /\ T("on_hand") \in [1 .. MaxTransfer -> Int]
      /\ T("reserved") \in [1 .. MaxTransfer -> Int] /\ T("dispatched") \in [1 .. MaxTransfer -> Int]
      /\ L("on_hand") \in [1 .. MaxLoss -> Int] /\ L("lost") \in [1 .. MaxLoss -> Int]
      /\ A("adjusted") \in [1 .. MaxAdjustment -> Int]
  BY ColumnTypes DEF Column
<1>2. \A t \in 1 .. MaxTransfer :
        T("received")[t] = T("on_hand")[t] + (T("reserved")[t] + T("dispatched")[t])
  <2>1. ASSUME NEW t \in TransferId
        PROVE  TransferShare(t, transfer[t], l, "received", m)
                 = TransferShare(t, transfer[t], l, "on_hand", m)
                   + (TransferShare(t, transfer[t], l, "reserved", m)
                      + TransferShare(t, transfer[t], l, "dispatched", m))
    <3>1. transfer[t].amount[m] \in Int
      BY DEF DocumentsTyped, Transfer
    <3>. QED  BY <3>1 DEF TransferShare, When, Debited, Reserved, Left
  <2>. QED  BY <2>1 DEF TransferColumn, TransferId
<1>3. \A i \in 1 .. MaxLoss : 0 = L("on_hand")[i] + L("lost")[i]
  <2>1. ASSUME NEW i \in LossId
        PROVE  0 = LossShare(loss[i], l, "on_hand", m) + LossShare(loss[i], l, "lost", m)
    <3>1. loss[i].amount[m] \in Int
      BY DEF DocumentsTyped, Loss
    <3>. QED  BY <3>1 DEF LossShare, When
  <2>. QED  BY <2>1 DEF LossColumn, LossId
<1>4. A("on_hand") = A("adjusted")
  BY DEF AdjustmentColumn, AdjustmentShare
<1>5. Books(transfer, loss, adjustment, l, "on_hand", m)
        = Total(T("on_hand"), MaxTransfer) + Total(L("on_hand"), MaxLoss)
          + Total(A("on_hand"), MaxAdjustment)
  BY DEF Books
<1>6. /\ \A c \in {"received", "reserved", "dispatched"} :
            Books(transfer, loss, adjustment, l, c, m) = Total(T(c), MaxTransfer)
      /\ Books(transfer, loss, adjustment, l, "lost", m) = Total(L("lost"), MaxLoss)
      /\ Books(transfer, loss, adjustment, l, "adjusted", m) = Total(A("adjusted"), MaxAdjustment)
  BY BooksByTable
<1> HIDE DEF T, L, A
<1> DEFINE Out == [t \in 1 .. MaxTransfer |-> T("reserved")[t] + T("dispatched")[t]]
           None == [i \in 1 .. MaxLoss |-> 0]
<1>7. /\ Out \in [1 .. MaxTransfer -> Int]
      /\ \A t \in 1 .. MaxTransfer : Out[t] = T("reserved")[t] + T("dispatched")[t]
  <2>1. \A t \in 1 .. MaxTransfer : T("reserved")[t] \in Int /\ T("dispatched")[t] \in Int
    BY <1>1
  <2>2. \A t \in 1 .. MaxTransfer : T("reserved")[t] + T("dispatched")[t] \in Int
    BY <2>1
  <2>. QED  BY <2>2, Zenon
<1>8. /\ None \in [1 .. MaxLoss -> Int]
      /\ \A i \in 1 .. MaxLoss : None[i] = 0
  OBVIOUS
<1> HIDE DEF Out, None
<1>9. Total(T("received"), MaxTransfer) = Total(T("on_hand"), MaxTransfer) + Total(Out, MaxTransfer)
  <2>1. \A t \in 1 .. MaxTransfer : T("received")[t] = T("on_hand")[t] + Out[t]
    BY <1>2, <1>7
  <2>. QED  BY <1>1, <1>7, <2>1, TotalAdds, SizesAssumption
<1>10. Total(Out, MaxTransfer) = Total(T("reserved"), MaxTransfer) + Total(T("dispatched"), MaxTransfer)
  <2>1. /\ T("reserved") \in [1 .. MaxTransfer -> Int] /\ T("dispatched") \in [1 .. MaxTransfer -> Int]
        /\ Out \in [1 .. MaxTransfer -> Int]
        /\ \A t \in 1 .. MaxTransfer : Out[t] = T("reserved")[t] + T("dispatched")[t]
    BY <1>1, <1>7
  <2>. QED  BY <2>1, TotalAdds, SizesAssumption
<1>11. 0 = Total(L("on_hand"), MaxLoss) + Total(L("lost"), MaxLoss)
  <2>1. Total(None, MaxLoss) = 0
    BY <1>8, TotalOfZeros, SizesAssumption
  <2>2. \A i \in 1 .. MaxLoss : None[i] = L("on_hand")[i] + L("lost")[i]
    BY <1>3, <1>8
  <2>3. Total(None, MaxLoss) = Total(L("on_hand"), MaxLoss) + Total(L("lost"), MaxLoss)
    BY <1>1, <1>8, <2>2, TotalAdds, SizesAssumption
  <2>. QED  BY <2>1, <2>3
<1>12. /\ Total(T("received"), MaxTransfer) \in Int /\ Total(T("on_hand"), MaxTransfer) \in Int
       /\ Total(T("reserved"), MaxTransfer) \in Int /\ Total(T("dispatched"), MaxTransfer) \in Int
       /\ Total(L("on_hand"), MaxLoss) \in Int /\ Total(L("lost"), MaxLoss) \in Int
       /\ Total(A("adjusted"), MaxAdjustment) \in Int
  BY <1>1, TotalType, SizesAssumption
<1>. QED  BY <1>4, <1>5, <1>6, <1>9, <1>10, <1>11, <1>12

LEMMA BooksAreExpected ==
  ASSUME DocumentsTyped(transfer, loss, adjustment), NEW l \in StockIds(transfer),
         NEW c \in Column, NEW m \in Measure
  PROVE  Expected(l, c, m) = Books(transfer, loss, adjustment, l, c, m)
<1> DEFINE b(d) == Books(transfer, loss, adjustment, l, d, m)
<1>1. l \in TransferId /\ IsStock(transfer[l])
  BY DEF StockIds
<1>2. b("received") = transfer[l].amount[m]
  <2> DEFINE T == TransferColumn(transfer, l, "received", m)
  <2>1. T \in [1 .. MaxTransfer -> Int]
    BY ColumnTypes DEF Column
  <2>2. \A t \in 1 .. MaxTransfer : T[t] = IF t = l THEN transfer[l].amount[m] ELSE 0
    BY <1>1 DEF TransferColumn, TransferShare, TransferId, When
  <2>3. b("received") = Total(T, MaxTransfer)
    BY BooksByTable
  <2> HIDE DEF T
  <2>4. Total(T, MaxTransfer) = T[l]
    BY <1>1, <2>1, <2>2, TotalOfOne, SizesAssumption DEF TransferId
  <2>. QED  BY <1>1, <2>2, <2>3, <2>4 DEF TransferId
<1>3. /\ b("reserved") = ChildTotal(l, m, LAMBDA row : row.status = "pending")
      /\ b("in_transit") = ChildTotal(l, m, LAMBDA row : row.status = "pending" /\ row.kind = "transfer")
      /\ b("dispatched") = ChildTotal(l, m, LAMBDA row : row.status \in {"received", "dispatched"})
      /\ b("converted") = ChildTotal(l, m, LAMBDA row : /\ row.status \in {"received", "dispatched"}
                                                       /\ row.kind \in Conversions)
  <2>1. \A d \in {"reserved", "in_transit", "dispatched", "converted"} :
          b(d) = Total([t \in TransferId |-> TransferShare(t, transfer[t], l, d, m)], MaxTransfer)
    BY BooksByTable DEF TransferColumn
  <2>. QED  BY <2>1 DEF ChildTotal, TransferShare, Reserved, Underway, Left
<1>4. b("lost") = Total([i \in LossId |-> When(loss[i].source = l, loss[i].amount[m])], MaxLoss)
  <2>1. \A i \in LossId : LossShare(loss[i], l, "lost", m) = When(loss[i].source = l, loss[i].amount[m])
    <3>1. \A i \in LossId : loss[i].amount[m] \in Int
      BY DEF DocumentsTyped, Loss
    <3>. QED  BY <3>1 DEF LossShare, When
  <2>2. b("lost") = Total([i \in LossId |-> LossShare(loss[i], l, "lost", m)], MaxLoss)
    BY BooksByTable DEF LossColumn
  <2>. QED  BY <2>1, <2>2
<1>5. b("adjusted") = Total([i \in AdjustmentId |->
                              When(adjustment[i].source = l,
                                   adjustment[i].after[m] - adjustment[i].before[m])], MaxAdjustment)
  <2>1. \A i \in AdjustmentId : AdjustmentShare(adjustment[i], l, "adjusted", m)
          = When(adjustment[i].source = l, adjustment[i].after[m] - adjustment[i].before[m])
    BY DEF AdjustmentShare, When
  <2>2. b("adjusted") = Total([i \in AdjustmentId |->
                                AdjustmentShare(adjustment[i], l, "adjusted", m)], MaxAdjustment)
    BY BooksByTable DEF AdjustmentColumn
  <2>. QED  BY <2>1, <2>2
<1>6. b("on_hand") = b("received") + b("adjusted") - b("reserved") - b("dispatched") - b("lost")
  BY BooksReconcile
<1> HIDE DEF b
<1>7. Expected(l, c, m) = b(c)
  <2>1. Expected(l, "received", m) = b("received")
    BY <1>2 DEF Expected
  <2>2. Expected(l, "reserved", m) = b("reserved")
    BY <1>3 DEF Expected
  <2>3. Expected(l, "in_transit", m) = b("in_transit")
    BY <1>3 DEF Expected
  <2>4. Expected(l, "dispatched", m) = b("dispatched")
    BY <1>3 DEF Expected
  <2>5. Expected(l, "converted", m) = b("converted")
    BY <1>3 DEF Expected
  <2>6. Expected(l, "lost", m) = b("lost")
    BY <1>4 DEF Expected
  <2>7. Expected(l, "adjusted", m) = b("adjusted")
    BY <1>5 DEF Expected
  <2>8. Expected(l, "on_hand", m) = b("on_hand")
    BY <1>2, <1>3, <1>4, <1>5, <1>6 DEF Expected
  <2>. QED  BY <2>1, <2>2, <2>3, <2>4, <2>5, <2>6, <2>7, <2>8 DEF Column
<1>. QED  BY <1>7 DEF b

-----------------------------------------------------------------------------
(* What the CHECK constraints of material_stock_balances ask.              *)

LEMMA BooksPassChecks ==
  ASSUME DocumentsTyped(transfer, loss, adjustment), NEW l, NEW m \in Measure
  PROVE  /\ \A c \in {"received", "reserved", "in_transit", "dispatched", "lost"} :
              Books(transfer, loss, adjustment, l, c, m) >= 0
         /\ Books(transfer, loss, adjustment, l, "in_transit", m)
              <= Books(transfer, loss, adjustment, l, "reserved", m)
<1> DEFINE T(c) == TransferColumn(transfer, l, c, m)
           L == LossColumn(loss, l, "lost", m)
           Rest == [t \in 1 .. MaxTransfer |-> T("reserved")[t] - T("in_transit")[t]]
<1>1. \A t \in TransferId : transfer[t].amount[m] \in Nat
  BY DEF DocumentsTyped, Transfer
<1>2. \A c \in {"received", "reserved", "in_transit", "dispatched"} :
        T(c) \in [1 .. MaxTransfer -> Nat]
  <2>1. ASSUME NEW c \in {"received", "reserved", "in_transit", "dispatched"}, NEW t \in TransferId
        PROVE  TransferShare(t, transfer[t], l, c, m) \in Nat
    BY <1>1 DEF TransferShare, When
  <2>. QED  BY <2>1 DEF TransferColumn, TransferId
<1>3. L \in [1 .. MaxLoss -> Nat]
  <2>1. ASSUME NEW i \in LossId PROVE LossShare(loss[i], l, "lost", m) \in Nat
    <3>1. loss[i].amount[m] \in Nat
      BY DEF DocumentsTyped, Loss
    <3>. QED  BY <3>1 DEF LossShare, When
  <2>. QED  BY <2>1 DEF LossColumn, LossId
<1>4. ASSUME NEW t \in 1 .. MaxTransfer
      PROVE  T("reserved")[t] - T("in_transit")[t] \in Nat
  BY <1>1 DEF TransferColumn, TransferShare, TransferId, Reserved, Underway, When
<1> HIDE DEF T, L
<1>5. /\ Rest \in [1 .. MaxTransfer -> Nat]
      /\ \A t \in 1 .. MaxTransfer : Rest[t] = T("reserved")[t] - T("in_transit")[t]
  <2>1. \A t \in 1 .. MaxTransfer : Rest[t] = T("reserved")[t] - T("in_transit")[t]
    OBVIOUS
  <2>. QED  BY <1>4, <2>1, Zenon
<1> HIDE DEF Rest
<1>6. \A t \in 1 .. MaxTransfer : T("reserved")[t] = T("in_transit")[t] + Rest[t]
  <2>1. \A t \in 1 .. MaxTransfer : T("reserved")[t] \in Nat /\ T("in_transit")[t] \in Nat
    BY <1>2
  <2>. QED  BY <1>5, <2>1
<1>7. Total(T("reserved"), MaxTransfer)
        = Total(T("in_transit"), MaxTransfer) + Total(Rest, MaxTransfer)
  <2>1. /\ T("reserved") \in [1 .. MaxTransfer -> Int] /\ T("in_transit") \in [1 .. MaxTransfer -> Int]
        /\ Rest \in [1 .. MaxTransfer -> Int]
    BY <1>2, <1>5
  <2>. QED  BY <1>6, <2>1, TotalAdds, SizesAssumption
<1>8. /\ \A c \in {"received", "reserved", "in_transit", "dispatched"} :
            Total(T(c), MaxTransfer) \in Nat
      /\ Total(L, MaxLoss) \in Nat
      /\ Total(Rest, MaxTransfer) \in Nat
  <2>1. \A c \in {"received", "reserved", "in_transit", "dispatched"} :
          Total(T(c), MaxTransfer) \in Nat
    BY <1>2, TotalOfNat, SizesAssumption
  <2>2. Total(L, MaxLoss) \in Nat /\ Total(Rest, MaxTransfer) \in Nat
    BY <1>3, <1>5, TotalOfNat, SizesAssumption
  <2>. QED  BY <2>1, <2>2
<1>9. /\ \A c \in {"received", "reserved", "in_transit", "dispatched"} :
            Books(transfer, loss, adjustment, l, c, m) = Total(T(c), MaxTransfer)
      /\ Books(transfer, loss, adjustment, l, "lost", m) = Total(L, MaxLoss)
  BY BooksByTable DEF T, L
<1>. QED  BY <1>7, <1>8, <1>9

-----------------------------------------------------------------------------
(* Initial states.                                                         *)

LEMMA InitIsSound == Init => IInv
<1> SUFFICES ASSUME Init PROVE IInv
  OBVIOUS
<1>1. DocumentsTyped(transfer, loss, adjustment)
  BY HistoryAssumption, SizesAssumption
  DEF Init, DocumentsTyped, NoLoss, Loss, NoAdjustment, Adjustment, Nothing
<1>2. LineageIsSound /\ RowsInOrder(transfer)
  BY HistoryAssumption DEF Init, LineageIsSound, RowsInOrder
<1>3. DrawOnLots(transfer, loss, adjustment)
  <2>1. ASSUME NEW t \in TransferId PROVE transfer[t].source \in {0} \cup StockIds(transfer)
    <3>1. transfer[t].source \in 0 .. MaxTransfer
      BY <1>1 DEF DocumentsTyped, Transfer
    <3>2. transfer[t].source # 0 => IsStock(transfer[transfer[t].source])
      BY <1>2 DEF LineageIsSound
    <3>. QED  BY <3>1, <3>2, SizesAssumption DEF StockIds, TransferId
  <2>. QED  BY <2>1 DEF Init, DrawOnLots, NoLoss, NoAdjustment
<1>4. BalancesAreBooks
  <2>1. ASSUME NEW l \in StockIds(transfer)
        PROVE  /\ ExpectedBalance(l) \in [Column -> [Measure -> Int]]
               /\ \A c \in Column, m \in Measure :
                    ExpectedBalance(l)[c][m] = Books(transfer, loss, adjustment, l, c, m)
    <3>1. \A c \in Column, m \in Measure :
            Expected(l, c, m) = Books(transfer, loss, adjustment, l, c, m)
      BY <1>1, BooksAreExpected
    <3>2. \A c \in Column, m \in Measure : Expected(l, c, m) \in Int
      BY <1>1, <3>1, BooksType
    <3>. QED  BY <3>1, <3>2 DEF ExpectedBalance
  <2>. QED  BY <2>1 DEF Init, BalancesAreBooks
<1>. QED  BY <1>1, <1>2, <1>3, <1>4 DEF IInv

-----------------------------------------------------------------------------
(* Every handler replaces rows that are not lots by well-formed rows.      *)

\* Row t may be replaced by row: it draws on nothing or on an older lot of its team,
\* and a document that waits becomes a newer version of itself.
MayFollow(t, row) ==
  /\ row \in Transfer
  /\ row.status # "absent"
  /\ transfer[t].status \in {"absent", "pending"}
  /\ transfer[t].status = "pending" => row.version = transfer[t].version + 1
  /\ row.source # 0 => /\ row.source \in StockIds(transfer)
                       /\ row.source < t
                       /\ transfer[row.source].nextTeam = row.sourceTeam

\* What a step does to the documents it finds.
RowsMove ==
  \A t \in TransferId :
    /\ transfer[t].status \notin {"absent", "pending"} => transfer'[t] = transfer[t]
    /\ transfer[t].status = "pending" /\ transfer'[t] # transfer[t] =>
         transfer'[t].version = transfer[t].version + 1
Sound == IInv' /\ RowsMove

LEMMA StepIsSound ==
  ASSUME IInv,
         NEW S \in SUBSET TransferId, NEW rows, DOMAIN rows = S,
         \A t \in S : MayFollow(t, rows[t]) /\ 1 .. t \subseteq S \cup TransfersUsed,
         NEW lo \in [LossId -> Loss], NEW ad \in [AdjustmentId -> Adjustment],
         \A i \in LossId : lo[i].source \in {0} \cup StockIds(transfer),
         \A i \in AdjustmentId : ad[i].source \in {0} \cup StockIds(transfer),
         Flush(Put(transfer, rows), lo, ad)
  PROVE  Sound
<1>1. DocumentsTyped(transfer, loss, adjustment) /\ DrawOnLots(transfer, loss, adjustment)
  BY DEF IInv
<1>2. DOMAIN transfer = TransferId
  BY <1>1 DEF DocumentsTyped
<1>3. /\ \A t \in S : transfer'[t] = rows[t]
      /\ \A t \in TransferId \ S : transfer'[t] = transfer[t]
      /\ DOMAIN transfer' = TransferId
      /\ transfer' = [t \in TransferId |-> transfer'[t]]
  BY <1>2 DEF Flush, Put
<1>4. loss' = lo /\ adjustment' = ad
  BY DEF Flush
<1>5. DocumentsTyped(transfer', loss', adjustment')
  <2>1. \A t \in TransferId : transfer'[t] \in Transfer
    BY <1>1, <1>3 DEF DocumentsTyped, MayFollow
  <2>. QED  BY <1>3, <1>4, <2>1 DEF DocumentsTyped
<1>6. \A t \in StockIds(transfer) : transfer'[t] = transfer[t] /\ t \in StockIds(transfer')
  BY <1>3 DEF StockIds, IsStock, MayFollow
<1>7. DrawOnLots(transfer', loss', adjustment')
  <2>1. ASSUME NEW t \in TransferId PROVE transfer'[t].source \in {0} \cup StockIds(transfer')
    <3>1. CASE t \in S
      BY <1>3, <1>6, <3>1 DEF MayFollow
    <3>2. CASE t \notin S
      BY <1>1, <1>3, <1>6, <3>2 DEF DrawOnLots
    <3>. QED  BY <3>1, <3>2
  <2>. QED  BY <1>4, <1>6, <2>1 DEF DrawOnLots
<1>8. LineageIsSound'
  <2> SUFFICES ASSUME NEW t \in TransferId, transfer'[t].source # 0
               PROVE  /\ transfer'[t].source < t
                      /\ IsStock(transfer'[transfer'[t].source])
                      /\ transfer'[transfer'[t].source].nextTeam = transfer'[t].sourceTeam
    BY DEF LineageIsSound, IsStock
  <2>1. transfer'[t].source \in StockIds(transfer')
    BY <1>7 DEF DrawOnLots
  <2>2. CASE t \in S
    BY <1>3, <1>6, <2>1, <2>2 DEF MayFollow, StockIds
  <2>3. CASE t \notin S
    <3>1. transfer[t].source \in StockIds(transfer)
      BY <1>1, <1>3, <2>3 DEF DrawOnLots
    <3>2. transfer[t].source < t /\ transfer[transfer[t].source].nextTeam = transfer[t].sourceTeam
      BY <1>3, <2>3 DEF IInv, LineageIsSound
    <3>. QED  BY <1>3, <1>6, <2>1, <2>3, <3>1, <3>2 DEF StockIds
  <2>. QED  BY <2>2, <2>3
<1>9. RowsInOrder(transfer')
  <2> SUFFICES ASSUME NEW t \in TransferId, transfer'[t].status # "absent", NEW u \in 1 .. t - 1
               PROVE  transfer'[u].status # "absent"
    BY DEF RowsInOrder
  <2>1. u \in TransferId
    BY SizesAssumption DEF TransferId
  <2>2. u \in S \cup TransfersUsed
    <3>1. CASE t \in S
      BY <3>1, SizesAssumption DEF TransferId
    <3>2. CASE t \notin S
      BY <1>3, <2>1, <3>2 DEF IInv, RowsInOrder, TransfersUsed
    <3>. QED  BY <3>1, <3>2
  <2>. QED  BY <1>3, <2>1, <2>2 DEF TransfersUsed, MayFollow
<1>10. BalancesAreBooks'
  BY <1>1, <1>5, FlushKeepsBooks DEF IInv, Flush
<1>11. RowsMove
  BY <1>3 DEF RowsMove, MayFollow
<1>. QED  BY <1>5, <1>7, <1>8, <1>9, <1>10, <1>11 DEF IInv, Sound

-----------------------------------------------------------------------------
(* The shapes of a step: one row, no row, one loss, one adjustment.        *)

\* Losses and adjustments that draw on lots.
LossesOK(lo) == /\ lo \in [LossId -> Loss]
                /\ \A i \in LossId : lo[i].source \in {0} \cup StockIds(transfer)
AdjustmentsOK(ad) == /\ ad \in [AdjustmentId -> Adjustment]
                     /\ \A i \in AdjustmentId : ad[i].source \in {0} \cup StockIds(transfer)

LEMMA TablesOK == IInv => LossesOK(loss) /\ AdjustmentsOK(adjustment)
BY DEF IInv, DocumentsTyped, DrawOnLots, LossesOK, AdjustmentsOK

LEMMA OneRowStep ==
  ASSUME IInv, NEW t \in TransferId, NEW row, MayFollow(t, row),
         t \in TransfersUsed \/ IsNext(t, TransfersUsed),
         NEW lo, LossesOK(lo), NEW ad, AdjustmentsOK(ad),
         Flush(PutOne(transfer, t, row), lo, ad)
  PROVE  Sound
<1> DEFINE rows == [u \in {t} |-> row]
<1>1. transfer \in [TransferId -> Transfer]
  BY DEF IInv, DocumentsTyped
<1>2. Put(transfer, rows) = PutOne(transfer, t, row)
  BY <1>1 DEF Put, PutOne
<1>3. 1 .. t \subseteq {t} \cup TransfersUsed
  <2>1. t \in TransfersUsed => 1 .. t - 1 \subseteq TransfersUsed
    BY SizesAssumption DEF IInv, RowsInOrder, TransfersUsed, TransferId
  <2>2. IsNext(t, TransfersUsed) => 1 .. t - 1 \subseteq TransfersUsed
    BY DEF IsNext
  <2>. QED  BY <2>1, <2>2, SizesAssumption DEF TransferId
<1>4. DOMAIN rows = {t} /\ {t} \in SUBSET TransferId /\ \A u \in {t} : rows[u] = row
  OBVIOUS
<1> HIDE DEF rows
<1>5. Flush(Put(transfer, rows), lo, ad)
  BY <1>2 DEF Flush
<1>6. \A u \in {t} : MayFollow(u, rows[u]) /\ 1 .. u \subseteq {t} \cup TransfersUsed
  BY <1>3, <1>4
<1>7. /\ lo \in [LossId -> Loss] /\ ad \in [AdjustmentId -> Adjustment]
      /\ \A i \in LossId : lo[i].source \in {0} \cup StockIds(transfer)
      /\ \A i \in AdjustmentId : ad[i].source \in {0} \cup StockIds(transfer)
  BY DEF LossesOK, AdjustmentsOK
<1>. QED  BY <1>4, <1>5, <1>6, <1>7, StepIsSound

LEMMA NoRowStep ==
  ASSUME IInv, NEW lo, LossesOK(lo), NEW ad, AdjustmentsOK(ad), Flush(transfer, lo, ad)
  PROVE  Sound
<1> DEFINE rows == [u \in {} |-> 0]
<1>1. transfer \in [TransferId -> Transfer]
  BY DEF IInv, DocumentsTyped
<1>2. Put(transfer, rows) = transfer
  BY <1>1 DEF Put
<1>3. DOMAIN rows = {} /\ {} \in SUBSET TransferId
  OBVIOUS
<1> HIDE DEF rows
<1>4. Flush(Put(transfer, rows), lo, ad)
  BY <1>2 DEF Flush
<1>. QED  BY <1>3, <1>4, StepIsSound DEF LossesOK, AdjustmentsOK

\* Well-formed rows.
LEMMA DocumentType ==
  ASSUME NEW kind \in Kind, NEW source \in 0 .. MaxTransfer,
         NEW from \in Team \cup {NoTeam}, NEW to \in Team \cup {NoTeam},
         NEW a \in [Measure -> Nat]
  PROVE  /\ Document(kind, source, from, to, a) \in Transfer
         /\ Document(kind, source, from, to, a).source = source
         /\ Document(kind, source, from, to, a).sourceTeam = from
         /\ Document(kind, source, from, to, a).status = "pending"
BY DEF Document, Transfer, Status

LEMMA LotRowType ==
  ASSUME NEW kind \in Kind, NEW source \in 0 .. MaxTransfer,
         NEW from \in Team \cup {NoTeam}, NEW to \in Team \cup {NoTeam},
         NEW a \in [Measure -> Nat]
  PROVE  /\ Received(Document(kind, source, from, to, a)) \in Transfer
         /\ Received(Document(kind, source, from, to, a)).source = source
         /\ Received(Document(kind, source, from, to, a)).sourceTeam = from
         /\ Received(Document(kind, source, from, to, a)).status = "received"
<1> DEFINE row == Document(kind, source, from, to, a)
<1>1. row \in Transfer /\ row.source = source /\ row.sourceTeam = from
  BY DocumentType
<1> HIDE DEF row
<1>2. /\ Received(row) \in Transfer
      /\ Received(row).source = row.source /\ Received(row).sourceTeam = row.sourceTeam
      /\ Received(row).status = "received"
  BY <1>1 DEF Received, Transfer, Status
<1>. QED  BY <1>1, <1>2 DEF row

\* next keeps the lot and the sender of row; a successor is one version newer.
SameOrigin(next, row) ==
  /\ next \in Transfer
  /\ next.source = row.source
  /\ next.sourceTeam = row.sourceTeam
Keeps(next, row) == SameOrigin(next, row) /\ next.version = row.version
Succeeds(next, row) == SameOrigin(next, row) /\ next.version = row.version + 1

LEMMA EditType ==
  ASSUME NEW row \in Transfer
  PROVE  /\ Succeeds(Edited(row), row) /\ Edited(row).status = row.status
         /\ Keeps(Received(row), row) /\ Received(row).status = "received"
<1>1. Succeeds(Edited(row), row) /\ Edited(row).status = row.status
  BY DEF Keeps, Succeeds, SameOrigin, Edited, Transfer
<1>2. Keeps(Received(row), row) /\ Received(row).status = "received"
  BY DEF Keeps, Succeeds, SameOrigin, Received, Transfer, Status
<1>. QED  BY <1>1, <1>2

LEMMA ChangeType ==
  ASSUME NEW row \in Transfer, NEW a \in [Measure -> Nat], NEW to \in Team \cup {NoTeam},
         NEW status \in Status, NEW rejected \in BOOLEAN
  PROVE  /\ Keeps([row EXCEPT !.status = status], row)
         /\ [row EXCEPT !.status = status].status = status
         /\ Keeps([row EXCEPT !.rejected = rejected], row)
         /\ [row EXCEPT !.rejected = rejected].status = row.status
         /\ Keeps([row EXCEPT !.amount = a, !.nextTeam = to, !.rejected = rejected], row)
         /\ [row EXCEPT !.amount = a, !.nextTeam = to, !.rejected = rejected].status = row.status
<1>1. /\ Keeps([row EXCEPT !.status = status], row)
      /\ [row EXCEPT !.status = status].status = status
  BY DEF Keeps, Succeeds, SameOrigin, Transfer
<1>2. /\ Keeps([row EXCEPT !.rejected = rejected], row)
      /\ [row EXCEPT !.rejected = rejected].status = row.status
  BY DEF Keeps, Succeeds, SameOrigin, Transfer
<1>3. /\ Keeps([row EXCEPT !.amount = a, !.nextTeam = to, !.rejected = rejected], row)
      /\ [row EXCEPT !.amount = a, !.nextTeam = to, !.rejected = rejected].status = row.status
  BY DEF Keeps, Succeeds, SameOrigin, Transfer
<1>. QED  BY <1>1, <1>2, <1>3

\* A waiting document may become any row that keeps its lot and its sender.
LEMMA EditFollows ==
  ASSUME IInv, NEW t \in TransferId, transfer[t].status = "pending",
         NEW row, row.status # "absent", Succeeds(row, transfer[t])
  PROVE  MayFollow(t, row) /\ t \in TransfersUsed
<1>1. row.source \in {0} \cup StockIds(transfer)
  BY DEF IInv, DrawOnLots, SameOrigin, Succeeds
<1>. QED  BY <1>1 DEF MayFollow, SameOrigin, Succeeds, IInv, LineageIsSound, IsStock, TransfersUsed

\* A new row may draw on any lot of its sender, or on nothing.
LEMMA NewFollows ==
  ASSUME IInv, NEW t \in TransferId, t \notin TransfersUsed, NEW row \in Transfer,
         row.status # "absent",
         row.source # 0 => /\ row.source \in StockIds(transfer)
                           /\ transfer[row.source].nextTeam = row.sourceTeam
  PROVE  MayFollow(t, row)
<1>1. transfer[t].status = "absent" /\ ~IsStock(transfer[t])
  BY DEF TransfersUsed, IsStock
<1>2. ASSUME row.source # 0 PROVE row.source < t
  <2>1. row.source \in TransferId /\ transfer[row.source].status # "absent"
    BY <1>2 DEF StockIds, IsStock
  <2>2. \A u \in 1 .. row.source - 1 : transfer[u].status # "absent"
    BY <2>1 DEF IInv, RowsInOrder
  <2>3. ~(t < row.source) /\ t # row.source
    BY <1>1, <2>1, <2>2, SizesAssumption DEF TransferId
  <2>. QED  BY <2>1, <2>3, SizesAssumption DEF TransferId
<1>. QED  BY <1>1, <1>2 DEF MayFollow

-----------------------------------------------------------------------------
(* Well-formed losses and adjustments.                                     *)

LEMMA OnHandType ==
  ASSUME IInv, NEW l \in StockIds(transfer)
  PROVE  /\ l \in TransferId /\ transfer[l] \in Transfer /\ IsStock(transfer[l])
         /\ OnHand(l) \in [Measure -> Int]
<1>1. l \in TransferId /\ transfer[l] \in Transfer /\ IsStock(transfer[l])
  BY DEF IInv, DocumentsTyped, StockIds
<1>2. balance[l] \in [Column -> [Measure -> Int]]
  BY DEF IInv, BalancesAreBooks
<1>. QED  BY <1>1, <1>2 DEF OnHand, Column

LEMMA SumFromType ==
  ASSUME NEW S \in SUBSET TransferId, NEW lines, DOMAIN lines = S,
         \A t \in S : lines[t].amount \in [Measure -> Nat], NEW s
  PROVE  SumFrom(lines, s) \in [Measure -> Nat]
<1>1. ASSUME NEW m \in Measure
      PROVE  Total([t \in TransferId |->
               When(t \in DOMAIN lines /\ lines[t].source = s, lines[t].amount[m])], MaxTransfer) \in Nat
  <2> DEFINE f == [t \in TransferId |->
               When(t \in DOMAIN lines /\ lines[t].source = s, lines[t].amount[m])]
  <2>1. f \in [1 .. MaxTransfer -> Nat]
    BY DEF TransferId, When
  <2> HIDE DEF f
  <2>2. Total(f, MaxTransfer) \in Nat
    BY <2>1, TotalOfNat, SizesAssumption
  <2>. QED  BY <2>2 DEF f
<1>. QED  BY <1>1 DEF SumFrom

\* A note on a lot that the handlers write down.
NoteOK(note) == note \in Adjustment /\ note.source \in StockIds(transfer)

LEMMA PieceType ==
  ASSUME NEW f \in [Measure -> Int], NEW q \in Int
  PROVE  [f EXCEPT !["quantity"] = q] \in [Measure -> Int]
OBVIOUS

LEMMA CountRowOK ==
  ASSUME IInv, NEW l \in StockIds(transfer), NEW q \in Nat
  PROVE  NoteOK(CountRow(l, q))
<1>1. l \in 0 .. MaxTransfer /\ OnHand(l) \in [Measure -> Int]
  BY OnHandType, SizesAssumption DEF TransferId
<1>2. [OnHand(l) EXCEPT !["quantity"] = q] \in [Measure -> Int]
  BY <1>1, PieceType
<1>. QED  BY <1>1, <1>2 DEF NoteOK, CountRow, Adjustment

LEMMA ClearRowOK ==
  ASSUME IInv, NEW l \in StockIds(transfer),
         NEW available \in [Measure -> Int], NEW a \in [Measure -> Int]
  PROVE  NoteOK(ClearRow(l, available, a))
<1>1. l \in 0 .. MaxTransfer
  BY OnHandType, SizesAssumption DEF TransferId
<1>2. Nothing \in [Measure -> Int]
  BY DEF Nothing
<1>3. available["quantity"] - a["quantity"] \in Int
  BY DEF Measure
<1>4. [Nothing EXCEPT !["quantity"] = available["quantity"] - a["quantity"]] \in [Measure -> Int]
  BY <1>2, <1>3, PieceType
<1>. QED  BY <1>1, <1>2, <1>4 DEF NoteOK, ClearRow, Adjustment

LEMMA OneNote ==
  ASSUME IInv, NEW i \in AdjustmentId, NEW note, NoteOK(note)
  PROVE  AdjustmentsOK(PutOne(adjustment, i, note))
BY TablesOK DEF AdjustmentsOK, NoteOK, PutOne

LEMMA SomeNotes ==
  ASSUME IInv, NEW noted \in SUBSET AdjustmentId, NEW note, DOMAIN note = noted,
         \A i \in noted : NoteOK(note[i])
  PROVE  AdjustmentsOK(Put(adjustment, note))
<1>1. AdjustmentsOK(adjustment)
  BY TablesOK
<1>. QED  BY <1>1 DEF AdjustmentsOK, NoteOK, Put

LEMMA OneLoss ==
  ASSUME IInv, NEW i \in LossId, NEW l \in StockIds(transfer), NEW a \in [Measure -> Nat]
  PROVE  LossesOK(PutOne(loss, i, [source |-> l, amount |-> a]))
<1>1. LossesOK(loss)
  BY TablesOK
<1>2. [source |-> l, amount |-> a] \in Loss
  BY OnHandType, SizesAssumption DEF Loss, TransferId
<1>. QED  BY <1>1, <1>2 DEF LossesOK, PutOne

-----------------------------------------------------------------------------
(* One lemma per handler.                                                  *)

\* New rows follow the numbers already handed out.
LEMMA NextIdsInOrder ==
  ASSUME NEW fresh \in NextIds(TransfersUsed, MaxTransfer)
  PROVE  /\ fresh \in SUBSET TransferId
         /\ \A t \in fresh : t \notin TransfersUsed /\ 1 .. t \subseteq fresh \cup TransfersUsed
BY DEF NextIds, TransferId

LEMMA CreateReceiptIsSound == IInv /\ CreateReceipt => Sound
<1> SUFFICES ASSUME IInv, NEW a \in Amounts, NEW t \in TransferId, IsNext(t, TransfersUsed),
                    Flush(PutOne(transfer, t, Received(Document("entry", 0, NoTeam, Warehouse, a))),
                          loss, adjustment)
             PROVE  Sound
  BY DEF CreateReceipt
<1> DEFINE row == Received(Document("entry", 0, NoTeam, Warehouse, a))
<1>1. row \in Transfer /\ row.source = 0 /\ row.status = "received"
  <2>1. a \in [Measure -> Nat]
    BY SizesAssumption
  <2>2. "entry" \in Kind /\ 0 \in 0 .. MaxTransfer
    BY SizesAssumption DEF Kind
  <2>3. Warehouse \in Team \cup {NoTeam} /\ NoTeam \in Team \cup {NoTeam}
    BY TeamAssumption
  <2>. QED  BY <2>1, <2>2, <2>3, LotRowType
<1> HIDE DEF row
<1>2. MayFollow(t, row)
  BY <1>1, NewFollows DEF IsNext
<1>3. Flush(PutOne(transfer, t, row), loss, adjustment)
  BY DEF row
<1>. QED  BY <1>2, <1>3, OneRowStep, TablesOK

LEMMA CreateOpeningIsSound ==
  ASSUME IInv, NEW team \in Team, CreateOpening(team)
  PROVE  Sound
<1>1. PICK fresh \in NextIds(TransfersUsed, MaxTransfer) : \E a \in [fresh -> Amounts] :
         Flush(Put(transfer, [t \in fresh |->
                 Received(Document("entry", 0, NoTeam, team, a[t]))]), loss, adjustment)
  BY DEF CreateOpening
<1>2. PICK a \in [fresh -> Amounts] :
         Flush(Put(transfer, [t \in fresh |->
                 Received(Document("entry", 0, NoTeam, team, a[t]))]), loss, adjustment)
  BY <1>1
<1> DEFINE rows == [t \in fresh |-> Received(Document("entry", 0, NoTeam, team, a[t]))]
<1>3. \A t \in fresh : rows[t] \in Transfer /\ rows[t].source = 0 /\ rows[t].status = "received"
  <2>1. \A t \in fresh : a[t] \in [Measure -> Nat]
    BY SizesAssumption
  <2>2. "entry" \in Kind /\ 0 \in 0 .. MaxTransfer
    BY SizesAssumption DEF Kind
  <2>3. team \in Team \cup {NoTeam} /\ NoTeam \in Team \cup {NoTeam}
    OBVIOUS
  <2> HIDE DEF rows
  <2>4. ASSUME NEW t \in fresh
        PROVE  LET row == Received(Document("entry", 0, NoTeam, team, a[t]))
               IN  row \in Transfer /\ row.source = 0 /\ row.status = "received"
    <3>1. a[t] \in [Measure -> Nat]
      BY <2>1
    <3>2. Received(Document("entry", 0, NoTeam, team, a[t])) \in Transfer
      BY <2>2, <2>3, <3>1, LotRowType
    <3>. QED  BY <2>2, <2>3, <3>1, <3>2, LotRowType
  <2>. QED  BY <2>4 DEF rows
<1>4. DOMAIN rows = fresh /\ Flush(Put(transfer, rows), loss, adjustment)
  BY <1>2
<1> HIDE DEF rows
<1>5. \A t \in fresh : MayFollow(t, rows[t])
  BY <1>3, NewFollows, NextIdsInOrder
<1>6. fresh \in SUBSET TransferId /\ \A t \in fresh : 1 .. t \subseteq fresh \cup TransfersUsed
  BY NextIdsInOrder
<1>. QED  BY <1>4, <1>5, <1>6, StepIsSound, TablesOK DEF LossesOK, AdjustmentsOK

LEMMA CreateTransferIsSound ==
  ASSUME IInv, NEW team \in Team, NEW target \in Team, CreateTransfer(team, target)
  PROVE  Sound
<1>1. PICK a \in Amounts, t \in TransferId :
        /\ IsNext(t, TransfersUsed)
        /\ Flush(PutOne(transfer, t, Document("transfer", 0, team, target, a)), loss, adjustment)
  BY DEF CreateTransfer
<1> DEFINE row == Document("transfer", 0, team, target, a)
<1>2. row \in Transfer /\ row.source = 0 /\ row.status = "pending"
  <2>1. a \in [Measure -> Nat] /\ "transfer" \in Kind /\ 0 \in 0 .. MaxTransfer
    BY SizesAssumption DEF Kind
  <2>. QED  BY <2>1, DocumentType
<1> HIDE DEF row
<1>3. MayFollow(t, row)
  BY <1>1, <1>2, NewFollows DEF IsNext
<1>4. Flush(PutOne(transfer, t, row), loss, adjustment)
  BY <1>1 DEF row
<1>. QED  BY <1>1, <1>3, <1>4, OneRowStep, TablesOK

LEMMA CreateDispatchIsSound ==
  ASSUME IInv, NEW team \in Team, NEW kind \in ExternalKinds \cup {"transfer"},
         NEW target \in Team \cup {NoTeam}, CreateDispatch(team, kind, target)
  PROVE  Sound
<1> SUFFICES ASSUME NEW fresh \in NextIds(TransfersUsed, MaxTransfer),
                    NEW lines \in [fresh -> [source : LotsOf(team), amount : Amounts]],
                    NEW counted \in SUBSET {lines[t].source : t \in fresh},
                    NEW cleared \in SUBSET {lines[t].source : t \in fresh},
                    NEW count \in [counted -> Counts],
                    SubmitLines(team, kind, target, lines, count, cleared)
             PROVE  Sound
  BY DEF CreateDispatch
<1>1. PICK noted \in NextIds(AdjustmentsUsed, MaxAdjustment) :
        \E note \in [noted -> Notes(lines, count, cleared)] :
          Flush(Put(transfer, [t \in fresh |-> LineRow(team, kind, target, lines[t])]),
                loss, Put(adjustment, note))
  <2>1. DOMAIN lines = fresh
    OBVIOUS
  <2>. QED  BY <2>1 DEF SubmitLines
<1>2. PICK note \in [noted -> Notes(lines, count, cleared)] :
          Flush(Put(transfer, [t \in fresh |-> LineRow(team, kind, target, lines[t])]),
                loss, Put(adjustment, note))
  BY <1>1
<1> DEFINE notes == Notes(lines, count, cleared)
           rows == [t \in fresh |-> LineRow(team, kind, target, lines[t])]
<1>3. fresh \in SUBSET TransferId
  BY NextIdsInOrder
<1>4. \A t \in fresh : /\ lines[t].source \in StockIds(transfer)
                       /\ transfer[lines[t].source].nextTeam = team
                       /\ lines[t].amount \in [Measure -> Nat]
  BY SizesAssumption DEF LotsOf
<1>5. \A l \in counted : l \in StockIds(transfer) /\ count[l] \in Nat
  BY <1>4, SizesAssumption
<1>6. \A n \in notes : NoteOK(n)
  <2>1. \A l \in counted : NoteOK(CountRow(l, count[l]))
    BY <1>5, CountRowOK
  <2>2. ASSUME NEW l \in cleared
        PROVE  NoteOK(ClearRow(l, Available(l, count), SumFrom(lines, l)))
    <3>1. l \in StockIds(transfer)
      BY <1>4
    <3>2. OnHand(l) \in [Measure -> Int]
      BY <3>1, OnHandType
    <3>3. Available(l, count) \in [Measure -> Int]
      <4>1. CASE l \in counted
        <5>1. count[l] \in Int
          BY <1>5, <4>1
        <5>. QED  BY <3>2, <4>1, <5>1, PieceType DEF Available
      <4>2. CASE l \notin counted
        BY <3>2, <4>2 DEF Available
      <4>. QED  BY <4>1, <4>2
    <3>4. SumFrom(lines, l) \in [Measure -> Nat]
      BY <1>3, <1>4, SumFromType
    <3>5. SumFrom(lines, l) \in [Measure -> Int]
      BY <3>4
    <3>. QED  BY <3>1, <3>3, <3>5, ClearRowOK
  <2>. QED  BY <2>1, <2>2 DEF Notes
<1>7. ASSUME NEW t \in fresh
      PROVE  /\ rows[t] \in Transfer /\ rows[t].status # "absent"
             /\ rows[t].source \in StockIds(transfer)
             /\ transfer[rows[t].source].nextTeam = rows[t].sourceTeam
  <2> DEFINE row == Document(kind, lines[t].source, team, target, lines[t].amount)
  <2>1. kind \in Kind /\ team \in Team \cup {NoTeam} /\ lines[t].source \in 0 .. MaxTransfer
    BY <1>4, OnHandType, SizesAssumption DEF Kind, TransferId
  <2>2. /\ row \in Transfer /\ row.source = lines[t].source
        /\ row.sourceTeam = team /\ row.status = "pending"
    BY <1>4, <2>1, DocumentType
  <2>3. rows[t] = IF kind \in ExternalKinds THEN [row EXCEPT !.status = "dispatched"] ELSE row
    BY DEF LineRow
  <2> HIDE DEF row, rows
  <2>4. /\ Keeps([row EXCEPT !.status = "dispatched"], row)
        /\ [row EXCEPT !.status = "dispatched"].status = "dispatched"
    BY <2>2, ChangeType DEF Status, Transfer
  <2>. QED  BY <1>4, <2>2, <2>3, <2>4 DEF Keeps, SameOrigin
<1>8. AdjustmentsOK(Put(adjustment, note))
  <2>1. noted \in SUBSET AdjustmentId /\ DOMAIN note = noted /\ \A i \in noted : note[i] \in notes
    BY DEF NextIds, AdjustmentId
  <2> HIDE DEF notes
  <2>. QED  BY <1>6, <2>1, SomeNotes
<1>9. DOMAIN rows = fresh /\ Flush(Put(transfer, rows), loss, Put(adjustment, note))
  BY <1>2
<1> HIDE DEF rows, notes
<1>10. \A t \in fresh : MayFollow(t, rows[t])
  <2>1. ASSUME NEW t \in fresh PROVE MayFollow(t, rows[t])
    <3>1. t \in TransferId /\ t \notin TransfersUsed
      BY NextIdsInOrder
    <3>. QED  BY <1>7, <3>1, NewFollows
  <2>. QED  BY <2>1
<1>11. \A t \in fresh : 1 .. t \subseteq fresh \cup TransfersUsed
  BY NextIdsInOrder
<1>. QED  BY <1>3, <1>8, <1>9, <1>10, <1>11, StepIsSound, TablesOK DEF LossesOK, AdjustmentsOK

LEMMA EditStep ==
  ASSUME IInv, NEW t \in TransferId, transfer[t].status = "pending",
         NEW row, row.status # "absent", Succeeds(row, transfer[t]),
         NEW ad, AdjustmentsOK(ad), Flush(PutOne(transfer, t, row), loss, ad)
  PROVE  Sound
BY EditFollows, OneRowStep, TablesOK

LEMMA SettleIsSound ==
  ASSUME IInv, NEW t \in TransferId,
         VoidTransfer(t) \/ ConfirmTransfer(t) \/ RejectTransfer(t) \/ ConfirmOutbound(t)
  PROVE  Sound
<1> DEFINE row == transfer[t]
           next == Edited(row)
<1>1. row \in Transfer /\ row.status = "pending" /\ AdjustmentsOK(adjustment)
  BY TablesOK DEF IInv, DocumentsTyped, VoidTransfer, ConfirmTransfer, RejectTransfer,
                  ConfirmOutbound, Editable
<1>2. next \in Transfer /\ next.source = row.source /\ next.sourceTeam = row.sourceTeam
      /\ next.version = row.version + 1 /\ next.status = "pending"
  BY <1>1, EditType DEF Succeeds, SameOrigin
<1> HIDE DEF next
<1>3. CASE VoidTransfer(t)
  <2>1. /\ Keeps([next EXCEPT !.status = "voided"], next)
        /\ [next EXCEPT !.status = "voided"].status = "voided"
    BY <1>2, ChangeType DEF Status, Transfer
  <2>2. Succeeds([next EXCEPT !.status = "voided"], row)
    BY <1>2, <2>1 DEF Keeps, Succeeds, SameOrigin
  <2>3. Flush(PutOne(transfer, t, [next EXCEPT !.status = "voided"]), loss, adjustment)
    BY <1>3 DEF VoidTransfer, next
  <2>. QED  BY <1>1, <2>1, <2>2, <2>3, EditStep
<1>4. CASE ConfirmTransfer(t)
  <2>1. Keeps(Received(next), next) /\ Received(next).status = "received"
    BY <1>2, EditType
  <2>2. Succeeds(Received(next), row)
    BY <1>2, <2>1 DEF Keeps, Succeeds, SameOrigin
  <2>3. Flush(PutOne(transfer, t, Received(next)), loss, adjustment)
    BY <1>4 DEF ConfirmTransfer, next
  <2>. QED  BY <1>1, <2>1, <2>2, <2>3, EditStep
<1>5. CASE RejectTransfer(t)
  <2>1. /\ Keeps([next EXCEPT !.rejected = TRUE], next)
        /\ [next EXCEPT !.rejected = TRUE].status = next.status
    BY <1>2, ChangeType DEF Status, Transfer
  <2>2. Succeeds([next EXCEPT !.rejected = TRUE], row)
    BY <1>2, <2>1 DEF Keeps, Succeeds, SameOrigin
  <2>3. Flush(PutOne(transfer, t, [next EXCEPT !.rejected = TRUE]), loss, adjustment)
    BY <1>5 DEF RejectTransfer, next
  <2>. QED  BY <1>1, <1>2, <2>1, <2>2, <2>3, EditStep
<1>6. CASE ConfirmOutbound(t)
  <2>1. /\ Keeps([next EXCEPT !.status = "dispatched"], next)
        /\ [next EXCEPT !.status = "dispatched"].status = "dispatched"
    BY <1>2, ChangeType DEF Status, Transfer
  <2>2. Succeeds([next EXCEPT !.status = "dispatched"], row)
    BY <1>2, <2>1 DEF Keeps, Succeeds, SameOrigin
  <2>3. Flush(PutOne(transfer, t, [next EXCEPT !.status = "dispatched"]), loss, adjustment)
    BY <1>6 DEF ConfirmOutbound, next
  <2>. QED  BY <1>1, <2>1, <2>2, <2>3, EditStep
<1>. QED  BY <1>3, <1>4, <1>5, <1>6

LEMMA UpdateTransferIsSound ==
  ASSUME IInv, NEW t \in TransferId, UpdateTransfer(t)
  PROVE  Sound
<1> DEFINE old == transfer[t]
           l == old.source
           available == Plus(OnHand(l), old.amount)
           next == Edited(old)
           New(a, target) == [next EXCEPT !.amount = a, !.nextTeam = target, !.rejected = FALSE]
<1> SUFFICES ASSUME NEW a \in Amounts, NEW target \in Team \cup {NoTeam}, Editable(t),
                    \/ Flush(PutOne(transfer, t, New(a, target)), loss, adjustment)
                    \/ /\ l # 0
                       /\ \E i \in AdjustmentId :
                            Flush(PutOne(transfer, t, New(a, target)), loss,
                                  PutOne(adjustment, i, ClearRow(l, available, a)))
             PROVE  Sound
  BY DEF UpdateTransfer
<1>1. old \in Transfer /\ old.status = "pending" /\ a \in [Measure -> Nat]
  BY SizesAssumption DEF IInv, DocumentsTyped, Editable
<1>2. next \in Transfer /\ next.source = old.source /\ next.sourceTeam = old.sourceTeam
      /\ next.version = old.version + 1 /\ next.status = "pending"
  BY <1>1, EditType DEF Succeeds, SameOrigin
<1> HIDE DEF next
<1>3. /\ Keeps(New(a, target), next)
      /\ New(a, target).status = next.status
  BY <1>1, <1>2, ChangeType DEF Status, Transfer
<1>4. Succeeds(New(a, target), old) /\ New(a, target).status = "pending"
  BY <1>2, <1>3 DEF Keeps, Succeeds, SameOrigin
<1> HIDE DEF New
<1>5. CASE Flush(PutOne(transfer, t, New(a, target)), loss, adjustment)
  BY <1>1, <1>4, <1>5, EditStep, TablesOK
<1>6. ASSUME l # 0, NEW i \in AdjustmentId,
             Flush(PutOne(transfer, t, New(a, target)), loss,
                   PutOne(adjustment, i, ClearRow(l, available, a)))
      PROVE  Sound
  <2>1. l \in StockIds(transfer)
    BY <1>6 DEF IInv, DrawOnLots
  <2>2. OnHand(l) \in [Measure -> Int] /\ old.amount \in [Measure -> Int]
    BY <1>1, <2>1, OnHandType DEF Transfer
  <2>3. available \in [Measure -> Int] /\ a \in [Measure -> Int]
    BY <1>1, <2>2 DEF Plus
  <2> HIDE DEF available, l
  <2>4. NoteOK(ClearRow(l, available, a))
    BY <2>1, <2>3, ClearRowOK
  <2>5. AdjustmentsOK(PutOne(adjustment, i, ClearRow(l, available, a)))
    BY <2>4, OneNote
  <2>. QED  BY <1>1, <1>4, <1>6, <2>5, EditStep
<1>. QED  BY <1>5, <1>6

LEMMA ConfirmDispatchIsSound ==
  ASSUME IInv, NEW group, ConfirmDispatch(group)
  PROVE  Sound
<1> DEFINE pending == {t \in {t \in TransferId : transfer[t].group = group} :
                         transfer[t].status = "pending"}
           rows == [t \in pending |-> Confirmed(transfer[t])]
<1>1. Flush(Put(transfer, rows), loss, adjustment)
  BY DEF ConfirmDispatch
<1>2. pending \in SUBSET TransferId /\ DOMAIN rows = pending
  OBVIOUS
<1>3. ASSUME NEW t \in pending
      PROVE  MayFollow(t, rows[t]) /\ 1 .. t \subseteq pending \cup TransfersUsed
  <2> DEFINE row == transfer[t]
             next == Edited(row)
  <2>1. t \in TransferId /\ row \in Transfer /\ row.status = "pending"
    BY DEF IInv, DocumentsTyped
  <2>2. next \in Transfer /\ next.source = row.source /\ next.sourceTeam = row.sourceTeam
      /\ next.version = row.version + 1
    BY <2>1, EditType DEF Succeeds, SameOrigin
  <2>3. rows[t] = IF row.kind \in ExternalKinds THEN [next EXCEPT !.status = "dispatched"]
                                               ELSE Received(next)
    BY DEF Confirmed
  <2> HIDE DEF next, rows
  <2>4. /\ Keeps([next EXCEPT !.status = "dispatched"], next)
        /\ [next EXCEPT !.status = "dispatched"].status = "dispatched"
        /\ Keeps(Received(next), next) /\ Received(next).status = "received"
    BY <2>2, ChangeType, EditType DEF Status, Transfer
  <2>5. Succeeds(rows[t], row) /\ rows[t].status # "absent"
    BY <2>2, <2>3, <2>4 DEF Keeps, Succeeds, SameOrigin
  <2>6. MayFollow(t, rows[t]) /\ t \in TransfersUsed
    BY <2>1, <2>5, EditFollows
  <2>7. 1 .. t - 1 \subseteq TransfersUsed
    BY <2>1, SizesAssumption DEF IInv, RowsInOrder, TransfersUsed, TransferId
  <2>. QED  BY <2>1, <2>6, <2>7, SizesAssumption DEF TransferId
<1> HIDE DEF pending, rows
<1>. QED  BY <1>1, <1>2, <1>3, StepIsSound, TablesOK DEF LossesOK, AdjustmentsOK

\* Part of a lot becomes a lot of the same team.
LEMMA NewLotStep ==
  ASSUME IInv, NEW l \in StockIds(transfer), NEW t \in TransferId, IsNext(t, TransfersUsed),
         NEW kind \in Kind, NEW a \in Amounts, NEW team, team = transfer[l].nextTeam,
         Flush(PutOne(transfer, t, Received(Document(kind, l, team, team, a))), loss, adjustment)
  PROVE  Sound
<1>1. /\ team \in Team \cup {NoTeam} /\ l \in 0 .. MaxTransfer /\ a \in [Measure -> Nat]
  BY OnHandType, SizesAssumption DEF Transfer, TransferId
<1> DEFINE row == Received(Document(kind, l, team, team, a))
<1>2. /\ row \in Transfer /\ row.source = l /\ row.sourceTeam = team
      /\ row.status = "received"
  BY <1>1, LotRowType
<1>3. Flush(PutOne(transfer, t, row), loss, adjustment)
  OBVIOUS
<1> HIDE DEF row
<1>4. MayFollow(t, row)
  BY <1>2, NewFollows DEF IsNext
<1>. QED  BY <1>3, <1>4, OneRowStep, TablesOK

LEMMA RegisterOutputsIsSound ==
  ASSUME IInv, NEW l \in StockIds(transfer), RegisterOutputs(l)
  PROVE  Sound
<1> DEFINE team == transfer[l].nextTeam
           Rows(fresh, lines) ==
             [t \in fresh |-> Received(Document("processing_output", l, team, team, lines[t].amount))]
           Note(lines) == [source |-> l, why |-> "outputs", before |-> OnHand(l),
                           after |-> SumFrom(lines, l)]
<1> SUFFICES ASSUME NEW fresh \in NextIds(TransfersUsed, MaxTransfer),
                    NEW lines \in [fresh -> [source : {l}, amount : Amounts]],
                    NEW i \in AdjustmentId,
                    Flush(Put(transfer, Rows(fresh, lines)), loss, PutOne(adjustment, i, Note(lines)))
             PROVE  Sound
  BY DEF RegisterOutputs
<1> DEFINE rows == Rows(fresh, lines)
           note == Note(lines)
<1>1. /\ team \in Team \cup {NoTeam} /\ l \in 0 .. MaxTransfer
      /\ \A t \in fresh : lines[t].amount \in [Measure -> Nat]
  BY OnHandType, SizesAssumption DEF Transfer, TransferId
<1>2. fresh \in SUBSET TransferId /\ DOMAIN lines = fresh
  BY NextIdsInOrder
<1>3. ASSUME NEW t \in fresh
      PROVE  /\ rows[t] \in Transfer /\ rows[t].source = l /\ rows[t].sourceTeam = team
             /\ rows[t].status = "received"
  <2>1. lines[t].amount \in [Measure -> Nat] /\ "processing_output" \in Kind
    BY <1>1 DEF Kind, Conversions
  <2>. QED  BY <1>1, <2>1, LotRowType
<1>4. NoteOK(note)
  <2>1. SumFrom(lines, l) \in [Measure -> Nat]
    BY <1>1, <1>2, SumFromType
  <2>2. OnHand(l) \in [Measure -> Int] /\ SumFrom(lines, l) \in [Measure -> Int]
    BY <2>1, OnHandType
  <2>. QED  BY <1>1, <2>2 DEF NoteOK, Adjustment
<1>5. DOMAIN rows = fresh /\ Flush(Put(transfer, rows), loss, PutOne(adjustment, i, note))
  OBVIOUS
<1> HIDE DEF rows, note, Rows, Note
<1>6. \A t \in fresh : MayFollow(t, rows[t])
  <2>1. ASSUME NEW t \in fresh PROVE MayFollow(t, rows[t])
    <3>1. t \in TransferId /\ t \notin TransfersUsed
      BY NextIdsInOrder
    <3>. QED  BY <1>3, <3>1, NewFollows
  <2>. QED  BY <2>1
<1>7. \A t \in fresh : 1 .. t \subseteq fresh \cup TransfersUsed
  BY NextIdsInOrder
<1>8. AdjustmentsOK(PutOne(adjustment, i, note))
  BY <1>4, OneNote
<1>. QED  BY <1>2, <1>5, <1>6, <1>7, <1>8, StepIsSound, TablesOK DEF LossesOK, AdjustmentsOK

LEMMA WorkIsSound ==
  ASSUME IInv, NEW l \in StockIds(transfer),
         CreateLoss(l) \/ RecordRecount(l) \/ Reallocate(l) \/ SplitRework(l)
  PROVE  Sound
<1>1. CASE CreateLoss(l)
  <2>1. PICK a \in Amounts, i \in LossId :
          Flush(transfer, PutOne(loss, i, [source |-> l, amount |-> a]), adjustment)
    BY <1>1 DEF CreateLoss
  <2>2. LossesOK(PutOne(loss, i, [source |-> l, amount |-> a]))
    BY OneLoss, SizesAssumption
  <2>. QED  BY <2>1, <2>2, NoRowStep, TablesOK
<1>2. CASE RecordRecount(l)
  <2>1. PICK q \in Counts, i \in AdjustmentId :
          Flush(transfer, loss, PutOne(adjustment, i, CountRow(l, q)))
    BY <1>2 DEF RecordRecount
  <2>2. AdjustmentsOK(PutOne(adjustment, i, CountRow(l, q)))
    BY CountRowOK, OneNote, SizesAssumption
  <2>. QED  BY <2>1, <2>2, NoRowStep, TablesOK
<1>3. CASE Reallocate(l)
  BY <1>3, NewLotStep DEF Reallocate, Kind
<1>4. CASE SplitRework(l)
  BY <1>4, NewLotStep DEF SplitRework, Kind, Conversions
<1>. QED  BY <1>1, <1>2, <1>3, <1>4

-----------------------------------------------------------------------------
(* The invariant is inductive.                                             *)

LEMMA NextIsSound == IInv /\ [Next]_vars => IInv' /\ [RowsMove]_vars
<1> SUFFICES ASSUME IInv, [Next]_vars PROVE IInv' /\ [RowsMove]_vars
  OBVIOUS
<1>1. CASE Next
  <2>1. CASE Enter
    BY <2>1, CreateReceiptIsSound, CreateOpeningIsSound, CreateTransferIsSound DEF Enter, Sound
  <2>2. CASE Leave
    BY <2>2, CreateDispatchIsSound DEF Leave, Sound
  <2>3. CASE Settle
    BY <2>3, UpdateTransferIsSound, SettleIsSound, ConfirmDispatchIsSound DEF Settle, Sound
  <2>4. CASE Work
    BY <2>4, WorkIsSound, RegisterOutputsIsSound DEF Work, Sound
  <2>. QED  BY <1>1, <2>1, <2>2, <2>3, <2>4 DEF Next
<1>2. CASE UNCHANGED vars
  <2>1. IInv'
    BY <1>2 DEF vars, IInv, DocumentsTyped, DrawOnLots, RowsInOrder, LineageIsSound,
                BalancesAreBooks, IsStock
  <2>. QED  BY <1>2, <2>1
<1>. QED  BY <1>1, <1>2

\* Documents are typed and ordered, lineage is sound, and every balance is the total
\* of what all rows contribute to it, in every reachable state.
THEOREM BooksAlwaysKept == Spec => []IInv
<1>1. Init => IInv
  BY InitIsSound
<1>2. IInv /\ [Next]_vars => IInv'
  BY NextIsSound
<1>. QED  BY <1>1, <1>2, PTL DEF Spec

\* Every table and every balance keeps the types models.py declares, and the balance
\* table has exactly the rows of the lots (stock_balances.apply_balances).
THEOREM TypeCorrect == Spec => []TypeOK
<1>1. IInv => TypeOK
  BY DEF IInv, DocumentsTyped, BalancesAreBooks, TypeOK
<1>. QED  BY <1>1, BooksAlwaysKept, PTL

\* A document draws on an older lot that its sending team holds.
THEOREM LineageAlwaysSound == Spec => []LineageIsSound
<1>1. IInv => LineageIsSound
  BY DEF IInv
<1>. QED  BY <1>1, BooksAlwaysKept, PTL

\* The balances kept by signed differences equal a fresh aggregation of all documents,
\* for any number of rows, lines, teams and amounts.
THEOREM BalancesAlwaysMatch == Spec => []BalancesMatchDocuments
<1>1. IInv => BalancesMatchDocuments
  <2> SUFFICES ASSUME IInv PROVE BalancesMatchDocuments
    OBVIOUS
  <2>1. /\ DOMAIN balance = StockIds(transfer)
        /\ DocumentsTyped(transfer, loss, adjustment)
    BY DEF IInv, BalancesAreBooks
  <2>2. ASSUME NEW l \in StockIds(transfer) PROVE balance[l] = ExpectedBalance(l)
    <3>1. \A c \in Column, m \in Measure : balance[l][c][m] = Expected(l, c, m)
      BY <2>1, BooksAreExpected DEF IInv, BalancesAreBooks
    <3>2. balance[l] \in [Column -> [Measure -> Int]]
      BY DEF IInv, BalancesAreBooks
    <3>. QED  BY <3>1, <3>2 DEF ExpectedBalance
  <2>. QED  BY <2>1, <2>2 DEF BalancesMatchDocuments
<1>. QED  BY <1>1, BooksAlwaysKept, PTL

\* No handler reopens, redirects or re-sources a document that was settled.
THEOREM SettledAlwaysStay == Spec => SettledDocumentsStay
<1>1. RowsMove => \A t \in TransferId :
        transfer[t].status \in {"received", "dispatched", "voided"} =>
          Standing(transfer'[t]) = Standing(transfer[t])
  BY DEF RowsMove
<1>2. IInv /\ [Next]_vars => [RowsMove]_vars
  BY NextIsSound
<1>. QED  BY <1>1, <1>2, BooksAlwaysKept, PTL DEF Spec, SettledDocumentsStay

\* Every change of a document raises its version by one.
THEOREM VersionAlwaysRaised == Spec => EveryEditRaisesVersion
<1>1. RowsMove /\ IInv => \A t \in TransferId :
        transfer[t].status # "absent" /\ transfer'[t] # transfer[t] =>
          transfer'[t].version = transfer[t].version + 1
  BY DEF RowsMove
<1>2. IInv /\ [Next]_vars => [RowsMove]_vars
  BY NextIsSound
<1>. QED  BY <1>1, <1>2, BooksAlwaysKept, PTL DEF Spec, EveryEditRaisesVersion

\* No transaction can be refused by the CHECK constraints of material_stock_balances:
\* the columns of a lot reconcile, and those that count documents stay nonnegative.
THEOREM BalanceChecksAlwaysHold == Spec => []BalanceChecksHold
<1>1. IInv => BalanceChecksHold
  <2> SUFFICES ASSUME IInv, NEW l \in StockIds(transfer), NEW m \in Measure
               PROVE  LET b(c) == balance[l][c][m]
                      IN /\ b("received") + b("adjusted")
                              = b("on_hand") + b("reserved") + b("dispatched") + b("lost")
                         /\ \A c \in {"received", "reserved", "in_transit", "dispatched", "lost"} :
                              b(c) >= 0
                         /\ b("in_transit") <= b("reserved")
    BY DEF BalanceChecksHold, IInv, BalancesAreBooks
  <2> DEFINE books(c) == Books(transfer, loss, adjustment, l, c, m)
  <2>1. \A c \in Column : balance[l][c][m] = books(c) /\ books(c) \in Int
    BY BooksType DEF IInv, BalancesAreBooks
  <2>2. books("on_hand")
          = books("received") + books("adjusted") - books("reserved") - books("dispatched") - books("lost")
    BY BooksReconcile DEF IInv
  <2>3. /\ \A c \in {"received", "reserved", "in_transit", "dispatched", "lost"} : books(c) >= 0
        /\ books("in_transit") <= books("reserved")
    BY BooksPassChecks DEF IInv
  <2> HIDE DEF books
  <2>. QED  BY <2>1, <2>2, <2>3 DEF Column
<1>. QED  BY <1>1, BooksAlwaysKept, PTL
=============================================================================
