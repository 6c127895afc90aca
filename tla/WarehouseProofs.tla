--------------------------- MODULE WarehouseProofs ---------------------------
(***************************************************************************)
(* Proofs about Warehouse, for any slots, documents, forms, materials and  *)
(* lease times: its types, that every slot keeps the promise of SlotLease, *)
(* and that the slots stay sound. They rest on what the tables of slots,   *)
(* documents and placements say of each other, which every operation       *)
(* keeps, and on what the hook of a write does to the placements.          *)
(***************************************************************************)
EXTENDS Warehouse, LedgerTotalsProofs, FiniteSetTheorems

-----------------------------------------------------------------------------
(* The sums of the hook.                                                    *)

LEMMA WarehouseBounds == MaxSlots \in Nat /\ MaxDocs \in Nat /\ Docs = 1..MaxDocs /\ Slots = 1..MaxSlots
BY TableAssumption DEF Docs, Slots

LEMMA GrownType ==
  ASSUME NEW a \in Int, NEW b \in Int
  PROVE  Grown(a, b) \in Nat /\ Grown(a, b) >= b - a /\ (b <= a => Grown(a, b) = 0)
BY DEF Grown

LEMMA StoredType ==
  ASSUME NEW rows \in [Slots -> [Docs -> Nat]], NEW l \in Docs
  PROVE  /\ Stored(rows, l) \in Nat
         /\ \A s \in Slots : rows[s][l] <= Stored(rows, l)
<1> DEFINE f == [s \in Slots |-> rows[s][l]]
<1>1. f \in [1 .. MaxSlots -> Nat]
  BY WarehouseBounds
<1>2. \A s \in Slots : f[s] = rows[s][l]
  OBVIOUS
<1> HIDE DEF f
<1>3. Total(f, MaxSlots) \in Nat /\ \A i \in 1 .. MaxSlots : f[i] <= Total(f, MaxSlots)
  BY <1>1, WarehouseBounds, TotalOfNat
<1>4. Stored(rows, l) = Total(f, MaxSlots)
  BY DEF Stored, f
<1>. QED
  BY <1>2, <1>3, <1>4, WarehouseBounds

\* A lot that is in one slot at most.
LEMMA StoredInOne ==
  ASSUME NEW rows \in [Slots -> [Docs -> Nat]], NEW l \in Docs, NEW q \in Nat,
         \A s \in Slots : rows[s][l] > 0 =>
            rows[s][l] = q /\ \A t \in Slots : rows[t][l] > 0 => t = s
  PROVE  Stored(rows, l) \in {0, q}
<1> DEFINE f == [s \in Slots |-> rows[s][l]]
<1>1. f \in [1 .. MaxSlots -> Nat] /\ f \in [1 .. MaxSlots -> Int]
  BY WarehouseBounds
<1>2. \A s \in 1 .. MaxSlots : f[s] = rows[s][l] /\ f[s] \in Nat
  BY WarehouseBounds
<1>3. Stored(rows, l) = Total(f, MaxSlots)
  BY DEF Stored
<1> HIDE DEF f
<1>4. CASE \A s \in 1 .. MaxSlots : f[s] = 0
  BY <1>1, <1>3, <1>4, WarehouseBounds, TotalOfZeros
<1>5. CASE \E s \in 1 .. MaxSlots : f[s] # 0
  <2>1. PICK s \in 1 .. MaxSlots : f[s] # 0
    BY <1>5
  <2>2. f[s] = q /\ \A t \in 1 .. MaxSlots : f[t] > 0 => t = s
    <3>1. s \in Slots /\ rows[s][l] > 0
      BY <1>2, <2>1, WarehouseBounds
    <3>2. rows[s][l] = q /\ \A t \in Slots : rows[t][l] > 0 => t = s
      BY <3>1
    <3>. QED  BY <1>2, <3>2, WarehouseBounds
  <2>3. \A t \in 1 .. MaxSlots : t # s => f[t] = 0
    BY <1>2, <2>2
  <2>4. MaxSlots \in Nat
    BY WarehouseBounds
  <2>5. Total(f, MaxSlots) = f[s]
    BY <1>1, <2>1, <2>3, <2>4, TotalOfOne
  <2>. QED  BY <1>3, <2>2, <2>5
<1>. QED
  BY <1>4, <1>5

\* What is subtracted leaves the slots in turn, and all of it leaves them, as far
\* as they have it.
LEMMA SubtractTakes ==
  ASSUME NEW p \in [Slots -> [Docs -> Nat]], NEW amount \in [Docs -> Nat], NEW l \in Docs
  PROVE  /\ \A s \in Slots : /\ Subtract(p, amount)[s][l] \in Nat
                             /\ Subtract(p, amount)[s][l] <= p[s][l]
                             /\ amount[l] = 0 => Subtract(p, amount)[s][l] = p[s][l]
         /\ Stored(Subtract(p, amount), l) = Grown(amount[l], Stored(p, l))
<1> DEFINE f == [s \in Slots |-> p[s][l]]
           g == [s \in Slots |-> Subtract(p, amount)[s][l]]
           F == RunningTotals(f, MaxSlots)
           G == RunningTotals(g, MaxSlots)
           a == amount[l]
           S == {k \in Nat : k <= MaxSlots => F[k] >= 0 /\ G[k] = Grown(a, F[k])}
<1>1. f \in [1 .. MaxSlots -> Int] /\ \A s \in 1 .. MaxSlots : f[s] = p[s][l] /\ f[s] \in Nat
  BY WarehouseBounds
<1>2. /\ F \in [0 .. MaxSlots -> Int] /\ F[0] = 0
      /\ \A i \in 1 .. MaxSlots : F[i] = F[i - 1] + f[i]
  <2> HIDE DEF f
  <2>. QED  BY <1>1, WarehouseBounds, RunningTotalsType
<1>3. \A s \in 1 .. MaxSlots :
        Subtract(p, amount)[s][l] = p[s][l] - Least(p[s][l], Grown(F[s - 1], a))
  BY WarehouseBounds DEF Subtract
<1>4. a \in Nat
  OBVIOUS
<1> HIDE DEF F, a
<1>5. \A s \in 1 .. MaxSlots : F[s - 1] \in Int
  BY <1>2, WarehouseBounds
<1>6. ASSUME NEW s \in 1 .. MaxSlots
      PROVE  g[s] = f[s] - Least(f[s], Grown(F[s - 1], a)) /\ g[s] \in Int
  <2>1. g[s] = Subtract(p, amount)[s][l] /\ f[s] = p[s][l]
    BY WarehouseBounds
  <2>2. g[s] = f[s] - Least(f[s], Grown(F[s - 1], a))
    BY <1>3, <2>1
  <2>3. f[s] \in Nat /\ F[s - 1] \in Int
    BY <1>1, <1>5
  <2> HIDE DEF f, g
  <2>. QED  BY <1>4, <2>2, <2>3 DEF Least, Grown
<1>7. g \in [1 .. MaxSlots -> Int]
  BY <1>6, WarehouseBounds
<1>8. /\ G \in [0 .. MaxSlots -> Int] /\ G[0] = 0
      /\ \A i \in 1 .. MaxSlots : G[i] = G[i - 1] + g[i]
  <2> HIDE DEF g
  <2>. QED  BY <1>7, WarehouseBounds, RunningTotalsType
<1> HIDE DEF f, g, G
<1>9. 0 \in S
  BY <1>2, <1>4, <1>8 DEF Grown
<1>10. ASSUME NEW k \in Nat, k \in S PROVE k + 1 \in S
  <2>1. SUFFICES ASSUME k + 1 <= MaxSlots
                 PROVE  F[k + 1] >= 0 /\ G[k + 1] = Grown(a, F[k + 1])
    OBVIOUS
  <2>2. F[k] \in Int /\ F[k] >= 0 /\ G[k] = Grown(a, F[k]) /\ k + 1 \in 1 .. MaxSlots
    BY <1>2, <1>10, <2>1, WarehouseBounds
  <2>3. f[k + 1] \in Nat /\ F[k + 1] = F[k] + f[k + 1] /\ G[k + 1] = G[k] + g[k + 1]
        /\ g[k + 1] = f[k + 1] - Least(f[k + 1], Grown(F[k], a))
    BY <1>1, <1>2, <1>6, <1>8, <2>2
  <2>. QED  BY <1>4, <2>2, <2>3 DEF Grown, Least
<1> HIDE DEF S
<1>11. S = Nat
  BY <1>9, <1>10, SetInduction DEF S
<1>12. F[MaxSlots] >= 0 /\ G[MaxSlots] = Grown(a, F[MaxSlots])
  <2>1. MaxSlots \in S /\ MaxSlots <= MaxSlots
    BY <1>11, WarehouseBounds
  <2>. QED  BY <2>1 DEF S
<1>13. Stored(p, l) = F[MaxSlots] /\ Stored(Subtract(p, amount), l) = G[MaxSlots]
  BY DEF Stored, Total, F, G, f, g
<1>14. \A k \in 0 .. MaxSlots : F[k] >= 0
  BY <1>11, WarehouseBounds DEF S
<1>15. ASSUME NEW s \in 1 .. MaxSlots
       PROVE  /\ Subtract(p, amount)[s][l] \in Nat /\ Subtract(p, amount)[s][l] <= p[s][l]
              /\ a = 0 => Subtract(p, amount)[s][l] = p[s][l]
  <2>1. F[s - 1] \in Nat /\ f[s] \in Nat /\ f[s] = p[s][l]
    BY <1>1, <1>2, <1>14, WarehouseBounds
  <2>. QED  BY <1>3, <1>4, <2>1 DEF Least, Grown
<1>. QED
  BY <1>12, <1>13, <1>15, WarehouseBounds DEF a

-----------------------------------------------------------------------------
(* What the tables say of each other, now.                                  *)

DocsFit == doc \in [Docs -> DocType]
RowsFit == placed \in [Slots -> [Docs -> Nat]]

\* A claim lasts no longer than its deadline, and counts on a slot in use only.
LeaseAgrees(row) ==
    IF row.key = NoForm THEN row.until = 0 /\ row.deadline = NoTime
    ELSE /\ row.deadline >= 0 /\ row.until <= row.deadline
         /\ row.until > 0 => row.active

WhatsFit == "whats" \in DOMAIN left /\ left.whats \subseteq Materials

TablesAgree ==
    /\ FiledInOrder(doc) /\ DocsAgree(doc)
    /\ SlotsAgree(slot, placed) /\ \A s \in Slots : LeaseAgrees(slot[s])
    /\ RowsAgree(doc, placed)

IInv == TypeOK /\ WhatsFit /\ TablesAgree

LEMMA RowFields ==
  ASSUME NEW docs \in [Docs -> DocType], NEW d \in Docs
  PROVE  /\ docs[d] \in DocType
         /\ docs[d].kind \in {"none", "receipt", "transfer", "outbound", "reallocation"}
         /\ docs[d].source \in 0..MaxDocs /\ docs[d].to \in {"warehouse", "team", "outside"}
         /\ docs[d].what \in Materials /\ docs[d].quantity \in Nat
         /\ docs[d].status \in {"pending", "received", "dispatched", "voided"}
         /\ docs[d].location \in Names \union {NoName}
         /\ docs[d].lost \in Nat /\ docs[d].adjusted \in Int
         /\ docs[d].source # 0 => docs[d].source \in Docs
<1>1. docs[d] \in DocType
  OBVIOUS
<1>. QED
  BY <1>1, WarehouseBounds DEF DocType

LEMMA PhysicalOutType ==
  ASSUME NEW docs \in [Docs -> DocType], NEW d \in Docs
  PROVE  PhysicalOut(docs, d) \in Nat /\ (docs[d].source = 0 => PhysicalOut(docs, d) = 0)
BY RowFields DEF PhysicalOut

LEMMA OutColumn ==
  ASSUME NEW docs \in [Docs -> DocType], NEW l \in Docs
  PROVE  [d \in Docs |-> When(docs[d].source = l, PhysicalOut(docs, d))] \in [1 .. MaxDocs -> Int]
BY PhysicalOutType, WarehouseBounds DEF When

LEMMA InsideType ==
  ASSUME NEW docs \in [Docs -> DocType], NEW l \in Docs
  PROVE  Inside(docs, l) \in Int
<1> DEFINE f == [d \in Docs |-> When(docs[d].source = l, PhysicalOut(docs, d))]
<1>1. f \in [1 .. MaxDocs -> Int]
  BY OutColumn
<1> HIDE DEF f
<1>2. Total(f, MaxDocs) \in Int
  BY <1>1, WarehouseBounds, TotalType
<1>. QED
  BY <1>2, RowFields DEF Inside, f

\* What a write takes from the slots of a lot is at least what leaves the building.
LEMMA WithdrawnCovers ==
  ASSUME DocsFit, NEW after \in [Docs -> DocType], NEW l \in Docs
  PROVE  /\ Withdrawn(after, l) \in Nat
         /\ /\ after[l].quantity >= doc[l].quantity \/ ~IsLot(l)
            /\ after[l].lost <= doc[l].lost /\ after[l].adjusted >= doc[l].adjusted
            /\ \A d \in Docs : after[d].source = l => PhysicalOut(after, d) <= PhysicalOut(doc, d)
            => Withdrawn(after, l) = 0
         /\ /\ IsLot(l) /\ Stocked(after, l)
            /\ \A d \in Docs : after[d].source = doc[d].source \/ doc[d].source = 0
            => Withdrawn(after, l) >= Inside(doc, l) - Inside(after, l)
<1> DEFINE f == [d \in Docs |-> When(doc[d].source = l, PhysicalOut(doc, d))]
           g == [d \in Docs |-> When(after[d].source = l, PhysicalOut(after, d))]
           h == [d \in Docs |-> When(after[d].source = l,
                                     Grown(PhysicalOut(doc, d), PhysicalOut(after, d)))]
           w == [d \in Docs |-> g[d] - f[d]]
           r == [d \in Docs |-> h[d] - w[d]]
<1>1. \A d \in Docs : PhysicalOut(doc, d) \in Nat /\ PhysicalOut(after, d) \in Nat
  BY PhysicalOutType DEF DocsFit
<1>2. ASSUME NEW d \in Docs
      PROVE  /\ f[d] \in Nat /\ g[d] \in Nat /\ h[d] \in Nat
             /\ after[d].source = l => h[d] = Grown(PhysicalOut(doc, d), PhysicalOut(after, d))
             /\ after[d].source # l => h[d] = 0
  BY <1>1 DEF When, Grown
<1>3. /\ f \in [1 .. MaxDocs -> Int] /\ g \in [1 .. MaxDocs -> Int] /\ h \in [1 .. MaxDocs -> Int]
      /\ h \in [1 .. MaxDocs -> Nat]
  BY <1>2, WarehouseBounds
<1>4. /\ Inside(doc, l) = doc[l].quantity + doc[l].adjusted - doc[l].lost - Total(f, MaxDocs)
      /\ Inside(after, l) = after[l].quantity + after[l].adjusted - after[l].lost - Total(g, MaxDocs)
  BY DEF Inside
<1>5. Withdrawn(after, l) =
        (IF IsLot(l) /\ after[l].status = "received"
           THEN Grown(after[l].quantity, doc[l].quantity) ELSE 0)
        + Total(h, MaxDocs) + Grown(doc[l].lost, after[l].lost)
        + Grown(after[l].adjusted, doc[l].adjusted)
  BY DEF Withdrawn
<1>6. ASSUME \A d \in Docs : after[d].source = doc[d].source \/ doc[d].source = 0
      PROVE  Total(g, MaxDocs) - Total(f, MaxDocs) <= Total(h, MaxDocs)
  <2>1. ASSUME NEW d \in Docs PROVE h[d] >= g[d] - f[d]
    <3>1. doc[d].source = 0 => PhysicalOut(doc, d) = 0
      BY PhysicalOutType DEF DocsFit
    <3>2. l # 0
      BY WarehouseBounds
    <3>. QED  BY <1>1, <1>6, <3>1, <3>2 DEF When, Grown
  <2>2. /\ w \in [1 .. MaxDocs -> Int] /\ \A d \in 1 .. MaxDocs : w[d] = g[d] - f[d]
        /\ r \in [1 .. MaxDocs -> Nat] /\ \A d \in 1 .. MaxDocs : r[d] = h[d] - w[d]
    <3> HIDE DEF f, g, h
    <3>1. \A d \in 1 .. MaxDocs : f[d] \in Nat /\ g[d] \in Nat /\ h[d] \in Nat /\ h[d] >= g[d] - f[d]
      BY <1>2, <2>1, WarehouseBounds
    <3>. QED  BY <3>1, WarehouseBounds
  <2> HIDE DEF f, g, h, w, r
  <2>3. r \in [1 .. MaxDocs -> Int]
    BY <2>2
  <2>4. Total(w, MaxDocs) = Total(g, MaxDocs) - Total(f, MaxDocs)
    BY <1>3, <2>2, WarehouseBounds, TotalSubtracts
  <2>5. Total(r, MaxDocs) = Total(h, MaxDocs) - Total(w, MaxDocs)
    BY <1>3, <2>2, <2>3, WarehouseBounds, TotalSubtracts
  <2>6. Total(r, MaxDocs) \in Nat
    BY <2>2, WarehouseBounds, TotalOfNat
  <2>7. Total(f, MaxDocs) \in Int /\ Total(g, MaxDocs) \in Int /\ Total(h, MaxDocs) \in Int
    BY <1>3, WarehouseBounds, TotalType
  <2>. QED  BY <2>4, <2>5, <2>6, <2>7
<1>7. ASSUME \A d \in Docs : after[d].source = l => PhysicalOut(after, d) <= PhysicalOut(doc, d)
      PROVE  Total(h, MaxDocs) = 0
  <2>1. \A d \in 1 .. MaxDocs : h[d] = 0
    BY <1>1, <1>2, <1>7, WarehouseBounds DEF Grown
  <2> HIDE DEF h
  <2>. QED  BY <1>3, <2>1, WarehouseBounds, TotalOfZeros
<1> HIDE DEF f, g, h
<1>8. Total(h, MaxDocs) \in Nat
  BY <1>3, WarehouseBounds, TotalOfNat
<1>9. Total(f, MaxDocs) \in Int /\ Total(g, MaxDocs) \in Int
  BY <1>3, WarehouseBounds, TotalType
<1>10. /\ doc[l].quantity \in Nat /\ doc[l].lost \in Nat /\ doc[l].adjusted \in Int
       /\ after[l].quantity \in Nat /\ after[l].lost \in Nat /\ after[l].adjusted \in Int
  BY RowFields DEF DocsFit
<1>11. Withdrawn(after, l) \in Nat
  BY <1>5, <1>8, <1>10 DEF Grown
<1>12. ASSUME /\ after[l].quantity >= doc[l].quantity \/ ~IsLot(l)
              /\ after[l].lost <= doc[l].lost /\ after[l].adjusted >= doc[l].adjusted
              /\ \A d \in Docs : after[d].source = l => PhysicalOut(after, d) <= PhysicalOut(doc, d)
       PROVE  Withdrawn(after, l) = 0
  BY <1>5, <1>7, <1>10, <1>12 DEF Grown
<1>13. ASSUME IsLot(l), Stocked(after, l),
              \A d \in Docs : after[d].source = doc[d].source \/ doc[d].source = 0
       PROVE  Withdrawn(after, l) >= Inside(doc, l) - Inside(after, l)
  <2>1. Total(g, MaxDocs) - Total(f, MaxDocs) <= Total(h, MaxDocs)
    BY <1>6, <1>13
  <2>2. after[l].status = "received"
    BY <1>13 DEF Stocked
  <2>. QED  BY <1>4, <1>5, <1>8, <1>9, <1>10, <1>13, <2>1, <2>2 DEF Grown
<1>. QED
  BY <1>11, <1>12, <1>13

-----------------------------------------------------------------------------
(* What a write of documents does to the placements.                       *)

\* A lot stays one: what it is, where it came from and where it was put.
LotRow(old, r) ==
    /\ r \in DocType /\ r.kind = old.kind /\ r.source = old.source /\ r.to = old.to
    /\ r.what = old.what /\ r.status = old.status /\ r.location = old.location

\* Another document is filed or changed as the operations do it.
OtherRow(old, r) ==
    /\ r \in DocType /\ r.lost = 0 /\ r.adjusted = 0
    /\ r.source = old.source \/ old.source = 0
    /\ r.source # 0 => IsLot(r.source) /\ (r.status = "pending" => r.to # "warehouse")
    /\ r.kind = "outbound" => r.to # "warehouse"
    /\ r.status = "pending" /\ r.location # NoName => r.to = "warehouse"
    /\ \/ /\ old.location = NoName
          /\ r.location # NoName =>
               \A s \in Slots : slot[s].name = r.location => slot[s].active
       \/ /\ old.status = "pending" /\ r.location = old.location /\ r.to = "warehouse"
          /\ r.status \in {"pending", "received", "voided"}

Orderly(after) ==
    /\ after = [d \in Docs |-> after[d]]
    /\ \A d \in Docs : IF IsLot(d) THEN LotRow(doc[d], after[d])
                       ELSE after[d] = doc[d] \/ OtherRow(doc[d], after[d])

\* The documents that a write puts into a slot.
Enters(after, d, s) ==
    /\ ~IsLot(d) /\ doc[d].location = NoName
    /\ slot[s].name = after[d].location /\ after[d].location # NoName
    /\ after[d].to = "warehouse" /\ after[d].status \in {"pending", "received"}

LEMMA OrderlyFits ==
  ASSUME DocsFit, DocsAgree(doc), NEW after, Orderly(after)
  PROVE  /\ after \in [Docs -> DocType]
         /\ \A d \in Docs : IsLot(d) => Stocked(after, d)
         /\ \A d \in Docs : after[d].source = doc[d].source \/ doc[d].source = 0
         /\ \A d \in Docs : after[d].source # 0 => IsLot(after[d].source)
<1>1. ASSUME NEW d \in Docs
      PROVE  /\ after[d] \in DocType /\ (IsLot(d) => Stocked(after, d))
             /\ after[d].source = doc[d].source \/ doc[d].source = 0
             /\ after[d].source # 0 => IsLot(after[d].source)
  <2>1. doc[d] \in DocType /\ (doc[d].source # 0 => IsLot(doc[d].source))
    BY DEF DocsFit, DocsAgree, IsLot
  <2>2. CASE IsLot(d)
    BY <2>1, <2>2 DEF Orderly, LotRow, IsLot, Stocked
  <2>3. CASE ~IsLot(d)
    BY <2>1, <2>3 DEF Orderly, OtherRow
  <2>. QED  BY <2>2, <2>3
<1>. QED
  BY <1>1 DEF Orderly

LEMMA OrderlyDocsAgree ==
  ASSUME DocsFit, DocsAgree(doc), NEW after, Orderly(after)
  PROVE  DocsAgree(after)
<1>1. ASSUME NEW d \in Docs
      PROVE  /\ after[d].source # 0 => /\ Stocked(after, after[d].source)
                                       /\ after[d].status = "pending" => after[d].to # "warehouse"
             /\ ~Stocked(after, d) => after[d].lost = 0 /\ after[d].adjusted = 0
             /\ after[d].kind = "outbound" => after[d].to # "warehouse"
             /\ after[d].status = "pending" /\ after[d].location # NoName => after[d].to = "warehouse"
  <2>1. after[d].source # 0 => Stocked(after, after[d].source)
    BY OrderlyFits, RowFields
  <2>2. /\ doc[d].source # 0 /\ doc[d].status = "pending" => doc[d].to # "warehouse"
        /\ ~IsLot(d) => doc[d].lost = 0 /\ doc[d].adjusted = 0
        /\ doc[d].kind = "outbound" => doc[d].to # "warehouse"
        /\ doc[d].status = "pending" /\ doc[d].location # NoName => doc[d].to = "warehouse"
    BY DEF DocsAgree, IsLot
  <2>3. CASE IsLot(d)
    BY <2>1, <2>2, <2>3 DEF Orderly, LotRow, IsLot, Stocked
  <2>4. CASE ~IsLot(d)
    BY <2>1, <2>2, <2>4 DEF Orderly, OtherRow, IsLot
  <2>. QED  BY <2>3, <2>4
<1>. QED
  BY <1>1 DEF DocsAgree

\* Where a document is after the arrivals and departures of a write.
LEMMA ArrivedRow ==
  ASSUME DocsFit, RowsFit, DocsAgree(doc), RowsAgree(doc, placed), NEW after, Orderly(after),
         NEW d \in Docs, NEW s \in Slots
  PROVE  Arrived(after, placed)[s][d] =
           IF IsLot(d) \/ after[d] = doc[d] THEN placed[s][d]
           ELSE IF doc[d].location = NoName
                THEN (IF Enters(after, d, s) THEN after[d].quantity ELSE 0)
                ELSE IF after[d].status = "voided" \/ placed[s][d] = 0 THEN 0
                ELSE after[d].quantity
<1>1. /\ doc[d] \in DocType /\ after[d] \in DocType /\ placed[s][d] \in Nat
      /\ doc[d].status \in {"pending", "received", "dispatched", "voided"}
      /\ after[d].status \in {"pending", "received", "dispatched", "voided"}
  BY OrderlyFits, RowFields DEF DocsFit, RowsFit
<1>2. placed[s][d] > 0 =>
         /\ doc[d].to = "warehouse" /\ doc[d].status \in {"pending", "received"}
         /\ doc[d].status = "pending" => doc[d].location # NoName /\ placed[s][d] = doc[d].quantity
  BY DEF RowsAgree
<1> DEFINE stays == after[d].to = "warehouse" /\ after[d].status \in {"pending", "received"}
                    /\ after[d].location # NoName
           first == stays /\ after[d].location # doc[d].location
           gone == doc[d].to = "warehouse" /\ doc[d].status # "voided" /\ after[d].status = "voided"
           there == slot[s].name = after[d].location
           kept == stays /\ ~first /\ doc[d].status = "pending" /\ placed[s][d] > 0
<1>3. Arrived(after, placed)[s][d] =
        IF gone THEN 0
        ELSE IF first THEN (IF there THEN after[d].quantity ELSE 0)
        ELSE IF kept THEN after[d].quantity ELSE placed[s][d]
  BY DEF Arrived
<1>4. CASE IsLot(d)
  <2>1. ~gone /\ ~first /\ ~kept
    BY <1>4 DEF Orderly, LotRow, IsLot, Stocked
  <2>. QED  BY <1>3, <1>4, <2>1
<1>5. CASE ~IsLot(d) /\ after[d] = doc[d]
  <2>1. ~gone /\ ~first /\ (kept => placed[s][d] = after[d].quantity)
    BY <1>2, <1>5
  <2>. QED  BY <1>3, <1>5, <2>1
<1>6. CASE ~IsLot(d) /\ after[d] # doc[d] /\ doc[d].location = NoName
  <2>1. placed[s][d] = 0
    BY <1>1, <1>2, <1>6 DEF IsLot, Stocked
  <2>2. ~kept /\ (first <=> stays) /\ (stays => ~gone) /\ (Enters(after, d, s) <=> stays /\ there)
    BY <1>6, <2>1 DEF Enters
  <2> HIDE DEF stays, first, gone, there, kept
  <2>. QED  BY <1>3, <1>6, <2>1, <2>2
<1>7. CASE ~IsLot(d) /\ after[d] # doc[d] /\ doc[d].location # NoName
  <2>1. /\ doc[d].status = "pending" /\ after[d].location = doc[d].location
        /\ after[d].to = "warehouse" /\ after[d].status \in {"pending", "received", "voided"}
        /\ doc[d].to = "warehouse"
    BY <1>7 DEF Orderly, OtherRow, DocsAgree
  <2>2. /\ gone <=> after[d].status = "voided"
        /\ ~first
        /\ kept <=> (after[d].status # "voided" /\ placed[s][d] # 0)
    BY <1>1, <1>7, <2>1
  <2> HIDE DEF stays, first, gone, there, kept
  <2>. QED  BY <1>1, <1>3, <1>7, <2>2
<1>. QED
  BY <1>4, <1>5, <1>6, <1>7

\* A write takes stock of lots only, and as much as leaves the building.
LEMMA WriteTakes ==
  ASSUME DocsFit, RowsFit, DocsAgree(doc), RowsAgree(doc, placed), NEW after, Orderly(after),
         Write(after)
  PROVE  /\ placed' \in [Slots -> [Docs -> Nat]]
         /\ \A d \in Docs, s \in Slots :
              /\ ~IsLot(d) => placed'[s][d] = Arrived(after, placed)[s][d]
              /\ IsLot(d) => placed'[s][d] <= placed[s][d]
              /\ /\ IsLot(d) /\ after[d] = doc[d]
                 /\ \A e \in Docs : after[e].source = d => PhysicalOut(after, e) <= PhysicalOut(doc, e)
                 => placed'[s][d] = placed[s][d]
         /\ \A l \in Docs : IsLot(l) => Stored(placed', l) <= Grown(0, Inside(after, l))
<1> DEFINE p == Arrived(after, placed)
           amount == [l \in Docs |-> Withdrawn(after, l)]
<1>1. after \in [Docs -> DocType] /\ \A d \in Docs : doc[d] \in DocType /\ after[d] \in DocType
  BY OrderlyFits DEF DocsFit
<1>2. p \in [Slots -> [Docs -> Nat]]
  <2>1. ASSUME NEW s \in Slots, NEW d \in Docs PROVE p[s][d] \in Nat
    <3>1. placed[s][d] \in Nat /\ after[d].quantity \in Nat
      BY <1>1, RowFields DEF RowsFit
    <3>. QED  BY <3>1, ArrivedRow
  <2>2. p = [s \in Slots |-> [d \in Docs |-> p[s][d]]]
    BY DEF Arrived
  <2>. QED  BY <2>1, <2>2
<1>3. amount \in [Docs -> Nat] /\ \A l \in Docs : amount[l] = Withdrawn(after, l)
  BY <1>1, WithdrawnCovers
<1>4. placed' = Subtract(p, amount)
  BY DEF Write
<1>5. Subtract(p, amount) = [s \in Slots |-> [d \in Docs |-> Subtract(p, amount)[s][d]]]
  BY DEF Subtract
<1> HIDE DEF p, amount
<1>6. ASSUME NEW d \in Docs
      PROVE  /\ \A s \in Slots : /\ placed'[s][d] \in Nat /\ placed'[s][d] <= p[s][d]
                                 /\ amount[d] = 0 => placed'[s][d] = p[s][d]
             /\ Stored(placed', d) = Grown(amount[d], Stored(p, d))
  BY <1>2, <1>3, <1>4, SubtractTakes
<1>7. placed' \in [Slots -> [Docs -> Nat]]
  BY <1>4, <1>5, <1>6
<1>8. ASSUME NEW d \in Docs, ~IsLot(d) PROVE amount[d] = 0
  <2>1. d # 0 /\ \A e \in Docs : after[e].source # d
    BY <1>8, OrderlyFits, WarehouseBounds
  <2>2. doc[d].lost = 0 /\ doc[d].adjusted = 0
    BY <1>8 DEF DocsAgree, IsLot
  <2>3. after[d].lost = 0 /\ after[d].adjusted = 0
    BY <1>8, <2>2 DEF Orderly, OtherRow
  <2>4. doc[d].lost = after[d].lost /\ doc[d].adjusted = after[d].adjusted
        /\ after[d].lost <= doc[d].lost /\ after[d].adjusted >= doc[d].adjusted
    BY <2>2, <2>3
  <2>. QED  BY <1>1, <1>3, <1>8, <2>1, <2>4, WithdrawnCovers
<1>9. ASSUME NEW l \in Docs, IsLot(l)
      PROVE  /\ \A s \in Slots : p[s][l] = placed[s][l]
             /\ Stored(placed', l) <= Grown(0, Inside(after, l))
  <2>1. \A s \in Slots : p[s][l] = placed[s][l]
    BY <1>9, ArrivedRow DEF p
  <2>2. Stored(p, l) = Stored(placed, l)
    <3>1. [s \in Slots |-> p[s][l]] = [s \in Slots |-> placed[s][l]]
      BY <2>1
    <3>. QED  BY <3>1 DEF Stored
  <2>3. Stored(placed, l) <= Grown(0, Inside(doc, l))
    BY <1>9 DEF RowsAgree, IsLot
  <2>4. amount[l] >= Inside(doc, l) - Inside(after, l) /\ amount[l] \in Nat
    BY <1>1, <1>3, <1>9, OrderlyFits, WithdrawnCovers
  <2>5. Stored(placed, l) \in Nat /\ Inside(doc, l) \in Int /\ Inside(after, l) \in Int
    BY <1>1, StoredType, InsideType DEF RowsFit, DocsFit
  <2>6. Stored(placed', l) = Grown(amount[l], Stored(placed, l))
    BY <1>6, <2>2
  <2>. QED  BY <2>1, <2>3, <2>4, <2>5, <2>6 DEF Grown
<1>10. ASSUME NEW d \in Docs, IsLot(d), after[d] = doc[d],
              \A e \in Docs : after[e].source = d => PhysicalOut(after, e) <= PhysicalOut(doc, e)
       PROVE  amount[d] = 0
  <2>1. after[d].quantity >= doc[d].quantity /\ after[d].lost <= doc[d].lost
        /\ after[d].adjusted >= doc[d].adjusted
    BY <1>1, <1>10, RowFields DEF DocsFit
  <2>. QED  BY <1>1, <1>3, <1>10, <2>1, WithdrawnCovers
<1>. QED
  BY <1>6, <1>7, <1>8, <1>9, <1>10 DEF p

\* What is in a slot after a write was there before, or enters it.
LEMMA WriteFills ==
  ASSUME DocsFit, RowsFit, DocsAgree(doc), RowsAgree(doc, placed), NEW after, Orderly(after),
         Write(after), NEW d \in Docs, NEW s \in Slots, placed'[s][d] > 0
  PROVE  Enters(after, d, s) \/ placed[s][d] > 0
<1>1. placed[s][d] \in Nat /\ placed'[s][d] \in Nat
  BY WriteTakes DEF RowsFit
<1>2. CASE IsLot(d)
  BY <1>1, <1>2, WriteTakes
<1>3. CASE ~IsLot(d)
  <2>1. placed'[s][d] = Arrived(after, placed)[s][d]
    BY <1>3, WriteTakes
  <2>. QED  BY <1>1, <1>3, <2>1, ArrivedRow
<1>. QED
  BY <1>2, <1>3

\* A write keeps what the placements say of the documents and of the slots.
LEMMA WriteAgrees ==
  ASSUME DocsFit, RowsFit, DocsAgree(doc), RowsAgree(doc, placed), SlotsAgree(slot, placed),
         NEW after, Orderly(after), Write(after)
  PROVE  RowsAgree(after, placed') /\ SlotsAgree(slot, placed')
<1>1. /\ after \in [Docs -> DocType] /\ \A d \in Docs : doc[d] \in DocType /\ after[d] \in DocType
      /\ placed' \in [Slots -> [Docs -> Nat]]
  BY OrderlyFits, WriteTakes DEF DocsFit
<1>2. ASSUME NEW s \in Slots, NEW d \in Docs, placed'[s][d] > 0
      PROVE  /\ after[d].to = "warehouse" /\ after[d].status \in {"pending", "received"}
             /\ ~IsLot(d) =>
                  /\ after[d].location # NoName /\ placed'[s][d] = after[d].quantity
                  /\ \A t \in Slots : placed'[t][d] > 0 => t = s
  <2>1. CASE IsLot(d)
    BY <2>1, OrderlyFits DEF Stocked
  <2>2. CASE ~IsLot(d)
    <3>1. \A t \in Slots : placed'[t][d] = Arrived(after, placed)[t][d] /\ placed[t][d] \in Nat
      BY <2>2, WriteTakes DEF RowsFit
    <3>2. \A t \in Slots : placed[t][d] > 0 =>
             /\ doc[d].to = "warehouse" /\ doc[d].status = "pending" /\ doc[d].location # NoName
             /\ placed[t][d] = doc[d].quantity
             /\ \A u \in Slots : placed[u][d] > 0 => u = t
      BY <2>2 DEF RowsAgree, IsLot, Stocked
    <3>3. CASE after[d] = doc[d]
      <4>1. \A t \in Slots : placed'[t][d] = placed[t][d]
        BY <3>1, <3>3, ArrivedRow
      <4>. QED  BY <1>2, <3>2, <3>3, <4>1
    <3>4. CASE after[d] # doc[d] /\ doc[d].location = NoName
      <4>1. \A t \in Slots : placed'[t][d] = IF Enters(after, d, t) THEN after[d].quantity ELSE 0
        BY <2>2, <3>1, <3>4, ArrivedRow
      <4>2. \A t \in Slots : placed'[t][d] > 0 => Enters(after, d, t) /\ placed'[t][d] = after[d].quantity
        BY <4>1
      <4>. QED  BY <1>2, <2>2, <4>2 DEF Enters, SlotsAgree
    <3>5. CASE after[d] # doc[d] /\ doc[d].location # NoName
      <4>1. OtherRow(doc[d], after[d])
        BY <2>2, <3>5 DEF Orderly
      <4>2. after[d].location = doc[d].location /\ after[d].to = "warehouse"
            /\ after[d].status \in {"pending", "received", "voided"}
        BY <3>5, <4>1 DEF OtherRow
      <4>3. \A t \in Slots : placed'[t][d] =
              IF after[d].status = "voided" \/ placed[t][d] = 0 THEN 0 ELSE after[d].quantity
        BY <2>2, <3>1, <3>5, ArrivedRow
      <4>4. \A t \in Slots : placed'[t][d] > 0 => placed[t][d] > 0
        BY <3>1, <4>3
      <4>5. after[d].status # "voided" /\ placed'[s][d] = after[d].quantity
        BY <1>2, <4>3
      <4>. QED  BY <1>2, <2>2, <3>2, <3>5, <4>2, <4>4, <4>5
    <3>. QED  BY <3>3, <3>4, <3>5
  <2>. QED  BY <2>1, <2>2
<1>3. ASSUME NEW s \in Slots, NEW d \in Docs, placed'[s][d] > 0, after[d].status = "pending"
      PROVE  ~IsLot(d)
  BY <1>3, OrderlyFits DEF Stocked
<1>4. ASSUME NEW l \in Docs, Stocked(after, l)
      PROVE  Stored(placed', l) <= Grown(0, Inside(after, l))
  <2>1. CASE IsLot(l)
    BY <2>1, WriteTakes
  <2>2. CASE ~IsLot(l)
    <3>1. Stored(placed', l) \in {0, after[l].quantity} /\ after[l].quantity \in Nat
      BY <1>1, <1>2, <2>2, StoredInOne, RowFields
    <3>2. after[l] # doc[l]
      BY <1>4, <2>2 DEF IsLot, Stocked
    <3>3. after[l].lost = 0 /\ after[l].adjusted = 0
      BY <2>2, <3>2 DEF Orderly, OtherRow
    <3> DEFINE f == [d \in Docs |-> When(after[d].source = l, PhysicalOut(after, d))]
    <3>4. \A d \in Docs : after[d].source # l
      BY <2>2, OrderlyFits, WarehouseBounds
    <3>5. f \in [1 .. MaxDocs -> Int] /\ \A d \in 1 .. MaxDocs : f[d] = 0
      BY <1>1, <3>4, OutColumn, WarehouseBounds DEF When
    <3> HIDE DEF f
    <3>6. Total(f, MaxDocs) = 0
      BY <3>5, WarehouseBounds, TotalOfZeros
    <3>7. Inside(after, l) = after[l].quantity
      BY <3>1, <3>3, <3>6 DEF Inside, f
    <3>. QED  BY <3>1, <3>7 DEF Grown
  <2>. QED  BY <2>1, <2>2
<1>5. RowsAgree(after, placed')
  BY <1>2, <1>3, <1>4 DEF RowsAgree
<1>6. ASSUME NEW s \in Slots, NEW d \in Docs, placed'[s][d] > 0 PROVE slot[s].active
  <2>1. CASE placed[s][d] > 0
    BY <2>1 DEF SlotsAgree
  <2>2. CASE Enters(after, d, s) /\ ~(placed[s][d] > 0)
    <3>1. after[d] # doc[d] /\ ~IsLot(d) /\ doc[d].location = NoName
      BY <2>2 DEF Enters
    <3>. QED  BY <2>2, <3>1 DEF Orderly, OtherRow, Enters
  <2>. QED  BY <1>6, <2>1, <2>2, WriteFills
<1>. QED
  BY <1>5, <1>6 DEF SlotsAgree

-----------------------------------------------------------------------------
(* The writes of the operations.                                           *)

\* A slot that a write takes was claimed, and keeps what it holds; what enters a
\* slot enters one that the write takes.
Taking(after, names) ==
    /\ \A s \in Slots : slot[s].name \in names \ {NoName} =>
         /\ Leased(s)
         /\ \A d \in In(s) :
              /\ after[d] = doc[d]
              /\ \A e \in Docs : after[e].source = d => PhysicalOut(after, e) <= PhysicalOut(doc, e)
    /\ \A s \in Slots, d \in Docs : Enters(after, d, s) => slot[s].name \in names

\* A document that enters a slot, or changes in it, is of the material there.
Suited(after) ==
    \A s \in Slots : \A d, e \in Docs :
      /\ d \in In(s) \/ Enters(after, d, s)
      /\ e \in In(s) \/ Enters(after, e, s)
      => \/ after[d].what = after[e].what
         \/ /\ d \in In(s) /\ e \in In(s)
            /\ after[d].what = doc[d].what /\ after[e].what = doc[e].what

Sensible(after, names) ==
    Orderly(after) /\ FiledInOrder(after) /\ Taking(after, names) /\ Suited(after)

LEMMA SpendKeepsWhats ==
  ASSUME WhatsFit, NEW kind, kind # "whats", Spend(kind)
  PROVE  WhatsFit'
BY DEF WhatsFit, Spend

LEMMA SlotFields ==
  ASSUME slot \in [Slots -> SlotType], NEW s \in Slots
  PROVE  /\ slot[s] \in SlotType /\ slot[s].name \in Names \union {NoName} /\ slot[s].active \in BOOLEAN
         /\ slot[s].version \in Nat \ {0} /\ slot[s].key \in Forms \union {NoForm}
         /\ slot[s].until \in 0..Lease /\ slot[s].deadline \in NoTime..Longest
<1>1. slot[s] \in SlotType
  OBVIOUS
<1>. QED
  BY <1>1 DEF SlotType

\* The next document is the first that is not filed.
LEMMA NextDocFree ==
  ASSUME FiledInOrder(doc)
  PROVE  /\ NextDoc \in Nat \ {0}
         /\ \A d \in Docs : IF d < NextDoc THEN doc[d].kind # "none" ELSE doc[d] = NoDoc
         /\ NextDoc <= MaxDocs + 1
<1>1. PICK k \in 0..MaxDocs : \A d \in Docs : IF d <= k THEN doc[d].kind # "none" ELSE doc[d] = NoDoc
  BY DEF FiledInOrder
<1>2. {d \in Docs : doc[d].kind # "none"} = 1..k
  <2>1. k \in Nat /\ k <= MaxDocs /\ NoDoc.kind = "none"
    BY WarehouseBounds DEF NoDoc
  <2>2. ASSUME NEW d PROVE d \in Docs /\ doc[d].kind # "none" <=> d \in 1..k
    BY <1>1, <2>1, WarehouseBounds
  <2>. QED  BY <2>2
<1>3. Cardinality(1..k) = k
  BY <1>1, WarehouseBounds, FS_Interval
<1>4. NextDoc = k + 1
  BY <1>2, <1>3 DEF NextDoc
<1>. QED
  BY <1>1, <1>4, WarehouseBounds

\* Filing the next lines, and changing what is filed.
LEMMA FiledOnward ==
  ASSUME FiledInOrder(doc), NEW after, NEW j \in Nat, NextDoc + j <= MaxDocs + 1,
         \A d \in Docs : IF d \in NextDoc..(NextDoc + j - 1) THEN after[d].kind # "none"
                         ELSE after[d] = doc[d] \/ (doc[d] # NoDoc /\ after[d].kind # "none")
  PROVE  FiledInOrder(after)
<1>1. NextDoc \in Nat \ {0}
      /\ \A d \in Docs : IF d < NextDoc THEN doc[d].kind # "none" ELSE doc[d] = NoDoc
  BY NextDocFree
<1> DEFINE k == NextDoc + j - 1
<1>2. k \in 0..MaxDocs
  BY <1>1, WarehouseBounds
<1>3. ASSUME NEW d \in Docs
      PROVE  IF d <= k THEN after[d].kind # "none" ELSE after[d] = NoDoc
  <2>1. d \in Nat /\ d >= 1
    BY WarehouseBounds
  <2>2. CASE d < NextDoc
    <3>1. doc[d].kind # "none" /\ ~(d \in NextDoc..(NextDoc + j - 1)) /\ d <= k
      BY <1>1, <2>1, <2>2
    <3>. QED  BY <3>1
  <2>3. CASE d >= NextDoc /\ d <= k
    BY <1>1, <2>1, <2>3
  <2>4. CASE d > k
    <3>1. doc[d] = NoDoc /\ ~(d \in NextDoc..(NextDoc + j - 1)) /\ ~(d <= k)
      BY <1>1, <2>1, <2>4
    <3>. QED  BY <3>1
  <2>. QED  BY <1>1, <2>1, <2>2, <2>3, <2>4
<1> HIDE DEF k
<1>. QED
  BY <1>2, <1>3 DEF FiledInOrder

\* A filed document, one that waits, and a lot are there.
LEMMA FiledRows ==
  ASSUME DocsFit, FiledInOrder(doc), NEW d \in Docs,
         IsLot(d) \/ doc[d].status = "pending"
  PROVE  doc[d] # NoDoc /\ doc[d].kind # "none" /\ d < NextDoc
<1>1. doc[d] # NoDoc
  BY DEF NoDoc, IsLot, Stocked
<1>. QED
  BY <1>1, NextDocFree, WarehouseBounds

\* The slot of a form's choice.
LEMMA ChoiceFits ==
  ASSUME slot \in [Slots -> SlotType], SlotsAgree(slot, placed),
         NEW f \in Forms, NEW what, NEW location \in Choice(f, what, 0)
  PROVE  /\ location \in Names \union {NoName}
         /\ location # NoName => \A s \in Slots : slot[s].name = location =>
              /\ slot[s].active /\ Leased(s)
              /\ \A d \in In(s) : doc[d].what = what
<1>1. CASE location = NoName
  BY <1>1
<1>2. CASE location # NoName
  <2>1. PICK t \in Slots : Takes(t, f, what, 0) /\ location = slot[t].name
    BY <1>2 DEF Choice
  <2>2. slot[t].active /\ Leased(t) /\ \A d \in In(t) : doc[d].what = what
    <3>1. 0 \notin In(t)
      BY WarehouseBounds DEF In
    <3>. QED  BY <2>1, <3>1 DEF Takes, Compatible
  <2>3. \A s \in Slots : slot[s].name = location => s = t
    BY <1>2, <2>1 DEF SlotsAgree
  <2>4. location \in Names \union {NoName}
    BY <2>1, SlotFields
  <2>. QED  BY <2>2, <2>3, <2>4
<1>. QED
  BY <1>1, <1>2

\* Documents in slots wait or are lots.
LEMMA InSlotRows ==
  ASSUME DocsFit, RowsFit, FiledInOrder(doc), RowsAgree(doc, placed),
         NEW s \in Slots, NEW d \in In(s)
  PROVE  /\ d \in Docs /\ placed[s][d] > 0 /\ doc[d] # NoDoc /\ d < NextDoc
         /\ IsLot(d) \/ (doc[d].status = "pending" /\ doc[d].location # NoName)
<1>1. d \in Docs /\ placed[s][d] > 0
  BY DEF In
<1>2. IsLot(d) \/ (doc[d].status = "pending" /\ doc[d].location # NoName)
  BY <1>1 DEF RowsAgree, IsLot, Stocked
<1>. QED
  BY <1>1, <1>2, FiledRows

\* The documents, with the next j of them filed.
WithLines(j, r) == [d \in Docs |-> IF d \in NextDoc..(NextDoc + j - 1) THEN r ELSE doc[d]]

\* Lines that arrive at the warehouse, at the slot they were chosen for.
LEMMA LinesArrive ==
  ASSUME IInv, NEW f \in Forms, NEW what \in Materials, NEW q \in Nat,
         NEW location \in Choice(f, what, 0),
         NEW kind \in {"receipt", "transfer", "reallocation"}, NEW status \in {"pending", "received"},
         NEW source \in {0} \union Lots,
         source # 0 => status = "received" /\ doc[source].what # what,
         NEW j \in Nat, NextDoc + j <= MaxDocs + 1,
         NEW after, after = WithLines(j, Filed(kind, "warehouse", what, q, status, location, source))
  PROVE  Sensible(after, {location})
<1> DEFINE r == Filed(kind, "warehouse", what, q, status, location, source)
           New(d) == d \in NextDoc..(NextDoc + j - 1)
<1>0. /\ DocsFit /\ RowsFit /\ slot \in [Slots -> SlotType] /\ FiledInOrder(doc) /\ DocsAgree(doc)
      /\ SlotsAgree(slot, placed) /\ RowsAgree(doc, placed)
  BY DEF IInv, TypeOK, TablesAgree, DocsFit, RowsFit
<1>1. /\ location \in Names \union {NoName}
      /\ location # NoName => \A s \in Slots : slot[s].name = location =>
           slot[s].active /\ Leased(s) /\ \A d \in In(s) : doc[d].what = what
  BY <1>0, ChoiceFits
<1>2. /\ NextDoc \in Nat \ {0}
      /\ \A d \in Docs : d >= NextDoc => doc[d] = NoDoc
  <2>1. NextDoc \in Nat \ {0}
        /\ \A d \in Docs : IF d < NextDoc THEN doc[d].kind # "none" ELSE doc[d] = NoDoc
    BY <1>0, NextDocFree
  <2>. QED  BY <2>1, WarehouseBounds
<1>3. source \in 0..MaxDocs /\ (source # 0 => IsLot(source))
  BY WarehouseBounds DEF Lots
<1>4. /\ r \in DocType /\ r.lost = 0 /\ r.adjusted = 0 /\ r.kind = kind /\ r.to = "warehouse"
      /\ r.location = location /\ r.source = source /\ r.status = status /\ r.what = what
  BY <1>1, <1>3 DEF DocType, Filed
<1>5. \A d \in Docs : /\ New(d) => after[d] = r /\ doc[d] = NoDoc /\ ~IsLot(d)
                      /\ ~New(d) => after[d] = doc[d]
  <2>1. \A d \in Docs : New(d) => doc[d] = NoDoc
    BY <1>2, WarehouseBounds
  <2>. QED  BY <2>1 DEF NoDoc, IsLot, Stocked, WithLines
<1> HIDE DEF r, New
<1>6. OtherRow(NoDoc, r)
  BY <1>1, <1>3, <1>4 DEF OtherRow, NoDoc
<1>7. Orderly(after)
  <2>1. ASSUME NEW d \in Docs
        PROVE  IF IsLot(d) THEN LotRow(doc[d], after[d])
               ELSE after[d] = doc[d] \/ OtherRow(doc[d], after[d])
    <3>1. doc[d] \in DocType
      BY <1>0 DEF DocsFit
    <3>. QED  BY <1>5, <1>6, <3>1 DEF LotRow
  <2>2. after = [d \in Docs |-> after[d]]
    BY DEF WithLines
  <2>. QED  BY <2>1, <2>2 DEF Orderly
<1>8. FiledInOrder(after)
  <2>1. \A d \in Docs : IF d \in NextDoc..(NextDoc + j - 1) THEN after[d].kind # "none"
                        ELSE after[d] = doc[d]
    BY <1>4, <1>5 DEF New
  <2>. QED  BY <1>0, <2>1, FiledOnward
<1>9. ASSUME NEW s \in Slots, NEW d \in In(s)
      PROVE  d \in Docs /\ after[d] = doc[d] /\ doc[d] # NoDoc
  BY <1>0, <1>5, InSlotRows
<1>10. ASSUME NEW s \in Slots, NEW d \in Docs, Enters(after, d, s)
       PROVE  slot[s].name = location /\ location # NoName /\ after[d].what = what
  <2>1. CASE New(d)
    BY <1>4, <1>5, <1>10, <2>1 DEF Enters
  <2>2. CASE ~New(d)
    BY <1>5, <1>10, <2>2 DEF Enters
  <2>. QED  BY <2>1, <2>2
<1>11. ASSUME NEW s \in Slots, slot[s].name = location, location # NoName, NEW d \in In(s), NEW e \in Docs,
              after[e].source = d
       PROVE  PhysicalOut(after, e) <= PhysicalOut(doc, e)
  <2>1. doc[d].what = what /\ d # 0
    BY <1>1, <1>11, <1>9, WarehouseBounds
  <2>2. ~New(e)
    <3>1. SUFFICES ASSUME New(e) PROVE FALSE
      OBVIOUS
    <3>2. source = d
      BY <1>4, <1>5, <1>11, <3>1
    <3>. QED  BY <2>1, <3>2
  <2>3. after[e] = doc[e] /\ PhysicalOut(doc, e) \in Nat
    BY <1>0, <1>5, <2>2, PhysicalOutType DEF DocsFit
  <2>4. PhysicalOut(after, e) = PhysicalOut(doc, e)
    BY <2>3 DEF PhysicalOut
  <2>. QED  BY <2>3, <2>4
<1>12. Taking(after, {location})
  BY <1>1, <1>9, <1>10, <1>11 DEF Taking
<1>13. Suited(after)
  <2>1. ASSUME NEW s \in Slots, NEW d \in Docs, NEW e \in Docs,
               d \in In(s) \/ Enters(after, d, s), e \in In(s) \/ Enters(after, e, s)
        PROVE  \/ after[d].what = after[e].what
               \/ /\ d \in In(s) /\ e \in In(s)
                  /\ after[d].what = doc[d].what /\ after[e].what = doc[e].what
    <3>1. CASE d \in In(s) /\ e \in In(s)
      BY <1>9, <3>1
    <3>2. CASE Enters(after, d, s) \/ Enters(after, e, s)
      <4>1. \A x \in In(s) : after[x].what = what
        BY <1>1, <1>9, <1>10, <3>2
      <4>. QED  BY <1>10, <2>1, <4>1
    <3>. QED  BY <2>1, <3>1, <3>2
  <2>. QED  BY <2>1 DEF Suited
<1>. QED
  BY <1>7, <1>8, <1>12, <1>13 DEF Sensible

\* A document on its way is changed or received; a slot is chosen for it if it has none.
LEMMA LineChanges ==
  ASSUME IInv, NEW f \in Forms, NEW d \in Docs, doc[d].status = "pending", doc[d].source = 0,
         NEW r, r \in DocType, r.kind = doc[d].kind, r.source = 0, r.lost = doc[d].lost,
         r.adjusted = doc[d].adjusted, r.kind = "outbound" => r.to # "warehouse",
         r.status \in {"pending", "received"},
         doc[d].location # NoName => r.location = doc[d].location /\ r.to = "warehouse",
         doc[d].location = NoName /\ r.location # NoName =>
           r.to = "warehouse" /\ r.location \in Choice(f, r.what, 0),
         r.what # doc[d].what =>
           \A s \in {t \in Slots : placed[t][d] > 0} : Compatible(s, r.what, d),
         NEW after, after = [doc EXCEPT ![d] = r]
  PROVE  Sensible(after, IF doc[d].location = NoName THEN {r.location} ELSE {})
<1>0. /\ DocsFit /\ RowsFit /\ slot \in [Slots -> SlotType] /\ FiledInOrder(doc) /\ DocsAgree(doc)
      /\ SlotsAgree(slot, placed) /\ RowsAgree(doc, placed)
  BY DEF IInv, TypeOK, TablesAgree, DocsFit, RowsFit
<1>1. /\ after = [e \in Docs |-> after[e]] /\ after[d] = r
      /\ \A e \in Docs : e # d => after[e] = doc[e]
  BY <1>0 DEF DocsFit
<1>2. /\ ~IsLot(d) /\ doc[d] # NoDoc /\ doc[d].kind # "none" /\ d < NextDoc
      /\ doc[d].lost = 0 /\ doc[d].adjusted = 0
  <2>1. ~IsLot(d) /\ doc[d] # NoDoc /\ doc[d].kind # "none" /\ d < NextDoc
    BY <1>0, FiledRows DEF IsLot, Stocked
  <2>. QED  BY <1>0, <2>1 DEF DocsAgree, IsLot
<1>3. doc[d].location = NoName /\ r.location # NoName => \A s \in Slots : slot[s].name = r.location =>
           slot[s].active /\ Leased(s) /\ \A e \in In(s) : doc[e].what = r.what
  BY <1>0, ChoiceFits
<1>4. OtherRow(doc[d], r)
  <2>1. CASE doc[d].location = NoName
    BY <1>2, <1>3, <2>1 DEF OtherRow
  <2>2. CASE doc[d].location # NoName
    BY <1>2, <2>2 DEF OtherRow
  <2>. QED  BY <2>1, <2>2
<1>5. Orderly(after)
  <2>1. ASSUME NEW e \in Docs
        PROVE  IF IsLot(e) THEN LotRow(doc[e], after[e])
               ELSE after[e] = doc[e] \/ OtherRow(doc[e], after[e])
    <3>1. doc[e] \in DocType
      BY <1>0 DEF DocsFit
    <3>2. CASE e = d
      BY <1>1, <1>2, <1>4, <3>2
    <3>3. CASE e # d
      BY <1>1, <3>1, <3>3 DEF LotRow
    <3>. QED  BY <3>2, <3>3
  <2>. QED  BY <1>1, <2>1 DEF Orderly
<1>6. FiledInOrder(after)
  <2>1. \A e \in Docs : after[e] = doc[e] \/ (doc[e] # NoDoc /\ after[e].kind # "none")
    BY <1>1, <1>2
  <2>2. NextDoc \in Nat \ {0} /\ NextDoc + 0 <= MaxDocs + 1 /\ NextDoc..(NextDoc + 0 - 1) = {}
    BY <1>0, NextDocFree, WarehouseBounds
  <2>. QED  BY <1>0, <2>1, <2>2, FiledOnward
<1>7. \A s \in Slots, e \in Docs : Enters(after, e, s) =>
        /\ e = d /\ doc[d].location = NoName /\ r.location # NoName /\ slot[s].name = r.location
  BY <1>1 DEF Enters
<1>8. doc[d].location = NoName => \A s \in Slots : d \notin In(s)
  BY <1>0, <1>2, InSlotRows
<1>9. ASSUME NEW e \in Docs, after[e].source # 0
      PROVE  PhysicalOut(after, e) <= PhysicalOut(doc, e)
  <2>1. after[e] = doc[e] /\ PhysicalOut(doc, e) \in Nat
    BY <1>0, <1>1, <1>9, PhysicalOutType DEF DocsFit
  <2>2. PhysicalOut(after, e) = PhysicalOut(doc, e)
    BY <2>1 DEF PhysicalOut
  <2>. QED  BY <2>1, <2>2
<1>10. Taking(after, IF doc[d].location = NoName THEN {r.location} ELSE {})
  <2>1. CASE doc[d].location = NoName
    <3>1. ASSUME NEW s \in Slots, slot[s].name \in {r.location} \ {NoName}
          PROVE  /\ Leased(s)
                 /\ \A e \in In(s) :
                      /\ after[e] = doc[e]
                      /\ \A x \in Docs : after[x].source = e => PhysicalOut(after, x) <= PhysicalOut(doc, x)
      <4>1. \A e \in In(s) : e \in Docs /\ e # d /\ e # 0
        BY <1>8, <2>1, WarehouseBounds DEF In
      <4>2. Leased(s)
        BY <1>3, <2>1, <3>1
      <4>3. \A e \in In(s) : after[e] = doc[e]
        BY <1>1, <4>1
      <4>. QED  BY <1>9, <4>1, <4>2, <4>3
    <3>. QED  BY <1>7, <2>1, <3>1 DEF Taking
  <2>2. CASE doc[d].location # NoName
    BY <1>7, <2>2 DEF Taking
  <2>. QED  BY <2>1, <2>2
<1>11. Suited(after)
  <2>1. ASSUME NEW s \in Slots, NEW e \in Docs, e # d, e \in In(s), d \in In(s) \/ Enters(after, d, s)
        PROVE  \/ after[d].what = after[e].what
               \/ d \in In(s) /\ after[d].what = doc[d].what
    <3>1. after[e].what = doc[e].what /\ after[d].what = r.what
      BY <1>1, <2>1
    <3>2. CASE Enters(after, d, s)
      BY <1>3, <1>7, <2>1, <3>1, <3>2
    <3>3. CASE d \in In(s) /\ r.what # doc[d].what
      <4>1. Compatible(s, r.what, d) /\ e \in In(s) \ {d}
        BY <2>1, <3>3 DEF In
      <4>2. doc[e].what = r.what
        BY <4>1 DEF Compatible
      <4>. QED  BY <3>1, <4>2
    <3>. QED  BY <2>1, <3>1, <3>2, <3>3
  <2>2. ASSUME NEW s \in Slots, NEW e \in Docs, e # d, e \in In(s) \/ Enters(after, e, s)
        PROVE  e \in In(s) /\ after[e].what = doc[e].what
    BY <1>1, <1>7, <2>2
  <2>3. ASSUME NEW s \in Slots, NEW a \in Docs, NEW b \in Docs,
               a \in In(s) \/ Enters(after, a, s), b \in In(s) \/ Enters(after, b, s)
        PROVE  \/ after[a].what = after[b].what
               \/ /\ a \in In(s) /\ b \in In(s)
                  /\ after[a].what = doc[a].what /\ after[b].what = doc[b].what
    BY <2>1, <2>2, <2>3
  <2>. QED  BY <2>3 DEF Suited
<1>. QED
  BY <1>5, <1>6, <1>10, <1>11 DEF Sensible

\* A write that puts nothing into a slot and changes no material.
LEMMA NothingEnters ==
  ASSUME IInv, NEW after, Orderly(after),
         \A d \in Docs : after[d] = doc[d] \/ (doc[d] # NoDoc /\ after[d].kind # "none")
                         \/ (d = NextDoc /\ after[d].kind # "none"),
         NextDoc \in Docs \/ \A d \in Docs : after[d] = doc[d] \/ doc[d] # NoDoc,
         \A d \in Docs : ~IsLot(d) /\ doc[d].location = NoName =>
            after[d].location = NoName \/ after[d].to # "warehouse",
         \A d \in Docs : doc[d] # NoDoc => after[d].what = doc[d].what
  PROVE  Sensible(after, {})
<1>0. /\ DocsFit /\ RowsFit /\ FiledInOrder(doc) /\ DocsAgree(doc)
      /\ SlotsAgree(slot, placed) /\ RowsAgree(doc, placed)
  BY DEF IInv, TypeOK, TablesAgree, DocsFit, RowsFit
<1>1. /\ NextDoc \in Nat \ {0} /\ NextDoc <= MaxDocs + 1
      /\ \A d \in Docs : IF d < NextDoc THEN doc[d].kind # "none" ELSE doc[d] = NoDoc
  BY <1>0, NextDocFree
<1>2. FiledInOrder(after)
  <2>1. CASE NextDoc \in Docs /\ after[NextDoc].kind # "none"
    <3>1. NextDoc + 1 <= MaxDocs + 1 /\ NextDoc..(NextDoc + 1 - 1) = {NextDoc}
      BY <1>1, <2>1, WarehouseBounds
    <3>. QED  BY <1>0, <2>1, <3>1, FiledOnward
  <2>2. CASE ~(NextDoc \in Docs /\ after[NextDoc].kind # "none")
    <3>1. NextDoc + 0 <= MaxDocs + 1 /\ NextDoc..(NextDoc + 0 - 1) = {}
      BY <1>1, WarehouseBounds
    <3>2. \A d \in Docs : after[d] = doc[d] \/ (doc[d] # NoDoc /\ after[d].kind # "none")
      BY <2>2
    <3>. QED  BY <1>0, <3>1, <3>2, FiledOnward
  <2>. QED  BY <2>1, <2>2
<1>3. \A s \in Slots, d \in Docs : ~Enters(after, d, s)
  BY DEF Enters
<1>4. \A s \in Slots : \A d \in In(s) : d \in Docs /\ after[d].what = doc[d].what
  BY <1>0, InSlotRows
<1>. QED
  BY <1>2, <1>3, <1>4 DEF Sensible, Taking, Suited

\* A document is sent from a lot, and the rest of the lot cleared.
LEMMA LineLeaves ==
  ASSUME IInv, NEW l \in Lots, NEW c \in Int, NEW d \in Docs, d # l, NEW r, r \in DocType,
         r.source = l, r.lost = 0, r.adjusted = 0, r.kind # "none",
         r.to # "warehouse", r.location = NoName,
         d = NextDoc \/ (doc[d].status = "pending" /\ doc[d].source = l),
         doc[d] # NoDoc => r.what = doc[d].what,
         NEW after, after = [doc EXCEPT ![d] = r, ![l].adjusted = c]
  PROVE  Sensible(after, {})
<1>0. DocsFit /\ FiledInOrder(doc) /\ DocsAgree(doc)
  BY DEF IInv, TypeOK, TablesAgree, DocsFit
<1>1. l \in Docs /\ IsLot(l) /\ doc[l] # NoDoc /\ doc[l].kind # "none" /\ doc[l] \in DocType
  BY <1>0, FiledRows DEF Lots, DocsFit
<1>2. /\ after = [e \in Docs |-> after[e]] /\ after[d] = r
      /\ after[l] = [doc[l] EXCEPT !.adjusted = c]
      /\ \A e \in Docs : e # d /\ e # l => after[e] = doc[e]
  BY <1>0, <1>1 DEF DocsFit
<1>3. LotRow(doc[l], after[l]) /\ after[l].kind # "none" /\ after[l].what = doc[l].what
  BY <1>1, <1>2 DEF LotRow, DocType
<1>4. /\ ~IsLot(d) /\ doc[d].location = NoName
      /\ doc[d].source \in {0, l} /\ (d = NextDoc \/ doc[d] # NoDoc)
  <2>1. CASE d = NextDoc
    <3>1. doc[d] = NoDoc
      BY <1>0, <2>1, NextDocFree, WarehouseBounds
    <3>. QED  BY <2>1, <3>1 DEF NoDoc, IsLot, Stocked
  <2>2. CASE doc[d].status = "pending" /\ doc[d].source = l
    <3>1. l # 0
      BY <1>1, WarehouseBounds
    <3>2. doc[d].to # "warehouse"
      BY <1>0, <2>2, <3>1 DEF DocsAgree
    <3>3. doc[d].location = NoName
      BY <1>0, <2>2, <3>2 DEF DocsAgree
    <3>4. doc[d] # NoDoc
      BY <1>0, <2>2, FiledRows
    <3>. QED  BY <2>2, <3>2, <3>3, <3>4 DEF IsLot, Stocked
  <2>. QED  BY <2>1, <2>2
<1>5. OtherRow(doc[d], r)
  BY <1>1, <1>4 DEF OtherRow
<1>6. Orderly(after)
  <2>1. ASSUME NEW e \in Docs
        PROVE  IF IsLot(e) THEN LotRow(doc[e], after[e])
               ELSE after[e] = doc[e] \/ OtherRow(doc[e], after[e])
    <3>1. doc[e] \in DocType
      BY <1>0 DEF DocsFit
    <3>2. CASE e = d
      BY <1>2, <1>4, <1>5, <3>2
    <3>3. CASE e = l
      BY <1>1, <1>3, <3>3
    <3>4. CASE e # d /\ e # l
      BY <1>2, <3>1, <3>4 DEF LotRow
    <3>. QED  BY <3>2, <3>3, <3>4
  <2>. QED  BY <1>2, <2>1 DEF Orderly
<1>7. \A e \in Docs : doc[e] # NoDoc => after[e].what = doc[e].what
  BY <1>2, <1>3
<1>8. \A e \in Docs : after[e] = doc[e] \/ (doc[e] # NoDoc /\ after[e].kind # "none")
                      \/ (e = NextDoc /\ after[e].kind # "none")
  BY <1>1, <1>2, <1>3, <1>4
<1>9. NextDoc \in Docs \/ \A e \in Docs : after[e] = doc[e] \/ doc[e] # NoDoc
  BY <1>1, <1>2, <1>4
<1>10. \A e \in Docs : ~IsLot(e) /\ doc[e].location = NoName =>
          after[e].location = NoName \/ after[e].to # "warehouse"
  BY <1>1, <1>2
<1>. QED
  BY <1>6, <1>7, <1>8, <1>9, <1>10, NothingEnters

\* A lot is lost in part, corrected, or cleared.
LEMMA LotChanges ==
  ASSUME IInv, NEW l \in Lots, NEW r, LotRow(doc[l], r), NEW after, after = [doc EXCEPT ![l] = r]
  PROVE  Sensible(after, {})
<1>0. DocsFit /\ FiledInOrder(doc)
  BY DEF IInv, TypeOK, TablesAgree, DocsFit
<1>1. l \in Docs /\ IsLot(l) /\ doc[l] # NoDoc /\ doc[l].kind # "none"
  BY <1>0, FiledRows DEF Lots
<1>2. /\ after = [e \in Docs |-> after[e]] /\ after[l] = r
      /\ \A e \in Docs : e # l => after[e] = doc[e]
  BY <1>0, <1>1 DEF DocsFit
<1>3. r.kind # "none" /\ r.what = doc[l].what
  BY <1>1 DEF LotRow
<1>4. Orderly(after)
  <2>1. \A e \in Docs : doc[e] \in DocType
    BY <1>0 DEF DocsFit
  <2>2. \A e \in Docs : IF IsLot(e) THEN LotRow(doc[e], after[e])
                        ELSE after[e] = doc[e] \/ OtherRow(doc[e], after[e])
    BY <1>1, <1>2, <2>1 DEF LotRow
  <2>. QED  BY <1>2, <2>2 DEF Orderly
<1>. QED
  BY <1>1, <1>2, <1>3, <1>4, NothingEnters

\* A document on its way is withdrawn, or leaves the building.
LEMMA LineEnds ==
  ASSUME IInv, NEW d \in Docs, doc[d].status = "pending",
         NEW status \in {"voided", "dispatched"}, status = "dispatched" => doc[d].kind = "outbound",
         NEW after, after = [doc EXCEPT ![d].status = status]
  PROVE  Sensible(after, {})
<1>0. DocsFit /\ FiledInOrder(doc) /\ DocsAgree(doc)
  BY DEF IInv, TypeOK, TablesAgree, DocsFit
<1> DEFINE r == [doc[d] EXCEPT !.status = status]
<1>1. /\ after = [e \in Docs |-> after[e]] /\ after[d] = r
      /\ \A e \in Docs : e # d => after[e] = doc[e]
  BY <1>0 DEF DocsFit
<1>2. /\ doc[d] \in DocType /\ ~IsLot(d) /\ doc[d] # NoDoc /\ doc[d].kind # "none"
      /\ doc[d].lost = 0 /\ doc[d].adjusted = 0
  <2>1. doc[d] \in DocType /\ ~IsLot(d) /\ doc[d] # NoDoc /\ doc[d].kind # "none"
    BY <1>0, FiledRows DEF IsLot, Stocked, DocsFit
  <2>. QED  BY <1>0, <2>1 DEF DocsAgree, IsLot
<1>3. /\ r \in DocType /\ r.kind = doc[d].kind /\ r.source = doc[d].source /\ r.to = doc[d].to
      /\ r.what = doc[d].what /\ r.location = doc[d].location /\ r.lost = 0 /\ r.adjusted = 0
      /\ r.status = status
  BY <1>2 DEF DocType
<1> HIDE DEF r
<1>4. OtherRow(doc[d], r)
  <2>1. /\ doc[d].source # 0 => IsLot(doc[d].source)
        /\ doc[d].kind = "outbound" => doc[d].to # "warehouse"
        /\ doc[d].location # NoName => doc[d].to = "warehouse"
    BY <1>0 DEF DocsAgree, IsLot
  <2>2. CASE doc[d].location = NoName
    BY <1>3, <2>1, <2>2 DEF OtherRow
  <2>3. CASE doc[d].location # NoName
    BY <1>3, <2>1, <2>3 DEF OtherRow
  <2>. QED  BY <2>2, <2>3
<1>5. Orderly(after)
  <2>1. \A e \in Docs : doc[e] \in DocType
    BY <1>0 DEF DocsFit
  <2>2. \A e \in Docs : IF IsLot(e) THEN LotRow(doc[e], after[e])
                        ELSE after[e] = doc[e] \/ OtherRow(doc[e], after[e])
    BY <1>1, <1>2, <1>4, <2>1 DEF LotRow
  <2>. QED  BY <1>1, <2>2 DEF Orderly
<1>6. /\ \A e \in Docs : after[e] = doc[e] \/ (doc[e] # NoDoc /\ after[e].kind # "none")
      /\ \A e \in Docs : after[e].location = doc[e].location /\ after[e].what = doc[e].what
  BY <1>1, <1>2, <1>3
<1>. QED
  BY <1>5, <1>6, NothingEnters

-----------------------------------------------------------------------------
(* Each operation that writes documents writes them so.                     *)

SensibleWrite ==
    \E after, names : /\ Sensible(after, names) /\ Write(after) /\ Consume(names)
                      /\ UNCHANGED <<screen, plan>> /\ WhatsFit'

LEMMA ConsumeNothing ==
  ASSUME slot \in [Slots -> SlotType], UNCHANGED slot
  PROVE  Consume({})
BY DEF Consume

LEMMA WhatsAreMaterials ==
  ASSUME WhatsFit, NEW what \in left.whats
  PROVE  what \in Materials
BY DEF WhatsFit

LEMMA ReceiveWrites ==
  ASSUME IInv, NEW f \in Forms, Receive(f)
  PROVE  SensibleWrite
<1>0. WhatsFit /\ DocsFit /\ FiledInOrder(doc)
  BY DEF IInv, TypeOK, TablesAgree, DocsFit
<1>1. PICK what \in left.whats, q \in Amounts : \E location \in Choice(f, what, 0) :
        /\ NextDoc \in Docs /\ Spend("receive") /\ Settled
        /\ Write([doc EXCEPT ![NextDoc] = Filed("receipt", "warehouse", what, q, "received", location, 0)])
        /\ Consume({location})
  BY DEF Receive
<1>2. PICK location \in Choice(f, what, 0) :
        /\ NextDoc \in Docs /\ Spend("receive") /\ Settled
        /\ Write([doc EXCEPT ![NextDoc] = Filed("receipt", "warehouse", what, q, "received", location, 0)])
        /\ Consume({location})
  BY <1>1
<1> DEFINE after == [doc EXCEPT ![NextDoc] = Filed("receipt", "warehouse", what, q, "received", location, 0)]
<1>3. what \in Materials /\ q \in Nat /\ WhatsFit'
  BY <1>0, <1>2, WhatsAreMaterials, TableAssumption, SpendKeepsWhats
<1>4. NextDoc \in Nat /\ NextDoc + 1 <= MaxDocs + 1 /\ NextDoc..(NextDoc + 1 - 1) = {NextDoc}
  BY <1>2, WarehouseBounds
<1>5. after = WithLines(1, Filed("receipt", "warehouse", what, q, "received", location, 0))
  BY <1>0, <1>4 DEF DocsFit, WithLines
<1> HIDE DEF after
<1>6. Sensible(after, {location})
  BY <1>3, <1>4, <1>5, LinesArrive
<1>. QED
  BY <1>2, <1>3, <1>6 DEF SensibleWrite, Settled, after

LEMMA SendInWrites ==
  ASSUME IInv, NEW f \in Forms, SendIn(f)
  PROVE  SensibleWrite
<1>0. WhatsFit /\ FiledInOrder(doc)
  BY DEF IInv, TablesAgree
<1>1. PICK what \in left.whats, q \in Amounts, lines \in 1..2 : \E location \in Choice(f, what, 0) :
        /\ NextDoc + lines - 1 \in Docs /\ Spend("send") /\ Settled
        /\ Write([d \in Docs |-> IF d \in NextDoc..(NextDoc + lines - 1)
                                 THEN Filed("transfer", "warehouse", what, q, "pending", location, 0)
                                 ELSE doc[d]])
        /\ Consume({location})
  BY DEF SendIn
<1>2. PICK location \in Choice(f, what, 0) :
        /\ NextDoc + lines - 1 \in Docs /\ Spend("send") /\ Settled
        /\ Write([d \in Docs |-> IF d \in NextDoc..(NextDoc + lines - 1)
                                 THEN Filed("transfer", "warehouse", what, q, "pending", location, 0)
                                 ELSE doc[d]])
        /\ Consume({location})
  BY <1>1
<1> DEFINE after == [d \in Docs |-> IF d \in NextDoc..(NextDoc + lines - 1)
                                    THEN Filed("transfer", "warehouse", what, q, "pending", location, 0)
                                    ELSE doc[d]]
<1>3. what \in Materials /\ q \in Nat /\ WhatsFit'
  BY <1>0, <1>2, WhatsAreMaterials, TableAssumption, SpendKeepsWhats
<1>4. lines \in Nat /\ NextDoc + lines <= MaxDocs + 1
  <2>1. NextDoc \in Nat /\ NextDoc + lines - 1 <= MaxDocs
    BY <1>0, <1>2, NextDocFree, WarehouseBounds
  <2>. QED  BY <2>1, WarehouseBounds
<1>5. after = WithLines(lines, Filed("transfer", "warehouse", what, q, "pending", location, 0))
  BY DEF WithLines
<1> HIDE DEF after
<1>6. Sensible(after, {location})
  BY <1>3, <1>4, <1>5, LinesArrive
<1>. QED
  BY <1>2, <1>3, <1>6 DEF SensibleWrite, Settled, after

LEMMA ReallocateWrites ==
  ASSUME IInv, NEW f \in Forms, Reallocate(f)
  PROVE  SensibleWrite
<1>0. WhatsFit /\ DocsFit /\ FiledInOrder(doc)
  BY DEF IInv, TypeOK, TablesAgree, DocsFit
<1>1. PICK l \in Lots, what \in left.whats \ Nameless, q \in Amounts : \E location \in Choice(f, what, 0) :
        /\ what # doc[l].what /\ NextDoc \in Docs /\ Spend("reallocate") /\ Settled
        /\ Write([doc EXCEPT ![NextDoc] =
                    Filed("reallocation", "warehouse", what, q, "received", location, l)])
        /\ Consume({location})
  BY DEF Reallocate
<1>2. PICK location \in Choice(f, what, 0) :
        /\ what # doc[l].what /\ NextDoc \in Docs /\ Spend("reallocate") /\ Settled
        /\ Write([doc EXCEPT ![NextDoc] =
                    Filed("reallocation", "warehouse", what, q, "received", location, l)])
        /\ Consume({location})
  BY <1>1
<1> DEFINE after == [doc EXCEPT ![NextDoc] =
                       Filed("reallocation", "warehouse", what, q, "received", location, l)]
<1>3. what \in Materials /\ q \in Nat /\ WhatsFit'
  BY <1>0, <1>2, WhatsAreMaterials, TableAssumption, SpendKeepsWhats
<1>4. NextDoc \in Nat /\ NextDoc + 1 <= MaxDocs + 1 /\ NextDoc..(NextDoc + 1 - 1) = {NextDoc}
  BY <1>2, WarehouseBounds
<1>5. after = WithLines(1, Filed("reallocation", "warehouse", what, q, "received", location, l))
  BY <1>0, <1>4 DEF DocsFit, WithLines
<1> HIDE DEF after
<1>6. Sensible(after, {location})
  BY <1>2, <1>3, <1>4, <1>5, LinesArrive
<1>. QED
  BY <1>2, <1>3, <1>6 DEF SensibleWrite, Settled, after

LEMMA EditInWrites ==
  ASSUME IInv, NEW f \in Forms, EditIn(f)
  PROVE  SensibleWrite
<1>0. WhatsFit /\ DocsFit /\ slot \in [Slots -> SlotType] /\ SlotsAgree(slot, placed)
  BY DEF IInv, TypeOK, TablesAgree, DocsFit
<1> DEFINE Edited(d, what, q, to, location) ==
             [doc EXCEPT ![d].what = what, ![d].quantity = q, ![d].to = to, ![d].location = location]
           Edit(d, what, q, to, location) ==
             /\ doc[d].kind = "transfer" /\ doc[d].status = "pending" /\ doc[d].source = 0
             /\ doc[d].location # NoName => to = "warehouse"
             /\ what # doc[d].what =>
                  \A s \in {t \in Slots : placed[t][d] > 0} : Compatible(s, what, d)
             /\ Spend("edit") /\ Settled
             /\ Write(Edited(d, what, q, to, location))
             /\ Consume(IF doc[d].location = NoName THEN {location} ELSE {})
<1>1. PICK d \in Docs, what \in left.whats, q \in Amounts, to \in {"warehouse", "team"} :
        \E location \in IF doc[d].location # NoName THEN {doc[d].location}
                        ELSE IF to = "warehouse" THEN Choice(f, what, 0) ELSE {NoName} :
          Edit(d, what, q, to, location)
  BY DEF EditIn
<1>2. PICK location \in IF doc[d].location # NoName THEN {doc[d].location}
                        ELSE IF to = "warehouse" THEN Choice(f, what, 0) ELSE {NoName} :
        Edit(d, what, q, to, location)
  BY <1>1
<1> DEFINE r == [doc[d] EXCEPT !.what = what, !.quantity = q, !.to = to, !.location = location]
           after == Edited(d, what, q, to, location)
<1>3. what \in Materials /\ q \in Nat /\ WhatsFit'
  BY <1>0, <1>2, WhatsAreMaterials, TableAssumption, SpendKeepsWhats
<1>4. doc[d] \in DocType
  BY <1>0 DEF DocsFit
<1>5. after = [doc EXCEPT ![d] = r]
  BY <1>0, <1>4 DEF DocsFit, DocType
<1>6. location \in Names \union {NoName}
  BY <1>0, <1>2, ChoiceFits, RowFields DEF DocsFit
<1>7. /\ r \in DocType /\ r.kind = doc[d].kind /\ r.source = doc[d].source /\ r.lost = doc[d].lost
      /\ r.adjusted = doc[d].adjusted /\ r.status = doc[d].status
      /\ r.what = what /\ r.to = to /\ r.location = location
  BY <1>3, <1>4, <1>6 DEF DocType
<1>8. /\ doc[d].kind = "transfer" /\ doc[d].status = "pending" /\ doc[d].source = 0
      /\ doc[d].location # NoName => to = "warehouse" /\ location = doc[d].location
      /\ doc[d].location = NoName /\ location # NoName => to = "warehouse" /\ location \in Choice(f, what, 0)
      /\ what # doc[d].what =>
           \A s \in {t \in Slots : placed[t][d] > 0} : Compatible(s, what, d)
  BY <1>2
<1>9. /\ Write(after) /\ Settled
      /\ Consume(IF doc[d].location = NoName THEN {location} ELSE {})
  BY <1>2
<1> HIDE DEF r, after
<1>10. Sensible(after, IF doc[d].location = NoName THEN {r.location} ELSE {})
  BY <1>5, <1>7, <1>8, LineChanges
<1>. QED
  BY <1>3, <1>7, <1>9, <1>10 DEF SensibleWrite, Settled

LEMMA ConfirmWrites ==
  ASSUME IInv, NEW f \in Forms, Confirm(f)
  PROVE  SensibleWrite
<1>0. WhatsFit /\ DocsFit /\ DocsAgree(doc) /\ slot \in [Slots -> SlotType] /\ SlotsAgree(slot, placed)
  BY DEF IInv, TypeOK, TablesAgree, DocsFit
<1> DEFINE Received(d, location) == [doc EXCEPT ![d].status = "received", ![d].location = location]
           Receipt(d, location) ==
             /\ Spend("confirm") /\ Settled
             /\ Write(Received(d, location))
             /\ Consume(IF doc[d].location = NoName THEN {location} ELSE {})
<1>1. PICK d \in Coming :
        \E location \in IF doc[d].location = NoName THEN Choice(f, doc[d].what, 0) ELSE {doc[d].location} :
          Receipt(d, location)
  BY DEF Confirm
<1>2. PICK location \in IF doc[d].location = NoName THEN Choice(f, doc[d].what, 0) ELSE {doc[d].location} :
        Receipt(d, location)
  BY <1>1
<1> DEFINE r == [doc[d] EXCEPT !.status = "received", !.location = location]
           after == Received(d, location)
<1>3. WhatsFit'
  BY <1>0, <1>2, SpendKeepsWhats
<1>4. d \in Docs /\ doc[d] \in DocType /\ doc[d].to = "warehouse" /\ doc[d].status = "pending"
  BY <1>0 DEF DocsFit, Coming
<1>5. after = [doc EXCEPT ![d] = r]
  BY <1>0, <1>4 DEF DocsFit, DocType
<1>6. location \in Names \union {NoName}
  BY <1>0, <1>2, <1>4, ChoiceFits, RowFields DEF DocsFit
<1>7. /\ r \in DocType /\ r.kind = doc[d].kind /\ r.source = doc[d].source /\ r.lost = doc[d].lost
      /\ r.adjusted = doc[d].adjusted /\ r.status = "received"
      /\ r.what = doc[d].what /\ r.to = doc[d].to /\ r.location = location
  BY <1>4, <1>6 DEF DocType
<1>8. /\ doc[d].source = 0 /\ doc[d].kind # "outbound"
      /\ doc[d].location # NoName => location = doc[d].location
      /\ doc[d].location = NoName => location \in Choice(f, doc[d].what, 0)
  BY <1>0, <1>2, <1>4 DEF DocsAgree
<1>9. /\ Write(after) /\ Settled
      /\ Consume(IF doc[d].location = NoName THEN {location} ELSE {})
  BY <1>2
<1> HIDE DEF r, after
<1>10. Sensible(after, IF doc[d].location = NoName THEN {r.location} ELSE {})
  BY <1>4, <1>5, <1>7, <1>8, LineChanges
<1>. QED
  BY <1>3, <1>7, <1>9, <1>10 DEF SensibleWrite, Settled

LEMMA VoidWrites ==
  ASSUME IInv, Void
  PROVE  SensibleWrite
<1>0. WhatsFit /\ slot \in [Slots -> SlotType]
  BY DEF IInv, TypeOK
<1>1. PICK d \in Docs : /\ doc[d].status = "pending" /\ Spend("void") /\ Settled
                        /\ Write([doc EXCEPT ![d].status = "voided"]) /\ UNCHANGED slot
  BY DEF Void
<1>2. Sensible([doc EXCEPT ![d].status = "voided"], {})
  BY <1>1, LineEnds
<1>. QED
  BY <1>0, <1>1, <1>2, ConsumeNothing, SpendKeepsWhats DEF SensibleWrite, Settled

LEMMA ConfirmOutboundWrites ==
  ASSUME IInv, ConfirmOutbound
  PROVE  SensibleWrite
<1>0. WhatsFit /\ slot \in [Slots -> SlotType]
  BY DEF IInv, TypeOK
<1>1. PICK d \in Docs : /\ doc[d].kind = "outbound" /\ doc[d].status = "pending" /\ Spend("confirm")
                        /\ Write([doc EXCEPT ![d].status = "dispatched"]) /\ Settled /\ UNCHANGED slot
  BY DEF ConfirmOutbound
<1>2. Sensible([doc EXCEPT ![d].status = "dispatched"], {})
  BY <1>1, LineEnds
<1>. QED
  BY <1>0, <1>1, <1>2, ConsumeNothing, SpendKeepsWhats DEF SensibleWrite, Settled

LEMMA OnHandType ==
  ASSUME DocsFit, NEW l \in Docs
  PROVE  /\ OnHand(l) \in Int /\ Reserved(l) \in Int /\ InTransit(l) \in Int
         /\ OnHand(l) + Reserved(l) - InTransit(l) = Inside(doc, l)
<1> DEFINE all == [d \in Docs |-> When(d \in Children(l, {"pending", "received", "dispatched"}), doc[d].quantity)]
           waiting == [d \in Docs |-> When(d \in Children(l, {"pending"}), doc[d].quantity)]
           moving == [d \in Docs |-> When(d \in {e \in Children(l, {"pending"}) : doc[e].kind = "transfer"},
                                          doc[d].quantity)]
           out == [d \in Docs |-> When(doc[d].source = l, PhysicalOut(doc, d))]
           left1 == [d \in Docs |-> all[d] + moving[d]]
           right1 == [d \in Docs |-> waiting[d] + out[d]]
<1>1. ASSUME NEW d \in Docs
      PROVE  /\ all[d] \in Int /\ waiting[d] \in Int /\ moving[d] \in Int /\ out[d] \in Int
             /\ all[d] + moving[d] = waiting[d] + out[d]
  <2>1. /\ doc[d].quantity \in Nat
        /\ doc[d].status \in {"pending", "received", "dispatched", "voided"}
    BY RowFields DEF DocsFit
  <2>2. /\ all[d] = IF doc[d].source = l /\ doc[d].status # "voided" THEN doc[d].quantity ELSE 0
        /\ waiting[d] = IF doc[d].source = l /\ doc[d].status = "pending" THEN doc[d].quantity ELSE 0
        /\ moving[d] = IF doc[d].source = l /\ doc[d].status = "pending" /\ doc[d].kind = "transfer"
                       THEN doc[d].quantity ELSE 0
    BY <2>1 DEF Children, When
  <2>3. out[d] = IF /\ doc[d].source = l
                    /\ \/ doc[d].status \in {"received", "dispatched"}
                       \/ doc[d].status = "pending" /\ doc[d].kind = "transfer"
                 THEN doc[d].quantity ELSE 0
    BY WarehouseBounds DEF When, PhysicalOut
  <2> HIDE DEF all, waiting, moving, out
  <2>. QED  BY <2>1, <2>2, <2>3
<1>2. /\ all \in [1 .. MaxDocs -> Int] /\ waiting \in [1 .. MaxDocs -> Int]
      /\ moving \in [1 .. MaxDocs -> Int] /\ out \in [1 .. MaxDocs -> Int]
  BY <1>1, WarehouseBounds
<1> HIDE DEF all, waiting, moving, out
<1>3. /\ left1 \in [1 .. MaxDocs -> Int] /\ \A d \in 1 .. MaxDocs : left1[d] = all[d] + moving[d]
      /\ right1 \in [1 .. MaxDocs -> Int] /\ \A d \in 1 .. MaxDocs : right1[d] = waiting[d] + out[d]
      /\ left1 = right1
  BY <1>1, WarehouseBounds
<1> HIDE DEF left1, right1
<1>4. /\ Total(left1, MaxDocs) = Total(all, MaxDocs) + Total(moving, MaxDocs)
      /\ Total(right1, MaxDocs) = Total(waiting, MaxDocs) + Total(out, MaxDocs)
  BY <1>2, <1>3, WarehouseBounds, TotalAdds
<1>5. /\ Total(all, MaxDocs) \in Int /\ Total(moving, MaxDocs) \in Int
      /\ Total(waiting, MaxDocs) \in Int /\ Total(out, MaxDocs) \in Int
  BY <1>2, WarehouseBounds, TotalType
<1>6. /\ OnHand(l) = doc[l].quantity + doc[l].adjusted - doc[l].lost - Total(all, MaxDocs)
      /\ Reserved(l) = Total(waiting, MaxDocs) /\ InTransit(l) = Total(moving, MaxDocs)
      /\ Inside(doc, l) = doc[l].quantity + doc[l].adjusted - doc[l].lost - Total(out, MaxDocs)
  BY DEF OnHand, Reserved, InTransit, Inside, Amount, all, waiting, moving, out
<1>7. doc[l].quantity \in Nat /\ doc[l].lost \in Nat /\ doc[l].adjusted \in Int
  BY RowFields DEF DocsFit
<1>8. Total(all, MaxDocs) + Total(moving, MaxDocs) = Total(waiting, MaxDocs) + Total(out, MaxDocs)
  BY <1>3, <1>4
<1>. QED
  BY <1>5, <1>6, <1>7, <1>8

LEMMA DispatchWrites ==
  ASSUME IInv, Dispatch
  PROVE  SensibleWrite
<1>0. WhatsFit /\ DocsFit /\ FiledInOrder(doc) /\ slot \in [Slots -> SlotType]
  BY DEF IInv, TypeOK, TablesAgree, DocsFit
<1> DEFINE Line(l, q, outside) ==
             IF outside THEN Filed("outbound", "outside", doc[l].what, q, "dispatched", NoName, l)
             ELSE Filed("transfer", "team", doc[l].what, q, "pending", NoName, l)
           After(l, q, outside, clear) ==
             [doc EXCEPT ![NextDoc] = Line(l, q, outside),
                         ![l].adjusted = IF clear THEN @ - (OnHand(l) - q) ELSE @]
<1>1. PICK l \in Lots, q \in Amounts, outside \in BOOLEAN, clear \in BOOLEAN :
        LET line == IF outside THEN Filed("outbound", "outside", doc[l].what, q, "dispatched", NoName, l)
                    ELSE Filed("transfer", "team", doc[l].what, q, "pending", NoName, l)
            rest == OnHand(l) - q
        IN /\ NextDoc \in Docs /\ Spend("dispatch") /\ Settled /\ UNCHANGED slot
           /\ clear => rest > 0
           /\ Write([doc EXCEPT ![NextDoc] = line,
                                ![l].adjusted = IF clear THEN @ - rest ELSE @])
  BY Zenon DEF Dispatch
<1> DEFINE r == Line(l, q, outside)
           c == IF clear THEN doc[l].adjusted - (OnHand(l) - q) ELSE doc[l].adjusted
           after == After(l, q, outside, clear)
<1>2. l \in Docs /\ l # NextDoc /\ l \in 0..MaxDocs /\ doc[NextDoc] = NoDoc
  <2>1. l \in Docs /\ IsLot(l)
    BY DEF Lots
  <2>2. l < NextDoc
    BY <1>0, <2>1, FiledRows
  <2>. QED  BY <1>0, <1>1, <2>1, <2>2, NextDocFree, WarehouseBounds
<1>3. doc[l] \in DocType /\ doc[l].what \in Materials /\ doc[l].adjusted \in Int /\ OnHand(l) \in Int
  BY <1>0, <1>2, RowFields, OnHandType DEF DocsFit
<1>4. q \in Nat
  BY TableAssumption
<1>5. /\ r \in DocType /\ r.source = l /\ r.lost = 0 /\ r.adjusted = 0 /\ r.kind # "none"
      /\ r.to # "warehouse" /\ r.location = NoName
  BY <1>2, <1>3, <1>4 DEF Filed, DocType
<1>6. c \in Int
  BY <1>3, <1>4
<1>7. after = [doc EXCEPT ![NextDoc] = r, ![l].adjusted = c]
  BY <1>0, <1>1, <1>2, <1>3 DEF DocsFit
<1> HIDE DEF r, c, after
<1>8. Sensible(after, {})
  BY <1>1, <1>2, <1>5, <1>6, <1>7, LineLeaves
<1>. QED
  BY <1>0, <1>1, <1>8, ConsumeNothing, SpendKeepsWhats DEF SensibleWrite, Settled, after

LEMMA EditOutWrites ==
  ASSUME IInv, EditOut
  PROVE  SensibleWrite
<1>0. WhatsFit /\ DocsFit /\ FiledInOrder(doc) /\ DocsAgree(doc) /\ slot \in [Slots -> SlotType]
  BY DEF IInv, TypeOK, TablesAgree, DocsFit
<1> DEFINE After(d, q, clear) ==
             [doc EXCEPT ![d].quantity = q,
                         ![doc[d].source].adjusted =
                            IF clear THEN @ - (OnHand(doc[d].source) + doc[d].quantity - q) ELSE @]
<1>1. PICK d \in Docs, q \in Amounts, clear \in BOOLEAN :
        /\ doc[d].source # 0 /\ doc[d].status = "pending" /\ Spend("edit") /\ Settled /\ UNCHANGED slot
        /\ Write(After(d, q, clear))
  BY DEF EditOut
<1> DEFINE l == doc[d].source
           r == [doc[d] EXCEPT !.quantity = q]
           c == IF clear THEN doc[l].adjusted - (OnHand(l) + doc[d].quantity - q) ELSE doc[l].adjusted
           after == After(d, q, clear)
<1>2. l \in Docs /\ l \in Lots /\ IsLot(l) /\ d # l
  BY <1>0, <1>1, RowFields DEF DocsFit, DocsAgree, Lots, IsLot, Stocked
<1>3. /\ doc[l] \in DocType /\ doc[d] \in DocType /\ doc[l].adjusted \in Int /\ OnHand(l) \in Int
      /\ doc[d].quantity \in Nat /\ q \in Nat
  BY <1>0, <1>2, RowFields, OnHandType, TableAssumption DEF DocsFit
<1>4. doc[d].kind # "none" /\ doc[d].to # "warehouse" /\ doc[d].lost = 0 /\ doc[d].adjusted = 0
      /\ doc[d].location = NoName
  <2>1. doc[d].kind # "none"
    BY <1>0, <1>1, FiledRows
  <2>. QED  BY <1>0, <1>1, <2>1 DEF DocsAgree, Stocked
<1>5. /\ r \in DocType /\ r.source = l /\ r.lost = 0 /\ r.adjusted = 0 /\ r.kind # "none"
      /\ r.to # "warehouse" /\ r.location = NoName /\ r.what = doc[d].what
  BY <1>3, <1>4 DEF DocType
<1>6. c \in Int
  BY <1>3
<1>7. after = [doc EXCEPT ![d] = r, ![l].adjusted = c]
  BY <1>0, <1>2, <1>3 DEF DocsFit
<1>8. doc[d].source = l
  OBVIOUS
<1>9. Write(after)
  BY <1>1
<1> HIDE DEF l, r, c, after
<1>10. Sensible(after, {})
  BY <1>1, <1>2, <1>5, <1>6, <1>7, <1>8, LineLeaves
<1>. QED
  BY <1>0, <1>1, <1>9, <1>10, ConsumeNothing, SpendKeepsWhats DEF SensibleWrite, Settled

LEMMA LoseWrites ==
  ASSUME IInv, Lose
  PROVE  SensibleWrite
<1>0. WhatsFit /\ DocsFit /\ slot \in [Slots -> SlotType]
  BY DEF IInv, TypeOK, DocsFit
<1>1. PICK l \in Lots, q \in Amounts :
        /\ Spend("lose") /\ Settled /\ UNCHANGED slot /\ Write([doc EXCEPT ![l].lost = @ + q])
  BY DEF Lose
<1>2. l \in Docs /\ doc[l] \in DocType /\ doc[l].lost \in Nat /\ q \in Nat
  BY <1>0, RowFields, TableAssumption DEF DocsFit, Lots
<1> DEFINE r == [doc[l] EXCEPT !.lost = doc[l].lost + q]
<1>3. [doc EXCEPT ![l].lost = @ + q] = [doc EXCEPT ![l] = r]
  BY <1>0, <1>2 DEF DocsFit
<1>4. LotRow(doc[l], r)
  BY <1>2 DEF LotRow, DocType
<1> HIDE DEF r
<1>5. Sensible([doc EXCEPT ![l] = r], {})
  BY <1>4, LotChanges
<1>. QED
  BY <1>0, <1>1, <1>3, <1>5, ConsumeNothing, SpendKeepsWhats DEF SensibleWrite, Settled

LEMMA CorrectWrites ==
  ASSUME IInv, Correct
  PROVE  SensibleWrite
<1>0. WhatsFit /\ DocsFit /\ slot \in [Slots -> SlotType]
  BY DEF IInv, TypeOK, DocsFit
<1>1. PICK l \in Lots, q \in Amounts :
        /\ Spend("correct") /\ Settled /\ UNCHANGED slot /\ Write([doc EXCEPT ![l].quantity = q])
  BY DEF Correct
<1>2. l \in Docs /\ doc[l] \in DocType /\ q \in Nat
  BY <1>0, TableAssumption DEF DocsFit, Lots
<1> DEFINE r == [doc[l] EXCEPT !.quantity = q]
<1>3. [doc EXCEPT ![l].quantity = q] = [doc EXCEPT ![l] = r]
  BY <1>0, <1>2 DEF DocsFit
<1>4. LotRow(doc[l], r)
  BY <1>2 DEF LotRow, DocType
<1> HIDE DEF r
<1>5. Sensible([doc EXCEPT ![l] = r], {})
  BY <1>4, LotChanges
<1>. QED
  BY <1>0, <1>1, <1>3, <1>5, ConsumeNothing, SpendKeepsWhats DEF SensibleWrite, Settled

-----------------------------------------------------------------------------
(* What the people who share the slots see of a step.                       *)

View(s) == [claim |-> slot[s].key, live |-> Leased(s), contents |-> In(s),
            age |-> IF slot[s].key = NoForm THEN 0 ELSE Longest - slot[s].deadline,
            label |-> [name |-> slot[s].name, active |-> slot[s].active]]

Shares == \A s \in Slots : Promise!Step(View(s), View(s)')

\* A slot that stays as it is, or loses some of what it holds.
LEMMA SlotLoses ==
  ASSUME NEW s \in Slots, slot'[s].key = slot[s].key, slot'[s].until = slot[s].until,
         slot'[s].deadline = slot[s].deadline, slot'[s].name = slot[s].name,
         slot'[s].active = slot[s].active, In(s)' \subseteq In(s)
  PROVE  Promise!Step(View(s), View(s)')
<1>1. Promise!Leave(View(s), View(s)')
  BY DEF Promise!Leave, Promise!Keeps, View, Leased
<1>. QED
  BY <1>1 DEF Promise!Step

LEMMA SharesMeansNext ==
  ASSUME Shares
  PROVE  Promise!Next
BY DEF Shares, View, Promise!Next
\* A submitted document takes the form's slot and puts material in; any other slot
\* can only lose by a write.
LEMMA SensibleWriteShares ==
  ASSUME IInv, SensibleWrite
  PROVE  Shares
<1>0. /\ DocsFit /\ RowsFit /\ slot \in [Slots -> SlotType] /\ DocsAgree(doc)
      /\ RowsAgree(doc, placed)
  BY DEF IInv, TypeOK, TablesAgree, DocsFit, RowsFit
<1>1. PICK after, names : Sensible(after, names) /\ Write(after) /\ Consume(names)
  BY DEF SensibleWrite
<1>2. Orderly(after) /\ Taking(after, names)
  BY <1>1 DEF Sensible
<1>3. SUFFICES ASSUME NEW s \in Slots PROVE Promise!Step(View(s), View(s)')
  BY DEF Shares
<1>4. CASE slot[s].name \in names \ {NoName}
  <2>1. slot[s] \in SlotType /\ slot'[s] = Unleased(slot[s])
    BY <1>0, <1>1, <1>4 DEF Consume
  <2>2. /\ slot'[s].key = NoForm /\ slot'[s].until = 0
        /\ slot'[s].name = slot[s].name /\ slot'[s].active = slot[s].active
    BY <2>1 DEF Unleased, SlotType
  <2>3. Leased(s)
    BY <1>2, <1>4 DEF Taking
  <2>4. ASSUME NEW d \in In(s) PROVE d \in In(s)'
    <3>1. /\ d \in Docs /\ placed[s][d] > 0 /\ after[d] = doc[d]
          /\ \A e \in Docs : after[e].source = d => PhysicalOut(after, e) <= PhysicalOut(doc, e)
      BY <1>2, <1>4 DEF Taking, In
    <3>2. placed'[s][d] = placed[s][d]
      <4>1. CASE IsLot(d)
        BY <1>0, <1>1, <1>2, <3>1, <4>1, WriteTakes
      <4>2. CASE ~IsLot(d)
        BY <1>0, <1>1, <1>2, <3>1, <4>2, WriteTakes, ArrivedRow
      <4>. QED  BY <4>1, <4>2
    <3>. QED  BY <3>1, <3>2 DEF In
  <2>5. In(s) \subseteq In(s)' /\ ~Leased(s)'
    BY <2>2, <2>4 DEF Leased
  <2>6. /\ View(s).live /\ View(s).contents = In(s) /\ View(s)'.contents = In(s)'
        /\ View(s)'.claim = NoForm /\ ~View(s)'.live /\ View(s)'.age = 0
        /\ View(s)'.label = View(s).label
    BY <2>2, <2>3, <2>5 DEF View
  <2>7. Promise!Submit(View(s), View(s)')
    BY <2>5, <2>6 DEF Promise!Submit, Promise!Free, Promise!Keeps
  <2>. QED  BY <2>7 DEF Promise!Step
<1>5. CASE slot[s].name \notin names \ {NoName}
  <2>1. slot'[s] = slot[s]
    BY <1>1, <1>5 DEF Consume
  <2>2. ASSUME NEW d \in In(s)' PROVE d \in In(s)
    <3>1. d \in Docs /\ placed'[s][d] > 0
      BY DEF In
    <3>2. ~Enters(after, d, s)
      BY <1>2, <1>5, <3>1 DEF Taking, Enters
    <3>3. placed[s][d] > 0
      BY <1>0, <1>1, <1>2, <3>1, <3>2, WriteFills
    <3>. QED  BY <3>1, <3>3 DEF In
  <2>. QED  BY <2>1, <2>2, SlotLoses
<1>. QED
  BY <1>4, <1>5

LEMMA UnleasedRow ==
  ASSUME NEW row \in SlotType
  PROVE  /\ Unleased(row) \in SlotType /\ LeaseAgrees(Unleased(row))
         /\ Unleased(row).name = row.name /\ Unleased(row).active = row.active
         /\ Unleased(row).key = NoForm /\ Unleased(row).until = 0 /\ Unleased(row).deadline = NoTime
<1>1. 0 \in 0..Lease /\ NoTime \in NoTime..Longest
  BY LeaseAssumption DEF NoTime
<1>. QED
  BY <1>1 DEF Unleased, SlotType, LeaseAgrees

LEMMA SensibleWriteAgrees ==
  ASSUME IInv, SensibleWrite
  PROVE  IInv'
<1>0. /\ DocsFit /\ RowsFit /\ slot \in [Slots -> SlotType] /\ DocsAgree(doc)
      /\ RowsAgree(doc, placed) /\ SlotsAgree(slot, placed) /\ \A s \in Slots : LeaseAgrees(slot[s])
  BY DEF IInv, TypeOK, TablesAgree, DocsFit, RowsFit
<1>1. PICK after, names : /\ Sensible(after, names) /\ Write(after) /\ Consume(names)
                          /\ UNCHANGED <<screen, plan>> /\ WhatsFit'
  BY DEF SensibleWrite
<1>2. Orderly(after) /\ FiledInOrder(after) /\ doc' = after
  BY <1>1 DEF Sensible, Write
<1>3. doc' \in [Docs -> DocType] /\ DocsAgree(doc')
  BY <1>0, <1>2, OrderlyFits, OrderlyDocsAgree
<1>4. placed' \in [Slots -> [Docs -> Nat]]
  BY <1>0, <1>1, <1>2, WriteTakes
<1>5. RowsAgree(doc', placed') /\ SlotsAgree(slot, placed')
  BY <1>0, <1>1, <1>2, WriteAgrees
<1>6. ASSUME NEW s \in Slots
      PROVE  /\ slot'[s] \in SlotType /\ LeaseAgrees(slot'[s])
             /\ slot'[s].name = slot[s].name /\ slot'[s].active = slot[s].active
  <2>1. slot[s] \in SlotType /\ LeaseAgrees(slot[s])
    BY <1>0
  <2>2. slot'[s] = slot[s] \/ slot'[s] = Unleased(slot[s])
    BY <1>1 DEF Consume
  <2>3. Unleased(slot[s]) \in SlotType /\ LeaseAgrees(Unleased(slot[s]))
        /\ Unleased(slot[s]).name = slot[s].name /\ Unleased(slot[s]).active = slot[s].active
    BY <2>1, UnleasedRow
  <2>. QED  BY <2>1, <2>2, <2>3
<1>7. slot' \in [Slots -> SlotType]
  BY <1>1, <1>6 DEF Consume
<1>8. SlotsAgree(slot', placed')
  BY <1>5, <1>6 DEF SlotsAgree
<1>9. TypeOK'
  BY <1>1, <1>3, <1>4, <1>7 DEF IInv, TypeOK
<1>10. TablesAgree'
  BY <1>2, <1>3, <1>5, <1>6, <1>8 DEF TablesAgree, FiledInOrder, DocsAgree, SlotsAgree, RowsAgree,
     LeaseAgrees
<1>. QED
  BY <1>1, <1>9, <1>10 DEF IInv

\* A write keeps slots that hold one material that way.
LEMMA SensibleWriteUnmixed ==
  ASSUME IInv, SensibleWrite, Unmixed(doc, placed)
  PROVE  Unmixed(doc', placed')
<1>0. /\ DocsFit /\ RowsFit /\ DocsAgree(doc) /\ RowsAgree(doc, placed)
  BY DEF IInv, TypeOK, TablesAgree, DocsFit, RowsFit
<1>1. PICK after, names : Sensible(after, names) /\ Write(after)
  BY DEF SensibleWrite
<1>2. Orderly(after) /\ Suited(after) /\ doc' = after
  BY <1>1 DEF Sensible, Write
<1>3. ASSUME NEW s \in Slots, NEW d \in Docs, NEW e \in Docs, placed'[s][d] > 0, placed'[s][e] > 0
      PROVE  after[d].what = after[e].what
  <2>1. (d \in In(s) \/ Enters(after, d, s)) /\ (e \in In(s) \/ Enters(after, e, s))
    BY <1>0, <1>1, <1>2, <1>3, WriteFills DEF In
  <2>2. CASE /\ d \in In(s) /\ e \in In(s)
             /\ after[d].what = doc[d].what /\ after[e].what = doc[e].what
    BY <2>2 DEF In, Unmixed
  <2>. QED  BY <1>2, <2>1, <2>2 DEF Suited
<1>. QED
  BY <1>2, <1>3 DEF Unmixed

-----------------------------------------------------------------------------
(* The operations on slots.                                                *)

\* A step that leaves documents and placements alone.
LEMMA SlotsChange ==
  ASSUME IInv, UNCHANGED <<doc, placed>>, slot' \in [Slots -> SlotType],
         \A s \in Slots : LeaseAgrees(slot'[s]), SlotsAgree(slot', placed),
         screen' = <<>> \/ screen'[1] \in Slots, DOMAIN plan' \subseteq Slots, WhatsFit'
  PROVE  IInv'
<1>1. TypeOK'
  BY DEF IInv, TypeOK
<1>2. TablesAgree'
  BY DEF IInv, TablesAgree, FiledInOrder, DocsAgree, SlotsAgree, RowsAgree, LeaseAgrees
<1>. QED
  BY <1>1, <1>2 DEF IInv

LEMMA HeldRow ==
  ASSUME NEW row \in SlotType, LeaseAgrees(row), row.active, NEW f \in Forms,
         row.key = f => row.deadline # 0
  PROVE  /\ Held(row, f) \in SlotType /\ LeaseAgrees(Held(row, f))
         /\ Held(row, f).name = row.name /\ Held(row, f).active = row.active
         /\ Held(row, f).key = f /\ Held(row, f).until > 0
         /\ Held(row, f).deadline \in 1..Longest
         /\ Held(row, f).deadline = (IF row.key = f THEN row.deadline ELSE Longest)
<1>1. /\ row.name \in Names \union {NoName} /\ row.active \in BOOLEAN
      /\ row.version \in Nat \ {0} /\ row.key \in Forms \union {NoForm}
      /\ row.until \in 0..Lease /\ row.deadline \in NoTime..Longest
  BY DEF SlotType
<1>2. f # NoForm /\ Lease \in Nat /\ Lease > 0 /\ Longest \in Nat /\ Longest > 0 /\ NoTime = -1
  BY LeaseAssumption, TableAssumption DEF NoTime
<1> DEFINE deadline == IF row.key = f /\ row.deadline # NoTime THEN row.deadline ELSE Longest
           until == Least(Lease, deadline)
<1>3. row.key = f => row.deadline >= 0
  BY <1>2 DEF LeaseAgrees
<1>4. deadline \in 1..Longest /\ deadline = (IF row.key = f THEN row.deadline ELSE Longest)
  BY <1>1, <1>2, <1>3
<1>5. Held(row, f) = [row EXCEPT !.key = f, !.deadline = deadline, !.until = until]
  BY DEF Held
<1> HIDE DEF deadline
<1>6. until \in 0..Lease /\ until > 0 /\ until <= deadline
  BY <1>2, <1>4 DEF Least
<1>7. deadline \in NoTime..Longest
  BY <1>2, <1>4
<1> HIDE DEF until
<1>8. /\ Held(row, f) \in SlotType /\ Held(row, f).name = row.name /\ Held(row, f).active = row.active
      /\ Held(row, f).key = f /\ Held(row, f).until = until /\ Held(row, f).deadline = deadline
  BY <1>5, <1>6, <1>7 DEF SlotType
<1>. QED
  BY <1>2, <1>4, <1>6, <1>8 DEF LeaseAgrees

LEMMA ReserveKeeps ==
  ASSUME IInv, NEW s \in Slots, NEW f \in Forms, NEW what, Reserve(s, f, what)
  PROVE  IInv' /\ Shares /\ UNCHANGED <<doc, placed>>
<1>0. slot \in [Slots -> SlotType] /\ \A t \in Slots : LeaseAgrees(slot[t])
  BY DEF IInv, TypeOK, TablesAgree
<1>1. /\ slot[s].active /\ (Leased(s) => slot[s].key = f) /\ (slot[s].key = f => slot[s].deadline # 0)
      /\ slot'[s] = Held(slot[s], f) /\ slot' = [slot EXCEPT ![s] = Held(slot[s], f)]
      /\ \A t \in Slots : t # s => slot'[t] = slot[t]
      /\ UNCHANGED <<doc, placed, screen, plan>> /\ Spend("claim")
  BY <1>0 DEF Reserve, Admits
<1> DEFINE row == Held(slot[s], f)
<1>2. /\ row \in SlotType /\ LeaseAgrees(row)
      /\ row.name = slot[s].name /\ row.active = slot[s].active
      /\ row.key = f /\ row.until > 0 /\ row.deadline \in 1..Longest
      /\ row.deadline = (IF slot[s].key = f THEN slot[s].deadline ELSE Longest)
  <2>1. slot[s] \in SlotType /\ LeaseAgrees(slot[s])
    BY <1>0
  <2>2. slot[s].active /\ (slot[s].key = f => slot[s].deadline # 0)
    BY <1>1
  <2>. QED  BY <2>1, <2>2, HeldRow, Zenon
<1> HIDE DEF row
<1>3. slot' \in [Slots -> SlotType]
  BY <1>0, <1>1, <1>2 DEF row
<1>4. \A t \in Slots : LeaseAgrees(slot'[t]) /\ slot'[t].name = slot[t].name
                       /\ slot'[t].active = slot[t].active
  BY <1>0, <1>1, <1>2 DEF row
<1>5. SlotsAgree(slot', placed)
  BY <1>4 DEF IInv, TablesAgree, SlotsAgree
<1>6. IInv'
  <2>1. WhatsFit'
    BY <1>1, SpendKeepsWhats DEF IInv
  <2>. QED  BY <1>1, <1>3, <1>4, <1>5, <2>1, SlotsChange DEF IInv, TypeOK
<1>7. ASSUME NEW t \in Slots, t # s PROVE Promise!Step(View(t), View(t)')
  <2>1. In(t)' \subseteq In(t)
    BY <1>1 DEF In
  <2>. QED  BY <1>1, <1>7, <2>1, SlotLoses
<1>8. In(s)' = In(s)
  BY <1>1 DEF In
<1>9. f # NoForm /\ Longest \in Nat /\ slot[s].deadline \in NoTime..Longest
  BY <1>0, TableAssumption, LeaseAssumption, SlotFields
<1>10. ASSUME Leased(s) PROVE Promise!Step(View(s), View(s)')
  <2>1. slot[s].key = f /\ row.deadline = slot[s].deadline
    BY <1>1, <1>2, <1>10
  <2>2. Promise!Leave(View(s), View(s)')
    BY <1>1, <1>2, <1>8, <1>10, <2>1 DEF Promise!Leave, Promise!Keeps, View, Leased, row
  <2>. QED  BY <2>2 DEF Promise!Step
<1>11. ASSUME ~Leased(s) PROVE Promise!Step(View(s), View(s)')
  <2>1. /\ ~View(s).live /\ View(s).label.active /\ View(s)'.contents = View(s).contents
        /\ View(s)'.label = View(s).label
    BY <1>1, <1>2, <1>8, <1>11 DEF View, row
  <2>2. View(s)'.live /\ View(s)'.claim = f /\ View(s).claim = slot[s].key
    BY <1>1, <1>2, <1>9 DEF View, Leased, row
  <2>3. View(s)'.age = Longest - row.deadline
    BY <1>1, <1>2, <1>9 DEF View, row
  <2>4. slot[s].key = f => View(s).age = Longest - slot[s].deadline
    BY <1>9 DEF View
  <2>5. View(s)'.age = (IF slot[s].key = f THEN View(s).age ELSE 0) /\ View(s)'.age < Longest
    BY <1>2, <1>9, <2>3, <2>4
  <2>6. Promise!Claim(View(s), View(s)')
    BY <1>9, <2>1, <2>2, <2>5 DEF Promise!Claim, Promise!Keeps
  <2>. QED  BY <2>6 DEF Promise!Step
<1>12. Shares
  BY <1>7, <1>10, <1>11 DEF Shares
<1>. QED
  BY <1>1, <1>6, <1>12

LEMMA ReleaseKeeps ==
  ASSUME IInv, NEW s \in Slots, NEW f \in Forms, Release(s, f)
  PROVE  IInv' /\ Shares /\ UNCHANGED <<doc, placed>>
<1>0. slot \in [Slots -> SlotType] /\ \A t \in Slots : LeaseAgrees(slot[t])
  BY DEF IInv, TypeOK, TablesAgree
<1>1. /\ slot[s].key = f /\ slot'[s] = Unleased(slot[s]) /\ slot' = [slot EXCEPT ![s] = Unleased(slot[s])]
      /\ \A t \in Slots : t # s => slot'[t] = slot[t]
      /\ UNCHANGED <<doc, placed, screen, plan, left>>
  BY <1>0 DEF Release
<1>2. /\ slot'[s] \in SlotType /\ LeaseAgrees(slot'[s])
      /\ slot'[s].name = slot[s].name /\ slot'[s].active = slot[s].active
      /\ slot'[s].key = NoForm /\ slot'[s].until = 0 /\ slot'[s].deadline = NoTime
  <2>1. slot[s] \in SlotType /\ LeaseAgrees(slot[s])
    BY <1>0
  <2>. QED  BY <1>1, <2>1, UnleasedRow
<1>3. slot' \in [Slots -> SlotType]
  BY <1>0, <1>1, <1>2
<1>4. \A t \in Slots : LeaseAgrees(slot'[t]) /\ slot'[t].name = slot[t].name
                       /\ slot'[t].active = slot[t].active
  BY <1>0, <1>1, <1>2
<1>5. SlotsAgree(slot', placed)
  BY <1>4 DEF IInv, TablesAgree, SlotsAgree
<1>6. IInv'
  BY <1>1, <1>3, <1>4, <1>5, SlotsChange DEF IInv, TypeOK, WhatsFit
<1>7. ASSUME NEW t \in Slots, t # s PROVE Promise!Step(View(t), View(t)')
  <2>1. In(t)' \subseteq In(t)
    BY <1>1 DEF In
  <2>. QED  BY <1>1, <1>7, <2>1, SlotLoses
<1>8. Promise!GiveUp(View(s), View(s)')
  <2>1. In(s)' = In(s) /\ f # NoForm
    BY <1>1, TableAssumption DEF In
  <2>2. /\ View(s).claim # NoForm /\ View(s)'.contents = View(s).contents
        /\ View(s)'.label = View(s).label
    BY <1>1, <1>2, <2>1 DEF View
  <2>3. View(s)'.claim = NoForm /\ ~View(s)'.live /\ View(s)'.age = 0
    BY <1>2 DEF View, Leased
  <2>. QED  BY <2>2, <2>3 DEF Promise!GiveUp, Promise!Free, Promise!Keeps
<1>9. Shares
  BY <1>7, <1>8 DEF Shares, Promise!Step
<1>. QED
  BY <1>1, <1>6, <1>9

\* Time runs for claimed slots only, and a claim is over with its time.
LEMMA TickKeeps ==
  ASSUME IInv, Tick
  PROVE  IInv' /\ Shares /\ UNCHANGED <<doc, placed>>
<1>0. slot \in [Slots -> SlotType] /\ \A t \in Slots : LeaseAgrees(slot[t])
  BY DEF IInv, TypeOK, TablesAgree
<1> DEFINE older(t) == IF t > 0 THEN t - 1 ELSE t
<1>1. /\ slot' = [s \in Slots |-> [slot[s] EXCEPT !.until = older(@), !.deadline = older(@)]]
      /\ UNCHANGED <<doc, placed, screen, plan, left>>
  BY DEF Tick
<1>2. ASSUME NEW s \in Slots
      PROVE  /\ slot'[s] \in SlotType /\ LeaseAgrees(slot'[s])
             /\ slot'[s].name = slot[s].name /\ slot'[s].active = slot[s].active
             /\ slot'[s].key = slot[s].key
             /\ slot'[s].until = older(slot[s].until) /\ slot'[s].deadline = older(slot[s].deadline)
  <2>1. /\ slot[s] \in SlotType /\ LeaseAgrees(slot[s])
        /\ slot[s].until \in 0..Lease /\ slot[s].deadline \in NoTime..Longest
    BY <1>0, SlotFields
  <2>2. Lease \in Nat /\ Longest \in Nat /\ NoTime = -1
    BY LeaseAssumption DEF NoTime
  <2>3. slot'[s] = [slot[s] EXCEPT !.until = older(slot[s].until), !.deadline = older(slot[s].deadline)]
    BY <1>1, <2>1 DEF SlotType
  <2>4. older(slot[s].until) \in 0..Lease /\ older(slot[s].deadline) \in NoTime..Longest
    BY <2>1, <2>2
  <2>5. /\ slot'[s] \in SlotType
        /\ slot'[s].name = slot[s].name /\ slot'[s].active = slot[s].active
        /\ slot'[s].key = slot[s].key
        /\ slot'[s].until = older(slot[s].until) /\ slot'[s].deadline = older(slot[s].deadline)
    <3> HIDE DEF older
    <3>. QED  BY <2>1, <2>3, <2>4 DEF SlotType
  <2>6. LeaseAgrees(slot'[s])
    BY <2>1, <2>2, <2>5 DEF LeaseAgrees
  <2>. QED  BY <2>5, <2>6
<1>3. slot' \in [Slots -> SlotType]
  BY <1>1, <1>2
<1>4. SlotsAgree(slot', placed)
  BY <1>2 DEF IInv, TablesAgree, SlotsAgree
<1>5. IInv'
  BY <1>1, <1>2, <1>3, <1>4, SlotsChange DEF IInv, TypeOK, WhatsFit
<1>6. ASSUME NEW s \in Slots PROVE Promise!Step(View(s), View(s)')
  <2>1. /\ LeaseAgrees(slot[s]) /\ slot[s].until \in 0..Lease /\ slot[s].deadline \in NoTime..Longest
        /\ Lease \in Nat /\ Longest \in Nat /\ NoTime = -1
    BY <1>0, LeaseAssumption, SlotFields DEF NoTime
  <2>2. In(s)' = In(s)
    BY <1>1 DEF In
  <2>3. CASE slot[s].key = NoForm \/ slot[s].deadline = 0
    <3>1. slot'[s].until = slot[s].until /\ slot'[s].deadline = slot[s].deadline
      BY <1>2, <2>1, <2>3 DEF LeaseAgrees
    <3>. QED  BY <1>2, <2>2, <3>1, SlotLoses
  <2>4. CASE slot[s].key # NoForm /\ slot[s].deadline # 0
    <3>1. slot[s].deadline \in 1..Longest /\ slot[s].until <= slot[s].deadline
      BY <2>1, <2>4 DEF LeaseAgrees
    <3>2. slot'[s].deadline = slot[s].deadline - 1 /\ slot'[s].key # NoForm
          /\ slot'[s].until = older(slot[s].until)
      BY <1>2, <2>4, <3>1
    <3>3. /\ View(s).claim # NoForm /\ View(s).age = Longest - slot[s].deadline
          /\ View(s)'.age = Longest - (slot[s].deadline - 1)
          /\ View(s)'.claim = View(s).claim /\ View(s)'.contents = View(s).contents
          /\ View(s)'.label = View(s).label
      BY <1>2, <2>2, <2>4, <3>2 DEF View
    <3>4. View(s)'.live => View(s).live /\ slot[s].deadline > 1
      <4>1. View(s).live <=> slot[s].until > 0
        BY <2>4 DEF View, Leased
      <4>2. View(s)'.live <=> slot'[s].until > 0
        BY <3>2 DEF View, Leased
      <4>. QED  BY <2>1, <3>1, <3>2, <4>1, <4>2
    <3>5. View(s).age < Longest /\ View(s)'.age = View(s).age + 1
          /\ (View(s)'.live => View(s).live /\ View(s)'.age < Longest)
      BY <2>1, <3>1, <3>3, <3>4
    <3>6. Promise!Wait(View(s), View(s)')
      BY <3>3, <3>5 DEF Promise!Wait, Promise!Keeps
    <3>. QED  BY <3>6 DEF Promise!Step
  <2>. QED  BY <2>3, <2>4
<1>. QED
  BY <1>1, <1>5, <1>6 DEF Shares

\* A manager names a slot that no form has, and puts it into use or, empty, out of it.
LEMMA SlotEdited ==
  ASSUME IInv, NEW s \in Slots, ~Leased(s), NEW name \in Names, NEW active \in BOOLEAN,
         ~active => In(s) = {}, NEW version \in Nat \ {0},
         name = slot[s].name \/ ~Taken(name),
         slot' = [slot EXCEPT ![s] = [@ EXCEPT !.name = name, !.active = active, !.version = version]],
         UNCHANGED <<doc, placed, screen, plan>>, WhatsFit'
  PROVE  IInv' /\ Shares
<1>0. /\ slot \in [Slots -> SlotType] /\ (\A t \in Slots : LeaseAgrees(slot[t]))
      /\ SlotsAgree(slot, placed) /\ RowsFit
  BY DEF IInv, TypeOK, TablesAgree, RowsFit
<1>1. slot[s] \in SlotType /\ LeaseAgrees(slot[s]) /\ name # NoName
  BY <1>0, TableAssumption
<1>2. /\ slot'[s] = [slot[s] EXCEPT !.name = name, !.active = active, !.version = version]
      /\ \A t \in Slots : t # s => slot'[t] = slot[t]
  BY <1>0
<1>3. /\ slot'[s] \in SlotType /\ slot'[s].name = name /\ slot'[s].active = active
      /\ slot'[s].key = slot[s].key /\ slot'[s].until = slot[s].until
      /\ slot'[s].deadline = slot[s].deadline
  <2>1. ASSUME NEW row \in SlotType
        PROVE  LET new == [row EXCEPT !.name = name, !.active = active, !.version = version]
               IN /\ new \in SlotType /\ new.name = name /\ new.active = active
                  /\ new.key = row.key /\ new.until = row.until /\ new.deadline = row.deadline
    BY <2>1 DEF SlotType
  <2>. QED  BY <1>1, <1>2, <2>1
<1>4. LeaseAgrees(slot'[s])
  BY <1>1, <1>3 DEF LeaseAgrees, Leased
<1>5. slot' \in [Slots -> SlotType] /\ \A t \in Slots : LeaseAgrees(slot'[t])
  BY <1>0, <1>2, <1>3, <1>4
<1>6. SlotsAgree(slot', placed)
  <2>1. ASSUME NEW t \in Slots, NEW u \in Slots, slot'[t].name = slot'[u].name, slot'[t].name # NoName
        PROVE  t = u
    <3>1. \A v \in Slots : v # s => slot[v].name # name
      BY <1>0, <1>1 DEF Taken, SlotsAgree
    <3>. QED  BY <1>0, <1>2, <1>3, <2>1, <3>1 DEF SlotsAgree
  <2>2. \A t \in Slots : slot'[t].name = NoName => ~slot'[t].active
    BY <1>0, <1>1, <1>2, <1>3 DEF SlotsAgree
  <2>3. ASSUME NEW t \in Slots, NEW d \in Docs, placed[t][d] > 0 PROVE slot'[t].active
    <3>1. CASE t = s
      <4>1. d \in In(s)
        BY <2>3, <3>1 DEF In
      <4>. QED  BY <1>3, <3>1, <4>1
    <3>2. CASE t # s
      BY <1>0, <1>2, <2>3, <3>2 DEF SlotsAgree
    <3>. QED  BY <3>1, <3>2
  <2>. QED  BY <2>1, <2>2, <2>3 DEF SlotsAgree
<1>7. IInv'
  BY <1>5, <1>6, SlotsChange DEF IInv, TypeOK
<1>8. ASSUME NEW t \in Slots PROVE Promise!Step(View(t), View(t)')
  <2>1. In(t)' = In(t)
    BY DEF In
  <2>2. ASSUME t # s PROVE Promise!Step(View(t), View(t)')
    BY <1>2, <2>1, <2>2, SlotLoses
  <2>3. Promise!Edit(View(s), View(s)')
    <3>1. In(s)' = In(s)
      BY DEF In
    <3>2. /\ ~View(s).live /\ (View(s)'.label.active \/ View(s).contents = {})
          /\ View(s)'.claim = View(s).claim /\ View(s)'.live = View(s).live
          /\ View(s)'.age = View(s).age /\ View(s)'.contents = View(s).contents
      <4>1. Leased(s)' = Leased(s) /\ ~Leased(s)
        BY <1>3 DEF Leased
      <4>. QED  BY <1>3, <3>1, <4>1 DEF View
    <3>. QED  BY <3>2 DEF Promise!Edit, Promise!Keeps
  <2>. QED  BY <2>2, <2>3 DEF Promise!Step
<1>. QED
  BY <1>7, <1>8 DEF Shares

LEMMA CreateSlotKeeps ==
  ASSUME IInv, CreateSlot
  PROVE  IInv' /\ Shares /\ UNCHANGED <<doc, placed>>
<1>0. slot \in [Slots -> SlotType] /\ SlotsAgree(slot, placed) /\ RowsFit /\ WhatsFit
      /\ \A t \in Slots : LeaseAgrees(slot[t])
  BY DEF IInv, TypeOK, TablesAgree, RowsFit
<1>1. PICK s \in Slots, name \in Names, active \in BOOLEAN :
        /\ ~Exists(s) /\ ~Taken(name) /\ Spend("manage")
        /\ slot' = [slot EXCEPT ![s].name = name, ![s].active = active]
        /\ UNCHANGED <<doc, placed, screen, plan>>
  BY DEF CreateSlot
<1>2. slot[s] \in SlotType /\ slot[s].version \in Nat \ {0} /\ LeaseAgrees(slot[s])
      /\ slot[s].until \in 0..Lease
  BY <1>0, SlotFields
<1>3. slot' = [slot EXCEPT ![s] = [@ EXCEPT !.name = name, !.active = active,
                                            !.version = slot[s].version]]
  BY <1>0, <1>1, <1>2 DEF SlotType
<1>4. ~slot[s].active
  BY <1>0, <1>1 DEF SlotsAgree, Exists
<1>5. In(s) = {} /\ ~Leased(s)
  BY <1>0, <1>2, <1>4 DEF SlotsAgree, In, LeaseAgrees, Leased
<1>6. WhatsFit'
  BY <1>0, <1>1, SpendKeepsWhats
<1>. QED
  BY <1>1, <1>2, <1>3, <1>5, <1>6, SlotEdited

LEMMA EditSlotKeeps ==
  ASSUME IInv, EditSlot
  PROVE  IInv' /\ Shares /\ UNCHANGED <<doc, placed>>
<1>0. slot \in [Slots -> SlotType] /\ WhatsFit
  BY DEF IInv, TypeOK
<1> DEFINE s == screen[1]
<1>1. PICK name \in Names, active \in BOOLEAN :
        /\ Fresh /\ Editable(s, active) /\ (name = slot[s].name \/ ~Taken(name)) /\ Spend("manage")
        /\ slot' = [slot EXCEPT ![s].name = name, ![s].active = active, ![s].version = @ + 1]
        /\ UNCHANGED <<doc, placed, screen, plan>>
  BY DEF EditSlot
<1>2. s \in Slots
  BY <1>1 DEF IInv, TypeOK, Fresh
<1> HIDE DEF s
<1>3. slot[s] \in SlotType /\ slot[s].version \in Nat \ {0} /\ slot[s].version + 1 \in Nat \ {0}
  BY <1>0, <1>2, SlotFields
<1>4. slot' = [slot EXCEPT ![s] = [@ EXCEPT !.name = name, !.active = active,
                                            !.version = slot[s].version + 1]]
  BY <1>0, <1>1, <1>2, <1>3 DEF SlotType
<1>5. ~Leased(s) /\ (~active => In(s) = {})
  BY <1>1 DEF Editable
<1>6. WhatsFit'
  BY <1>0, <1>1, SpendKeepsWhats
<1>. QED
  BY <1>1, <1>2, <1>3, <1>4, <1>5, <1>6, SlotEdited

LEMMA LookKeeps ==
  ASSUME IInv, Look
  PROVE  IInv' /\ Shares /\ UNCHANGED <<doc, placed>>
<1>1. PICK s \in Slots : screen' = <<s, slot[s].version>> /\ Spend("look")
                         /\ UNCHANGED <<slot, doc, placed, plan>>
  BY DEF Look
<1>2. screen'[1] \in Slots
  BY <1>1
<1>3. IInv'
  BY <1>1, <1>2, SpendKeepsWhats, SlotsChange DEF IInv, TypeOK, TablesAgree
<1>4. ASSUME NEW t \in Slots PROVE Promise!Step(View(t), View(t)')
  <2>1. In(t)' = In(t)
    BY <1>1 DEF In
  <2>. QED  BY <1>1, <2>1, SlotLoses
<1>. QED
  BY <1>1, <1>3, <1>4 DEF Shares

LEMMA PlanCleanupKeeps ==
  ASSUME IInv, PlanCleanup
  PROVE  IInv' /\ Shares /\ UNCHANGED <<doc, placed>>
<1>1. Spend("tidy") /\ plan' = Preview /\ UNCHANGED <<slot, doc, placed, screen>>
  BY DEF PlanCleanup
<1>2. DOMAIN plan' \subseteq Slots
  BY <1>1 DEF Preview, Crowded
<1>3. IInv'
  BY <1>1, <1>2, SpendKeepsWhats, SlotsChange DEF IInv, TypeOK, TablesAgree
<1>4. ASSUME NEW s \in Slots PROVE Promise!Step(View(s), View(s)')
  <2>1. In(s)' = In(s)
    BY <1>1 DEF In
  <2>. QED  BY <1>1, <2>1, SlotLoses
<1>. QED
  BY <1>1, <1>3, <1>4 DEF Shares

-----------------------------------------------------------------------------
(* Stock that is put into slots by hand, and taken out of crowded ones.     *)

\* What is put into one slot is put into all of them together.
LEMMA StoredAdds ==
  ASSUME NEW rows \in [Slots -> [Docs -> Nat]], NEW next \in [Slots -> [Docs -> Nat]],
         NEW s \in Slots, NEW l \in Docs, NEW q \in Nat, next[s][l] = rows[s][l] + q,
         \A t \in Slots : t # s => next[t][l] = rows[t][l]
  PROVE  Stored(next, l) = Stored(rows, l) + q
<1> DEFINE f == [t \in Slots |-> rows[t][l]]
           g == [t \in Slots |-> IF t = s THEN q ELSE 0]
           h == [t \in Slots |-> next[t][l]]
<1>1. MaxSlots \in Nat /\ Slots = 1..MaxSlots
  BY WarehouseBounds
<1>2. /\ f \in [1..MaxSlots -> Int] /\ g \in [1..MaxSlots -> Int] /\ h \in [1..MaxSlots -> Int]
      /\ \A t \in 1..MaxSlots : t # s => g[t] = 0
      /\ g[s] = q /\ s \in 1..MaxSlots
  BY <1>1
<1>3. ASSUME NEW t \in 1..MaxSlots PROVE h[t] = f[t] + g[t]
  <2>1. t \in Slots /\ rows[t][l] \in Nat
    BY <1>1
  <2>. QED  BY <2>1
<1>4. Stored(rows, l) = Total(f, MaxSlots) /\ Stored(next, l) = Total(h, MaxSlots)
  BY DEF Stored
<1> HIDE DEF f, g, h
<1>5. Total(h, MaxSlots) = Total(f, MaxSlots) + Total(g, MaxSlots)
  BY <1>1, <1>2, <1>3, TotalAdds
<1>6. Total(g, MaxSlots) = q
  BY <1>1, <1>2, TotalOfOne
<1>. QED
  BY <1>4, <1>5, <1>6

\* Slots that each hold less of a document hold less of it together.
LEMMA StoredLess ==
  ASSUME NEW rows \in [Slots -> [Docs -> Nat]], NEW next \in [Slots -> [Docs -> Nat]],
         NEW l \in Docs, \A t \in Slots : next[t][l] <= rows[t][l]
  PROVE  Stored(next, l) <= Stored(rows, l)
<1> DEFINE f == [t \in Slots |-> rows[t][l]]
           g == [t \in Slots |-> rows[t][l] - next[t][l]]
           h == [t \in Slots |-> next[t][l]]
<1>1. MaxSlots \in Nat /\ Slots = 1..MaxSlots
  BY WarehouseBounds
<1>2. ASSUME NEW t \in 1..MaxSlots
      PROVE  f[t] \in Nat /\ h[t] \in Nat /\ g[t] \in Nat /\ f[t] = h[t] + g[t]
  <2>1. t \in Slots /\ rows[t][l] \in Nat /\ next[t][l] \in Nat /\ next[t][l] <= rows[t][l]
    BY <1>1
  <2>. QED  BY <2>1
<1>3. /\ f \in [1..MaxSlots -> Int] /\ h \in [1..MaxSlots -> Int]
      /\ g \in [1..MaxSlots -> Int] /\ g \in [1..MaxSlots -> Nat]
  <2>1. DOMAIN f = 1..MaxSlots /\ DOMAIN g = 1..MaxSlots /\ DOMAIN h = 1..MaxSlots
    BY <1>1
  <2>. QED  BY <1>1, <1>2
<1>4. Stored(rows, l) = Total(f, MaxSlots) /\ Stored(next, l) = Total(h, MaxSlots)
  BY DEF Stored
<1> HIDE DEF f, g, h
<1>5. Total(f, MaxSlots) = Total(h, MaxSlots) + Total(g, MaxSlots)
  BY <1>1, <1>2, <1>3, TotalAdds
<1>6. Total(g, MaxSlots) \in Nat /\ Total(h, MaxSlots) \in Int
  BY <1>1, <1>3, TotalOfNat, TotalType
<1>. QED
  BY <1>4, <1>5, <1>6

\* The row of a slot whose stock was arranged.
LEMMA ArrangedRow ==
  ASSUME NEW row \in SlotType, LeaseAgrees(row), NEW new, new = [row EXCEPT !.version = @ + 1]
  PROVE  /\ new \in SlotType /\ LeaseAgrees(new)
         /\ new.key = row.key /\ new.until = row.until /\ new.deadline = row.deadline
         /\ new.name = row.name /\ new.active = row.active
<1>1. /\ new \in SlotType
      /\ new.key = row.key /\ new.until = row.until /\ new.deadline = row.deadline
      /\ new.name = row.name /\ new.active = row.active
  BY DEF SlotType
<1>2. LeaseAgrees(new)
  BY <1>1 DEF LeaseAgrees
<1>. QED
  BY <1>1, <1>2

\* Stock of a lot that is in no slot goes into one that no form has.
LEMMA PlaceKeeps ==
  ASSUME IInv, Place
  PROVE  IInv' /\ Shares /\ (Unmixed(doc, placed) => Unmixed(doc', placed'))
<1>0. /\ slot \in [Slots -> SlotType] /\ doc \in [Docs -> DocType] /\ RowsFit /\ WhatsFit
      /\ (\A t \in Slots : LeaseAgrees(slot[t])) /\ SlotsAgree(slot, placed)
      /\ RowsAgree(doc, placed) /\ Amounts \subseteq Nat
  BY TableAssumption DEF IInv, TypeOK, TablesAgree, RowsFit
<1>2. PICK s \in Slots : s = screen[1]
  BY DEF IInv, TypeOK, Place, Fresh
<1>1. PICK l \in Lots, q \in Amounts :
        /\ Fresh /\ slot[s].active /\ Compatible(s, doc[l].what, 0) /\ ~Leased(s)
        /\ q <= Room(l) /\ Spend("place")
        /\ placed' = [placed EXCEPT ![s][l] = @ + q]
        /\ slot' = [slot EXCEPT ![s].version = @ + 1]
        /\ UNCHANGED <<doc, screen, plan>>
  BY <1>2 DEF Place
<1>3. l \in Docs /\ Stocked(doc, l) /\ q \in Nat
  BY <1>0, <1>1 DEF Lots, IsLot
<1>4. /\ placed'[s][l] = placed[s][l] + q
      /\ \A t \in Slots, d \in Docs : (t # s \/ d # l) => placed'[t][d] = placed[t][d]
      /\ placed' \in [Slots -> [Docs -> Nat]]
  <2>1. placed[s][l] \in Nat
    BY <1>0, <1>2, <1>3 DEF RowsFit
  <2>. QED  BY <1>0, <1>1, <1>2, <1>3, <2>1 DEF RowsFit
<1>5. /\ slot'[s] = [slot[s] EXCEPT !.version = @ + 1]
      /\ \A t \in Slots : t # s => slot'[t] = slot[t]
      /\ DOMAIN slot' = Slots
  BY <1>0, <1>1, <1>2
<1>6. slot[s] \in SlotType /\ LeaseAgrees(slot[s])
  BY <1>0, <1>2
<1>7. ASSUME NEW t \in Slots
      PROVE  /\ slot'[t] \in SlotType /\ LeaseAgrees(slot'[t])
             /\ slot'[t].key = slot[t].key /\ slot'[t].until = slot[t].until
             /\ slot'[t].deadline = slot[t].deadline
             /\ slot'[t].name = slot[t].name /\ slot'[t].active = slot[t].active
  <2>1. CASE t = s
    BY <1>5, <1>6, <2>1, ArrangedRow, Zenon
  <2>2. CASE t # s
    BY <1>0, <1>5, <2>2
  <2>. QED  BY <2>1, <2>2
<1>8. slot' \in [Slots -> SlotType]
  <2>1. slot' = [t \in Slots |-> slot'[t]]
    BY <1>0, <1>1
  <2>. QED  BY <1>7, <2>1
<1>9. ASSUME NEW t \in Slots, NEW d \in Docs, placed'[t][d] > 0
      PROVE  placed[t][d] > 0 \/ (t = s /\ d = l)
  BY <1>4, <1>9
<1>10. SlotsAgree(slot', placed')
  <2>1. ASSUME NEW t \in Slots, NEW d \in Docs, placed'[t][d] > 0 PROVE slot'[t].active
    BY <1>0, <1>1, <1>7, <1>9, <2>1 DEF SlotsAgree
  <2>. QED  BY <1>0, <1>7, <2>1 DEF SlotsAgree
<1>11. Stored(placed', l) <= Grown(0, Inside(doc, l))
  <2>1. Stored(placed', l) = Stored(placed, l) + q
    BY <1>0, <1>2, <1>3, <1>4, StoredAdds DEF RowsFit
  <2>2. Stored(placed, l) \in Nat
    BY <1>0, <1>3, StoredType DEF RowsFit
  <2>3. Room(l) = Inside(doc, l) - Stored(placed, l) /\ Inside(doc, l) \in Int
    <3>1. DocsFit
      BY <1>0 DEF DocsFit
    <3>2. /\ OnHand(l) \in Int /\ Reserved(l) \in Int /\ InTransit(l) \in Int
          /\ OnHand(l) + Reserved(l) - InTransit(l) = Inside(doc, l)
      BY <1>3, <3>1, OnHandType
    <3>. QED  BY <2>2, <3>2 DEF Room, Placed
  <2>. QED  BY <1>1, <1>3, <2>1, <2>2, <2>3 DEF Grown
<1>12. RowsAgree(doc, placed')
  <2>1. ASSUME NEW t \in Slots, NEW d \in Docs, placed'[t][d] > 0
        PROVE  /\ doc[d].to = "warehouse" /\ doc[d].status \in {"pending", "received"}
               /\ doc[d].status = "pending" =>
                    /\ doc[d].location # NoName /\ placed'[t][d] = doc[d].quantity
                    /\ \A u \in Slots : placed'[u][d] > 0 => u = t
    <3>1. CASE d = l
      BY <1>3, <3>1 DEF Stocked
    <3>2. CASE d # l
      <4>1. \A u \in Slots : placed'[u][d] = placed[u][d]
        BY <1>4, <3>2
      <4>2. placed[t][d] > 0
        BY <2>1, <4>1
      <4>. QED  BY <1>0, <4>1, <4>2 DEF RowsAgree
    <3>. QED  BY <3>1, <3>2
  <2>2. ASSUME NEW d \in Docs, Stocked(doc, d) PROVE Stored(placed', d) <= Grown(0, Inside(doc, d))
    <3>1. CASE d = l
      BY <1>11, <3>1
    <3>2. CASE d # l
      <4>1. /\ \A t \in Slots : placed'[t][d] <= placed[t][d]
        <5>1. \A t \in Slots : placed'[t][d] = placed[t][d] /\ placed[t][d] \in Nat
          BY <1>0, <1>4, <3>2 DEF RowsFit
        <5>. QED  BY <5>1
      <4>2. Stored(placed', d) <= Stored(placed, d)
        BY <1>0, <1>4, <4>1, StoredLess DEF RowsFit
      <4>3. Stored(placed, d) <= Grown(0, Inside(doc, d))
        BY <1>0, <2>2 DEF RowsAgree
      <4>4. Stored(placed', d) \in Nat /\ Stored(placed, d) \in Nat
        BY <1>0, <1>4, StoredType DEF RowsFit
      <4>5. Grown(0, Inside(doc, d)) \in Nat
        BY <1>0, InsideType DEF Grown
      <4>. QED  BY <4>2, <4>3, <4>4, <4>5
    <3>. QED  BY <3>1, <3>2
  <2>. QED  BY <2>1, <2>2 DEF RowsAgree
<1>13. TypeOK'
  BY <1>1, <1>4, <1>8 DEF IInv, TypeOK
<1>14. WhatsFit'
  BY <1>0, <1>1, SpendKeepsWhats
<1>15. TablesAgree'
  <2>1. doc' = doc /\ FiledInOrder(doc) /\ DocsAgree(doc)
    BY <1>1 DEF IInv, TablesAgree
  <2>. QED  BY <1>7, <1>10, <1>12, <2>1 DEF TablesAgree, FiledInOrder, DocsAgree, SlotsAgree, RowsAgree,
            LeaseAgrees
<1>16. ASSUME NEW t \in Slots PROVE Promise!Step(View(t), View(t)')
  <2>1. ASSUME t # s PROVE Promise!Step(View(t), View(t)')
    <3>1. In(t)' \subseteq In(t)
      BY <1>4, <2>1 DEF In
    <3>. QED  BY <1>7, <3>1, SlotLoses
  <2>2. Promise!Arrange(View(s), View(s)')
    <3>1. ASSUME NEW d \in In(s) PROVE d \in In(s)'
      <4>1. d \in Docs /\ placed[s][d] \in Nat /\ placed[s][d] > 0
        BY <1>0, <1>2 DEF In, RowsFit
      <4>2. placed'[s][d] > 0
        BY <1>2, <1>3, <1>4, <4>1
      <4>. QED  BY <4>1, <4>2 DEF In
    <3>2. /\ ~View(s).live /\ View(s).label.active /\ View(s).contents \subseteq View(s)'.contents
          /\ View(s)'.claim = View(s).claim /\ View(s)'.live = View(s).live
          /\ View(s)'.age = View(s).age /\ View(s)'.label = View(s).label
      <4>1. /\ slot'[s].key = slot[s].key /\ slot'[s].until = slot[s].until
            /\ slot'[s].deadline = slot[s].deadline
            /\ slot'[s].name = slot[s].name /\ slot'[s].active = slot[s].active
        BY <1>2, <1>7
      <4>2. Leased(s)' = Leased(s) /\ ~Leased(s) /\ slot[s].active
        BY <1>1, <4>1 DEF Leased
      <4>. QED  BY <3>1, <4>1, <4>2 DEF View
    <3>. QED  BY <3>2 DEF Promise!Arrange, Promise!Keeps
  <2>. QED  BY <2>1, <2>2 DEF Promise!Step
<1>17. ASSUME Unmixed(doc, placed) PROVE Unmixed(doc, placed')
  <2>1. ASSUME NEW t \in Slots, NEW d \in Docs, NEW e \in Docs, placed'[t][d] > 0, placed'[t][e] > 0
        PROVE  doc[d].what = doc[e].what
    <3>1. \A c \in Docs : placed[s][c] > 0 => doc[c].what = doc[l].what
      <4>1. 0 \notin In(s)
        BY WarehouseBounds DEF In
      <4>. QED  BY <1>1, <4>1 DEF Compatible, In
    <3>. QED  BY <1>3, <1>9, <1>17, <2>1, <3>1 DEF Unmixed
  <2>. QED  BY <2>1 DEF Unmixed
<1>. QED
  BY <1>1, <1>13, <1>14, <1>15, <1>16, <1>17 DEF IInv, Shares

\* A crowded slot keeps one of its batches: the others are in no slot any more.
LEMMA ApplyCleanupKeeps ==
  ASSUME IInv, ApplyCleanup
  PROVE  IInv' /\ Shares /\ (Unmixed(doc, placed) => Unmixed(doc', placed'))
<1>0. /\ slot \in [Slots -> SlotType] /\ doc \in [Docs -> DocType]
      /\ placed \in [Slots -> [Docs -> Nat]] /\ WhatsFit
      /\ (\A t \in Slots : LeaseAgrees(slot[t])) /\ SlotsAgree(slot, placed)
      /\ RowsAgree(doc, placed)
  BY DEF IInv, TypeOK, TablesAgree
<1>1. /\ placed' = [s \in Slots |-> [d \in Docs |->
                      IF s \in DOMAIN plan /\ d # plan[s].keep THEN 0 ELSE placed[s][d]]]
      /\ slot' = [s \in Slots |-> IF s \in DOMAIN plan
                                  THEN [slot[s] EXCEPT !.version = @ + 1] ELSE slot[s]]
      /\ plan' = [s \in {} |-> 0] /\ UNCHANGED <<doc, screen, left>>
  BY DEF ApplyCleanup
<1>2. ASSUME NEW s \in Slots, NEW d \in Docs
      PROVE  placed'[s][d] \in Nat /\ (placed'[s][d] = 0 \/ placed'[s][d] = placed[s][d])
  BY <1>0, <1>1
<1>3. placed' \in [Slots -> [Docs -> Nat]]
  BY <1>0, <1>1
<1>4. ASSUME NEW t \in Slots
      PROVE  /\ slot'[t] \in SlotType /\ LeaseAgrees(slot'[t])
             /\ slot'[t].key = slot[t].key /\ slot'[t].until = slot[t].until
             /\ slot'[t].deadline = slot[t].deadline
             /\ slot'[t].name = slot[t].name /\ slot'[t].active = slot[t].active
  <2>1. slot[t] \in SlotType /\ LeaseAgrees(slot[t])
    BY <1>0
  <2>2. slot'[t] = [slot[t] EXCEPT !.version = @ + 1] \/ slot'[t] = slot[t]
    BY <1>1
  <2>3. CASE slot'[t] = slot[t]
    BY <2>1, <2>3
  <2>4. CASE slot'[t] = [slot[t] EXCEPT !.version = @ + 1]
    BY <2>1, <2>4, ArrangedRow, Zenon
  <2>. QED  BY <2>2, <2>3, <2>4
<1>5. slot' \in [Slots -> SlotType]
  BY <1>1, <1>4
<1>6. SlotsAgree(slot', placed')
  <2>1. \A t \in Slots, d \in Docs : placed'[t][d] > 0 => slot'[t].active
    BY <1>0, <1>2, <1>4 DEF SlotsAgree
  <2>. QED  BY <1>0, <1>4, <2>1 DEF SlotsAgree
<1>7. RowsAgree(doc, placed')
  <2>1. ASSUME NEW t \in Slots, NEW d \in Docs, placed'[t][d] > 0
        PROVE  /\ doc[d].to = "warehouse" /\ doc[d].status \in {"pending", "received"}
               /\ doc[d].status = "pending" =>
                    /\ doc[d].location # NoName /\ placed'[t][d] = doc[d].quantity
                    /\ \A u \in Slots : placed'[u][d] > 0 => u = t
    <3>1. placed[t][d] = placed'[t][d]
      BY <1>2, <2>1
    <3>2. \A u \in Slots : placed'[u][d] > 0 => placed[u][d] > 0
      BY <1>2
    <3>. QED  BY <1>0, <2>1, <3>1, <3>2 DEF RowsAgree
  <2>2. ASSUME NEW d \in Docs, Stocked(doc, d) PROVE Stored(placed', d) <= Grown(0, Inside(doc, d))
    <3>1. \A t \in Slots : placed'[t][d] <= placed[t][d]
      <4>1. \A t \in Slots : placed[t][d] \in Nat
        BY <1>0
      <4>. QED  BY <1>2, <4>1
    <3>2. Stored(placed', d) <= Stored(placed, d)
      BY <1>0, <1>3, <3>1, StoredLess
    <3>3. Stored(placed, d) <= Grown(0, Inside(doc, d))
      BY <1>0, <2>2 DEF RowsAgree
    <3>4. Stored(placed', d) \in Nat /\ Stored(placed, d) \in Nat
      BY <1>0, <1>3, StoredType
    <3>5. Grown(0, Inside(doc, d)) \in Nat
      BY <1>0, InsideType DEF Grown
    <3>. QED  BY <3>2, <3>3, <3>4, <3>5
  <2>. QED  BY <2>1, <2>2 DEF RowsAgree
<1>8. TypeOK'
  BY <1>1, <1>3, <1>5 DEF IInv, TypeOK
<1>9. WhatsFit'
  BY <1>0, <1>1 DEF WhatsFit
<1>10. TablesAgree'
  <2>1. doc' = doc /\ FiledInOrder(doc) /\ DocsAgree(doc)
    BY <1>1 DEF IInv, TablesAgree
  <2>. QED  BY <1>4, <1>6, <1>7, <2>1 DEF TablesAgree, FiledInOrder, DocsAgree, SlotsAgree, RowsAgree,
            LeaseAgrees
<1>11. ASSUME NEW t \in Slots PROVE Promise!Step(View(t), View(t)')
  <2>1. In(t)' \subseteq In(t)
    BY <1>2 DEF In
  <2>. QED  BY <1>4, <2>1, SlotLoses
<1>12. ASSUME Unmixed(doc, placed) PROVE Unmixed(doc, placed')
  BY <1>2, <1>12 DEF Unmixed
<1>. QED
  BY <1>1, <1>8, <1>9, <1>10, <1>11, <1>12 DEF IInv, Shares

-----------------------------------------------------------------------------
(* Every behaviour.                                                         *)

LEMMA InitAgrees ==
  ASSUME Init
  PROVE  IInv /\ Promise!Init
<1>1. PICK c \in Cases : /\ slot = c.slot /\ doc = c.doc /\ placed = c.placed /\ left = c.left
                         /\ screen = <<>> /\ plan = [s \in {} |-> 0]
  BY DEF Init
<1>2. /\ slot \in [Slots -> SlotType] /\ doc \in [Docs -> DocType]
      /\ placed \in [Slots -> [Docs -> Nat]]
      /\ \A s \in Slots : slot[s].key = NoForm /\ slot[s].until = 0 /\ slot[s].deadline = NoTime
      /\ FiledInOrder(doc) /\ DocsAgree(doc)
      /\ SlotsAgree(slot, placed) /\ RowsAgree(doc, placed) /\ WhatsFit
  BY <1>1, CasesAssumption DEF WhatsFit
<1>3. TypeOK
  BY <1>1, <1>2 DEF TypeOK
<1>4. TablesAgree
  BY <1>2 DEF TablesAgree, LeaseAgrees
<1>5. Promise!Init
  BY <1>2 DEF Promise!Init, Leased
<1>. QED
  BY <1>2, <1>3, <1>4, <1>5 DEF IInv

\* A step that changes nothing.
LEMMA IdleKeeps ==
  ASSUME IInv, UNCHANGED vars
  PROVE  IInv' /\ Shares /\ UNCHANGED <<doc, placed>>
<1>1. UNCHANGED <<slot, doc, placed, screen, plan, left>>
  BY DEF vars
<1>2. IInv'
  BY <1>1, SlotsChange DEF IInv, TypeOK, TablesAgree, WhatsFit
<1>3. ASSUME NEW s \in Slots PROVE Promise!Step(View(s), View(s)')
  <2>1. In(s)' = In(s)
    BY <1>1 DEF In
  <2>. QED  BY <1>1, <2>1, SlotLoses
<1>. QED
  BY <1>1, <1>2, <1>3 DEF Shares

LEMMA FormKeeps ==
  ASSUME IInv, NEW f \in Forms, UseForm(f)
  PROVE  IInv' /\ Shares /\ (Unmixed(doc, placed) => Unmixed(doc', placed'))
<1>1. CASE Receive(f) \/ SendIn(f) \/ EditIn(f) \/ Confirm(f) \/ Reallocate(f)
  <2>1. SensibleWrite
    BY <1>1, ReceiveWrites, SendInWrites, EditInWrites, ConfirmWrites, ReallocateWrites
  <2>. QED  BY <2>1, SensibleWriteAgrees, SensibleWriteShares, SensibleWriteUnmixed
<1>2. ASSUME NEW s \in Slots, NEW what \in left.whats, Reserve(s, f, what)
      PROVE  IInv' /\ Shares /\ UNCHANGED <<doc, placed>>
  BY <1>2, ReserveKeeps
<1>3. ASSUME NEW s \in Slots, Release(s, f)
      PROVE  IInv' /\ Shares /\ UNCHANGED <<doc, placed>>
  BY <1>3, ReleaseKeeps
<1>. QED
  BY <1>1, <1>2, <1>3 DEF UseForm

LEMMA MoveKeeps ==
  ASSUME IInv, MoveStock
  PROVE  IInv' /\ Shares /\ (Unmixed(doc, placed) => Unmixed(doc', placed'))
<1>1. SensibleWrite
  BY VoidWrites, DispatchWrites, EditOutWrites, ConfirmOutboundWrites, LoseWrites, CorrectWrites
     DEF MoveStock
<1>. QED
  BY <1>1, SensibleWriteAgrees, SensibleWriteShares, SensibleWriteUnmixed

LEMMA ManageKeeps ==
  ASSUME IInv, Manage
  PROVE  IInv' /\ Shares /\ (Unmixed(doc, placed) => Unmixed(doc', placed'))
BY LookKeeps, PlaceKeeps, CreateSlotKeeps, EditSlotKeeps, PlanCleanupKeeps, ApplyCleanupKeeps
   DEF Manage

LEMMA StepKeeps ==
  ASSUME IInv, [Next]_vars
  PROVE  IInv' /\ Shares /\ (Unmixed(doc, placed) => Unmixed(doc', placed'))
BY FormKeeps, MoveKeeps, ManageKeeps, TickKeeps, IdleKeeps DEF Next

\* The tables keep their shape through every history (models.py: the columns of
\* WarehouseLocation, WarehousePlacement and MaterialTransfer).
THEOREM WarehouseAlwaysTyped == Spec => []TypeOK
<1>1. Init => IInv
  BY InitAgrees
<1>2. IInv /\ [Next]_vars => IInv'
  BY StepKeeps
<1>3. IInv => TypeOK
  BY DEF IInv
<1>. QED
  BY <1>1, <1>2, <1>3, PTL DEF Spec

\* Forms, managers, documents and time together implement SlotLease: whatever
\* happens, a slot a form has claimed is the form's alone until its claim lapses,
\* at the latest at its deadline, nothing is put into it behind the form's back,
\* and only an empty slot goes out of use (warehouse_locations.py: reserve,
\* consume, save_location; warehouse_placements.py: apply_changes, place_stock).
THEOREM PromiseAlwaysKept == Spec => KeepsThePromise
<1>1. Init => IInv /\ Promise!Init
  BY InitAgrees
<1>2. IInv /\ [Next]_vars => IInv' /\ Promise!Next
  BY StepKeeps, SharesMeansNext
<1>. QED
  BY <1>1, <1>2, PTL DEF Spec, KeepsThePromise, Promise!Spec

\* Where no slot held two materials at first.
TablesUnmixed == \A c \in Cases : Unmixed(c.doc, c.placed)

LEMMA AgreeingIsSound ==
  ASSUME IInv, Unmixed(doc, placed)
  PROVE  SlotsAreSound
<1>0. /\ slot \in [Slots -> SlotType] /\ doc \in [Docs -> DocType]
      /\ placed \in [Slots -> [Docs -> Nat]]
      /\ (\A t \in Slots : LeaseAgrees(slot[t])) /\ SlotsAgree(slot, placed)
      /\ RowsAgree(doc, placed)
  BY DEF IInv, TypeOK, TablesAgree
<1>1. ASSUME NEW s \in Slots
      PROVE  /\ \A d \in In(s) : doc[d].to = "warehouse" /\ doc[d].status \in {"pending", "received"}
             /\ \A d, e \in In(s) : doc[d].what = doc[e].what
             /\ ~slot[s].active => In(s) = {} /\ ~Leased(s)
  <2>1. \A d \in In(s) : d \in Docs /\ placed[s][d] > 0
    BY DEF In
  <2>2. ~slot[s].active => In(s) = {}
    BY <1>0, <2>1 DEF SlotsAgree
  <2>3. ~slot[s].active => ~Leased(s)
    BY <1>0 DEF LeaseAgrees, Leased
  <2>. QED  BY <1>0, <2>1, <2>2, <2>3 DEF RowsAgree, Unmixed
<1>2. ASSUME NEW d \in Coming PROVE Placed(d) \in {0, doc[d].quantity}
  <2>1. d \in Docs /\ doc[d].status = "pending" /\ doc[d].quantity \in Nat
    BY <1>0, RowFields DEF Coming
  <2>2. \A s \in Slots : placed[s][d] > 0 =>
           placed[s][d] = doc[d].quantity /\ \A t \in Slots : placed[t][d] > 0 => t = s
    BY <1>0, <2>1 DEF RowsAgree
  <2>. QED  BY <1>0, <2>1, <2>2, StoredInOne DEF Placed
<1>3. ASSUME NEW l \in Lots PROVE Placed(l) <= Grown(0, OnHand(l) + ExternalPending(l))
  <2>1. l \in Docs /\ Stocked(doc, l)
    BY DEF Lots, IsLot
  <2>2. /\ OnHand(l) \in Int /\ Reserved(l) \in Int /\ InTransit(l) \in Int
        /\ OnHand(l) + Reserved(l) - InTransit(l) = Inside(doc, l)
    BY <1>0, <2>1, OnHandType DEF DocsFit
  <2>3. OnHand(l) + ExternalPending(l) = Inside(doc, l)
    BY <2>2 DEF ExternalPending
  <2>. QED  BY <1>0, <2>1, <2>3 DEF RowsAgree, Placed
<1>. QED
  BY <1>1, <1>2, <1>3 DEF SlotsAreSound

\* Where no slot held two materials at first, the slots stay sound: only waiting
\* and received documents of the warehouse have a place, a waiting one with all
\* or none of its stock; no more of a lot is in slots than is in the building;
\* one slot holds one material; a slot out of use is empty and nobody's (consume,
\* apply_changes, subtract, place_stock, save_location).
THEOREM SlotsAlwaysSound ==
  ASSUME TablesUnmixed
  PROVE  Spec => []SlotsAreSound
<1> DEFINE Sound == IInv /\ Unmixed(doc, placed)
<1>1. Init => Sound
  <2>1. SUFFICES ASSUME Init PROVE Sound
    OBVIOUS
  <2>2. Unmixed(doc, placed)
    BY <2>1 DEF Init, TablesUnmixed
  <2>. QED  BY <2>1, <2>2, InitAgrees
<1>2. Sound /\ [Next]_vars => Sound'
  <2>1. SUFFICES ASSUME IInv, Unmixed(doc, placed), [Next]_vars PROVE Sound'
    OBVIOUS
  <2>2. IInv' /\ Unmixed(doc', placed')
    BY <2>1, StepKeeps
  <2>. QED  BY <2>2 DEF Unmixed
<1>3. Sound => SlotsAreSound
  BY AgreeingIsSound
<1> HIDE DEF Sound
<1>. QED
  BY <1>1, <1>2, <1>3, PTL DEF Spec
=============================================================================
