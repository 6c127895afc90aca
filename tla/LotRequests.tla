----------------------------- MODULE LotRequests -----------------------------
(***************************************************************************)
(* What the stock services of backend/app promise a team that posts a      *)
(* request: it is checked against the current rows and written in one      *)
(* indivisible step, at most once for each idempotency key.                *)
(*                                                                         *)
(* row holds material_transfers (lots and waiting lines), stock the amount *)
(* and the revision of material_stock_balances, record the request stored  *)
(* under each idempotency key of material_losses, material_dispatches and  *)
(* material_quantity_adjustments.  LotWrites is the code: transactions     *)
(* that lock, look, write and may be retried; it implements this module.   *)
(***************************************************************************)
EXTENDS Integers, FiniteSets, LedgerTotals

CONSTANTS
  MaxRow,       \* rows of material_transfers, lots and lines
  Key,          \* idempotency keys
  NoKey,        \* the NULL key
  NoRequest,    \* no record under a key
  Request,      \* the requests clients may post
  StartRow,     \* the rows before the first request
  StartStock    \* their balances

Row == 1 .. MaxRow
Keyed == {"loss", "dispatch", "shipment", "count"}
LineOps == {"confirm", "update", "void"}
Table == {"losses", "dispatches", "adjustments"}

NotSeen == -1

\* lots: the lots to draw on, or the group a shipment is pooled from; line: the document
\* to change (0: none); seen: the balance revisions the client saw; version: the
\* expected_version (0: none).
RequestType ==
  [op : Keyed \cup LineOps, key : Key \cup {NoKey}, lots : SUBSET Row, line : 0 .. MaxRow,
   amount : Nat, seen : [Row -> Nat \cup {NotSeen}], version : Nat]
RowType == [status : {"pending", "received", "voided"}, source : 0 .. MaxRow,
            amount : Nat, version : Nat, receipt : Key \cup {NoKey}]

\* The lots whose balance the client had been shown.
Seen(r) == {l \in Row : r.seen[l] # NotSeen}

ASSUME RequestAssumption ==
  /\ MaxRow \in Nat
  /\ Request \subseteq RequestType /\ NoRequest \notin Request
  /\ \A r \in Request :
       /\ r.op \in Keyed => r.key \in Key
       /\ r.op \in LineOps => r.line \in Row /\ r.lots = {}
       /\ r.op = "count" => Seen(r) = r.lots
ASSUME StartAssumption ==
  /\ StartRow \in [Row -> RowType]
  /\ StartStock \in [Row -> [onHand : Int, revision : Nat]]
  /\ \A x \in Row : StartRow[x].source # 0 => StartRow[x].source < x

VARIABLES row, stock, record
tables == <<row, stock, record>>

-----------------------------------------------------------------------------
(* The unique key a request is stored under.                               *)

TableOf(op) == CASE op = "loss"     -> "losses"
                 [] op = "count"    -> "adjustments"
                 [] op \in {"dispatch", "shipment"} -> "dispatches"
Slot == Table \X Key
SlotOf(r) == <<TableOf(r.op), r.key>>
Recorded == {s \in Slot : record[s] # NoRequest}

\* The transaction that wrote r has committed.
Committed(r) == \/ r.op \in Keyed /\ record[SlotOf(r)] = r
                \/ r.op = "confirm" /\ row[r.line].status = "received" /\ row[r.line].receipt = r.key

-----------------------------------------------------------------------------
(* What is checked and what is written.                                    *)

IsLot(l) == row[l].status = "received"
SourceOf(r) == row[r.line].source
\* The lots a request draws on: a shipment takes the ones its client was shown.
LotsOf(r) == IF r.op = "shipment" THEN Seen(r) ELSE r.lots

Shippable(l) == IF stock[l].onHand > 0 THEN stock[l].onHand ELSE 0
UpTo(r, n) == Total([l \in 1 .. n |-> When(l \in Seen(r), Shippable(l))], n)
\* Mutated: the oldest lot gives everything.
ShareOfFirstLot(r, l) == IF l \in Seen(r) /\ \A x \in Seen(r) : l <= x THEN r.amount ELSE 0
\* allocate: the oldest lots give first.
Share(r, l) ==
  LET rest == r.amount - UpTo(r, l - 1)
  IN IF rest <= 0 THEN 0 ELSE IF rest <= Shippable(l) THEN rest ELSE Shippable(l)

SeenIsCurrent(r) == \A l \in Seen(r) : stock[l].revision = r.seen[l]

MayEdit(r) ==
  /\ row[r.line].status = "pending"
  /\ SourceOf(r) # 0 => IsLot(SourceOf(r))
  /\ r.version \in {0, row[r.line].version}

May(r) ==
  /\ \A l \in LotsOf(r) : IsLot(l)
  /\ \/ r.op = "loss" /\ \A l \in r.lots : r.amount <= stock[l].onHand
     \/ r.op = "dispatch"
     \/ r.op = "count" /\ SeenIsCurrent(r) /\ \A l \in r.lots : stock[l].onHand # 0
     \/ /\ r.op = "shipment" /\ SeenIsCurrent(r)
        /\ r.amount <= UpTo(r, MaxRow)
     \/ r.op \in LineOps /\ MayEdit(r)

\* The change of what lot l has on hand.
Change(r, l) ==
  CASE r.op \in {"loss", "dispatch"} -> IF l \in r.lots THEN -r.amount ELSE 0
    [] r.op = "shipment" -> IF l \in Seen(r) THEN -Share(r, l) ELSE 0
    [] r.op = "count"    -> IF l \in r.lots THEN r.amount - stock[l].onHand ELSE 0
    [] r.op = "void"     -> IF l = SourceOf(r) THEN row[r.line].amount ELSE 0
    [] r.op = "update"   -> IF l = SourceOf(r) THEN row[r.line].amount - r.amount ELSE 0
    [] r.op = "confirm"  -> 0
\* A recount and a receipt touch the balance row even where nothing on hand changes.
Touches(r, l) == \/ Change(r, l) # 0
                 \/ r.op = "count" /\ l \in r.lots
                 \/ r.op = "confirm" /\ l = SourceOf(r)

NewRow(r) ==
  LET edited == [row[r.line] EXCEPT !.version = @ + 1]
  IN CASE r.op = "confirm" -> [edited EXCEPT !.status = "received", !.receipt = r.key]
       [] r.op = "update"  -> [edited EXCEPT !.amount = r.amount]
       [] r.op = "void"    -> [edited EXCEPT !.status = "voided"]

Write(r) ==
  /\ record' = IF r.op \in Keyed THEN [record EXCEPT ![SlotOf(r)] = r] ELSE record
  /\ row' = IF r.op \in LineOps THEN [row EXCEPT ![r.line] = NewRow(r)] ELSE row
  /\ stock' = [l \in Row |->
       IF r.op = "confirm" /\ l = r.line THEN [onHand |-> row[l].amount, revision |-> 0]
       ELSE IF Touches(r, l) THEN [onHand |-> stock[l].onHand + Change(r, l),
                                   revision |-> stock[l].revision + 1]
       ELSE stock[l]]

\* No record under the request's key, and no other document received under it.
KeyIsFree(r) ==
  /\ r.op \in Keyed => SlotOf(r) \notin Recorded
  /\ r.op = "confirm" => \A x \in Row \ {r.line} : row[x].receipt # r.key

-----------------------------------------------------------------------------
Init ==
  /\ row = StartRow
  /\ stock = StartStock
  /\ record = [s \in Slot |-> NoRequest]

Serve(r) == May(r) /\ KeyIsFree(r) /\ Write(r)
Next == \E r \in Request : Serve(r)
Spec == Init /\ [][Next]_tables

-----------------------------------------------------------------------------
TypeOK ==
  /\ row \in [Row -> RowType]
  /\ stock \in [Row -> [onHand : Int, revision : Nat]]
  /\ record \in [Slot -> Request \cup {NoRequest}]

\* A loss and a shipment take only what is there: they leave no lot with less than
\* nothing that had something (material_stock.validate_available, inventory_shipments.allocate).
CappedWritesStayWithinStock ==
  [][\A s \in Slot : record'[s] # record[s] /\ record'[s].op \in {"loss", "shipment"} =>
       \A l \in Row : stock'[l].onHand < stock[l].onHand => stock'[l].onHand >= 0]_tables
=============================================================================
