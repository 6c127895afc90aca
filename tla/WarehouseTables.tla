--------------------------- MODULE WarehouseTables ---------------------------
(***************************************************************************)
(* The storage slots of the warehouse and the stock in them. A placement   *)
(* says how much of a batch is in a slot. Placements are kept by the hook   *)
(* that every write of a document runs through: an arriving document fills  *)
(* the slot it names, stock that leaves is taken from the slots in order,   *)
(* and stock that comes back is in no slot. The lists that are derived from *)
(* these tables are defined here too.                                       *)
(***************************************************************************)
EXTENDS Integers, Sequences, FiniteSets, FiniteSetsExt, LedgerTotals

CONSTANTS MaxSlots,     \* the slots there may be (a bound)
          MaxDocs,      \* the documents there may be (a bound)
          Names,        \* the names of slots
          NoName,       \* no slot, or one not created yet
          Forms,        \* the forms users open, each with a key of its own
          NoForm,
          Materials,    \* identities of material: serial, name and kind
          Nameless      \* those with a part of the identity missing

VARIABLES slot, doc, placed

Slots == 1..MaxSlots
Docs == 1..MaxDocs
NoTime == -1
FreshSlot == [name |-> NoName, active |-> FALSE, version |-> 1,
              key |-> NoForm, until |-> 0, deadline |-> NoTime]
NoDoc == [kind |-> "none", source |-> 0, to |-> "team", what |-> CHOOSE m \in Materials : TRUE,
          quantity |-> 0, status |-> "voided", location |-> NoName, lost |-> 0, adjusted |-> 0]

DocType == [kind : {"none", "receipt", "transfer", "outbound", "reallocation"}, source : 0..MaxDocs,
            to : {"warehouse", "team", "outside"}, what : Materials, quantity : Nat,
            status : {"pending", "received", "dispatched", "voided"},
            location : Names \union {NoName}, lost : Nat, adjusted : Int]

-----------------------------------------------------------------------------
(* The balance of a lot of the warehouse. *)

Stocked(docs, d) == docs[d].to = "warehouse" /\ docs[d].status = "received"
IsLot(d) == Stocked(doc, d)
Lots == {d \in Docs : IsLot(d)}
Amount(set) == Total([d \in Docs |-> When(d \in set, doc[d].quantity)], MaxDocs)
Children(l, statuses) == {d \in Docs : doc[d].source = l /\ doc[d].status \in statuses}

OnHand(l) == doc[l].quantity + doc[l].adjusted - doc[l].lost
             - Amount(Children(l, {"pending", "received", "dispatched"}))
Reserved(l) == Amount(Children(l, {"pending"}))
InTransit(l) == Amount({d \in Children(l, {"pending"}) : doc[d].kind = "transfer"})
ExternalPending(l) == Reserved(l) - InTransit(l)
Owned(l) == OnHand(l) + Reserved(l)
Shortage(l) == IF OnHand(l) < 0 THEN -OnHand(l) ELSE 0

-----------------------------------------------------------------------------
(* Slots. *)

In(s) == {d \in Docs : placed[s][d] > 0}
Stored(rows, l) == Total([s \in Slots |-> rows[s][l]], MaxSlots)
Placed(l) == Stored(placed, l)
Exists(s) == slot[s].name # NoName
Leased(s) == slot[s].key # NoForm /\ slot[s].until > 0

\* require_compatible: the material already there, except document d, is the same.
Compatible(s, what, d) ==
    \/ In(s) \ {d} = {}
    \/ what \notin Nameless /\ \A e \in In(s) \ {d} : doc[e].what = what

Unleased(row) == [row EXCEPT !.key = NoForm, !.until = 0, !.deadline = NoTime]

-----------------------------------------------------------------------------
(* The hook (apply_changes): from the documents before and after a write.  *)

\* What of d has left the lot it is taken from.
PhysicalOut(table, d) ==
    IF /\ table[d].source # 0
       /\ \/ table[d].status \in {"received", "dispatched"}
          \/ table[d].status = "pending" /\ table[d].kind = "transfer"
    THEN table[d].quantity ELSE 0

Grown(before, after) == IF after > before THEN after - before ELSE 0

\* What of lot l is still in the building.
Inside(docs, l) ==
    docs[l].quantity + docs[l].adjusted - docs[l].lost
    - Total([d \in Docs |-> When(docs[d].source = l, PhysicalOut(docs, d))], MaxDocs)

\* A voided document leaves its slot. A document that names its slot for the
\* first time fills it; one still on its way is kept at its quantity.
Arrived(after, p) ==
    LET stays(d) == after[d].to = "warehouse" /\ after[d].status \in {"pending", "received"}
                    /\ after[d].location # NoName
        first(d) == stays(d) /\ after[d].location # doc[d].location
        gone(d) == doc[d].to = "warehouse" /\ doc[d].status # "voided" /\ after[d].status = "voided"
        there(d) == {s \in Slots : slot[s].name = after[d].location}
    IN [s \in Slots |-> [d \in Docs |->
          CASE gone(d)  -> 0
            [] first(d) -> IF s \in there(d) THEN after[d].quantity ELSE 0
            [] /\ stays(d) /\ ~first(d)
               /\ doc[d].status = "pending" /\ p[s][d] > 0 -> after[d].quantity
            [] OTHER    -> p[s][d]]]

\* What has to be taken from the slots that hold lot l.
Withdrawn(after, l) ==
    LET corrected == IF IsLot(l) /\ after[l].status = "received"
                     THEN Grown(after[l].quantity, doc[l].quantity) ELSE 0
    IN corrected
       + Total([d \in Docs |-> When(after[d].source = l,
                                    Grown(PhysicalOut(doc, d), PhysicalOut(after, d)))], MaxDocs)
       + Grown(doc[l].lost, after[l].lost)
       + Grown(after[l].adjusted, doc[l].adjusted)

Least(a, b) == IF a < b THEN a ELSE b

\* Mutated: only the first slot gives up stock.
SubtractFirst(p, amount) ==
    [s \in Slots |-> [l \in Docs |->
       IF \E t \in Slots : t < s /\ p[t][l] > 0 THEN p[s][l] ELSE p[s][l] - Least(p[s][l], amount[l])]]
\* The slots give up stock in the order of their identities.
Subtract(p, amount) ==
    LET earlier(s, l) == RunningTotals([t \in Slots |-> p[t][l]], MaxSlots)[s - 1]
        left(s, l) == Grown(earlier(s, l), amount[l])
    IN [s \in Slots |-> [l \in Docs |-> p[s][l] - Least(p[s][l], left(s, l))]]

Write(after) ==
    /\ doc' = after
    /\ placed' = Subtract(Arrived(after, placed), [l \in Docs |-> Withdrawn(after, l)])

-----------------------------------------------------------------------------
(* Lists. *)

\* The slots offered to a form for its material (list_locations, available_only).
Offered(what) ==
    {s \in Slots :
       /\ Exists(s) /\ slot[s].active /\ slot[s].until = 0
       /\ IF what \in Nameless THEN In(s) = {} ELSE \A d \in In(s) : doc[d].what = what}

\* location_dict
Status(s) ==
    IF In(s) # {} THEN (IF \E d \in In(s) : doc[d].status = "received" THEN "occupied" ELSE "locked")
    ELSE IF Leased(s) THEN "locked"
    ELSE IF slot[s].active THEN "available" ELSE "disabled"

\* The catalogue with a state chosen (list_locations, state).
Catalogue(state) ==
    LET holds(s, status) == \E d \in In(s) : doc[d].status = status
    IN {s \in Slots : Exists(s) /\
          CASE state = "occupied"  -> holds(s, "received")
            [] state = "pending"   -> holds(s, "pending")
            [] state = "available" -> slot[s].active /\ In(s) = {} /\ ~Leased(s)
            [] state = "draft"     -> Leased(s)
            [] state = "disabled"  -> ~slot[s].active}

\* unassigned_predicate, and what stock_positions shows
IsUnassigned(l) == OnHand(l) + ExternalPending(l) > Placed(l)
Unassigned(l) == Grown(Placed(l), OnHand(l) + ExternalPending(l))

\* The rows of the inventory: lots of one origin and one material, anchored at
\* the oldest of them.
Origin(l) == <<doc[l].what, IF doc[l].kind = "receipt" THEN "external" ELSE "internal">>
Sources(anchor) == {l \in Lots : Origin(l) = Origin(anchor)}
Anchors == {l \in Lots : l = Min(Sources(l))}
GroupTotal(amount(_), anchor) == Total([l \in Docs |-> When(l \in Sources(anchor), amount(l))], MaxDocs)

\* Mutated: a gap in one lot may hide what another holds.
InventoryNetted(availability) ==
    {a \in Anchors : CASE availability = "current" -> GroupTotal(OnHand, a) # 0
                       [] availability = "owned"   -> GroupTotal(Owned, a) # 0
                       [] availability = "all"     -> TRUE}
\* list_inventory
Inventory(availability) ==
    {a \in Anchors :
       \/ availability = "all"
       \/ GroupTotal(Shortage, a) > 0
       \/ availability = "current" /\ GroupTotal(OnHand, a) # 0
       \/ availability = "owned" /\ GroupTotal(Owned, a) # 0}
Unplaced(anchors) == {a \in anchors : \E l \in Sources(a) : IsUnassigned(l)}

\* What a row opens: its lots, those with stock, its documents on the way, its
\* movements (list_group_sources, list_group_pending, list_group_movements).
Current(a) == {l \in Sources(a) : OnHand(l) # 0}
OnTheWay(a) == {d \in Docs : doc[d].status = "pending" /\ doc[d].source \in Sources(a)}
Movements(a) == Sources(a) \union {d \in Docs : doc[d].kind # "none" /\ doc[d].source \in Sources(a)}

-----------------------------------------------------------------------------
(* Tidying slots with several batches: the oldest received batch stays.     *)

Keeper(s) ==
    LET received == {d \in In(s) : doc[d].status = "received"}
    IN Min(IF received # {} THEN received ELSE In(s))
Crowded == {s \in Slots : Cardinality(In(s)) > 1}
Preview == [s \in Crowded |-> [name |-> slot[s].name, version |-> slot[s].version, keep |-> Keeper(s),
                               rows |-> [d \in In(s) |-> <<doc[d].status, placed[s][d]>>]]]
=============================================================================
