------------------------------ MODULE Warehouse ------------------------------
(***************************************************************************)
(* The warehouse at work: forms claim a slot, keep it alive and submit      *)
(* their document into it; stock is received, sent away, given up, lost,    *)
(* corrected and put into slots by hand; a manager edits the slots. Every   *)
(* operation holds the lock of its lot and then those of its slots until it *)
(* commits, so each is one step. Time is counted down in the slots' rows.   *)
(***************************************************************************)
EXTENDS WarehouseTables

CONSTANTS Lease,        \* how long a claim lasts without a sign of life
          Longest,      \* how long a form may keep a slot
          Amounts,      \* the quantities of documents
          Cases         \* starting points, each with a budget

ASSUME LeaseAssumption == Lease \in Nat \ {0} /\ Longest \in Nat \ {0}
ASSUME TableAssumption ==
    /\ MaxSlots \in Nat /\ MaxDocs \in Nat /\ Amounts \subseteq Nat /\ Materials # {}
    /\ NoName \notin Names /\ NoForm \notin Forms

SlotType == [name : Names \union {NoName}, active : BOOLEAN, version : Nat \ {0},
             key : Forms \union {NoForm}, until : 0..Lease, deadline : NoTime..Longest]

-----------------------------------------------------------------------------
(* What the tables say of each other, wherever a history starts.             *)

\* Documents are numbered as they are filed.
FiledInOrder(docs) ==
    \E k \in 0..MaxDocs : \A d \in Docs : IF d <= k THEN docs[d].kind # "none" ELSE docs[d] = NoDoc

\* Stock is taken from lots, and goes to others while it is under way; only lots
\* are lost and recounted; an outbound document and one of another team name no
\* slot of the warehouse.
DocsAgree(docs) ==
    \A d \in Docs :
      /\ docs[d].source # 0 => /\ Stocked(docs, docs[d].source)
                               /\ docs[d].status = "pending" => docs[d].to # "warehouse"
      /\ ~Stocked(docs, d) => docs[d].lost = 0 /\ docs[d].adjusted = 0
      /\ docs[d].kind = "outbound" => docs[d].to # "warehouse"
      /\ docs[d].status = "pending" /\ docs[d].location # NoName => docs[d].to = "warehouse"

\* A name belongs to one slot, and only a slot in use holds something.
SlotsAgree(slots, rows) ==
    /\ \A s, t \in Slots : slots[s].name = slots[t].name /\ slots[s].name # NoName => s = t
    /\ \A s \in Slots : slots[s].name = NoName => ~slots[s].active
    /\ \A s \in Slots, d \in Docs : rows[s][d] > 0 => slots[s].active

\* A document under way is in the one slot it names, with all it brings; what
\* the slots hold of a lot is in the building.
RowsAgree(docs, rows) ==
    /\ \A s \in Slots, d \in Docs : rows[s][d] > 0 =>
         /\ docs[d].to = "warehouse" /\ docs[d].status \in {"pending", "received"}
         /\ docs[d].status = "pending" =>
              /\ docs[d].location # NoName /\ rows[s][d] = docs[d].quantity
              /\ \A t \in Slots : rows[t][d] > 0 => t = s
    /\ \A l \in Docs : Stocked(docs, l) => Stored(rows, l) <= Grown(0, Inside(docs, l))

\* One slot, one material. (Databases older than placements may have slots that
\* documents of several materials were filed into.)
Unmixed(docs, rows) ==
    \A s \in Slots : \A d, e \in Docs :
      rows[s][d] > 0 /\ rows[s][e] > 0 => docs[d].what = docs[e].what

ASSUME CasesAssumption ==
    \A c \in Cases :
      /\ c.slot \in [Slots -> SlotType] /\ c.doc \in [Docs -> DocType]
      /\ c.placed \in [Slots -> [Docs -> Nat]]
      /\ \A s \in Slots : c.slot[s].key = NoForm /\ c.slot[s].until = 0 /\ c.slot[s].deadline = NoTime
      /\ FiledInOrder(c.doc) /\ DocsAgree(c.doc)
      /\ SlotsAgree(c.slot, c.placed) /\ RowsAgree(c.doc, c.placed)
      /\ "whats" \in DOMAIN c.left /\ c.left.whats \subseteq Materials

-----------------------------------------------------------------------------
VARIABLES screen,       \* the slot a manager looks at
          plan,         \* a tidying plan on its way
          left          \* how much of each kind may still happen (a bound)

tables == <<slot, doc, placed>>
vars == <<slot, doc, placed, screen, plan, left>>

TypeOK ==
    /\ slot \in [Slots -> SlotType]
    /\ doc \in [Docs -> DocType]
    /\ placed \in [Slots -> [Docs -> Nat]]
    /\ screen = <<>> \/ screen[1] \in Slots
    /\ DOMAIN plan \subseteq Slots

Spend(kind) == left[kind] > 0 /\ left' = [left EXCEPT ![kind] = @ - 1]

-----------------------------------------------------------------------------
(* Forms. *)

\* reserve: claim a slot, or keep it alive until its deadline.
Admits(s, f, what) ==
    /\ Exists(s) /\ slot[s].active /\ Compatible(s, what, 0)
    /\ Leased(s) => slot[s].key = f
    /\ slot[s].key = f => slot[s].deadline # 0

\* Mutated: every sign of life starts the time again.
HeldAnew(row, f) == [row EXCEPT !.key = f, !.until = Least(Lease, Longest), !.deadline = Longest]
\* Mutated: a claim lasts to its deadline without a sign of life.
HeldToTheEnd(row, f) ==
    LET deadline == IF row.key = f /\ row.deadline # NoTime THEN row.deadline ELSE Longest
    IN [row EXCEPT !.key = f, !.deadline = deadline, !.until = deadline]
Held(row, f) ==
    LET deadline == IF row.key = f /\ row.deadline # NoTime THEN row.deadline ELSE Longest
    IN [row EXCEPT !.key = f, !.deadline = deadline, !.until = Least(Lease, deadline)]

Reserve(s, f, what) ==
    /\ Admits(s, f, what)
    /\ slot' = [slot EXCEPT ![s] = Held(@, f)]
    /\ UNCHANGED <<doc, placed, screen, plan>> /\ Spend("claim")

Release(s, f) ==
    /\ slot[s].key = f
    /\ slot' = [slot EXCEPT ![s] = Unleased(@)]
    /\ UNCHANGED <<doc, placed, screen, plan, left>>

Tick ==
    LET older(t) == IF t > 0 THEN t - 1 ELSE t
    IN /\ \E s \in Slots : slot[s].deadline > 0
       /\ slot' = [s \in Slots |-> [slot[s] EXCEPT !.until = older(@), !.deadline = older(@)]]
       /\ UNCHANGED <<doc, placed, screen, plan, left>>

-----------------------------------------------------------------------------
(* Documents. *)

\* consume: the form's live claim on a slot becomes a place for material.
Takes(s, f, what, d) ==
    slot[s].active /\ Compatible(s, what, d) /\ Leased(s) /\ slot[s].key = f

\* A form's choice: no slot, or a slot it has claimed.
Choice(f, what, d) == {NoName} \union {slot[s].name : s \in {t \in Slots : Takes(t, f, what, d)}}
Consume(names) ==
    slot' = [s \in Slots |-> IF slot[s].name \in names \ {NoName} THEN Unleased(slot[s]) ELSE slot[s]]

NextDoc == Cardinality({d \in Docs : doc[d].kind # "none"}) + 1
Filed(kind, to, what, q, status, location, source) ==
    [kind |-> kind, source |-> source, to |-> to, what |-> what, quantity |-> q, status |-> status,
     location |-> location, lost |-> 0, adjusted |-> 0]
Settled == UNCHANGED <<screen, plan>>

\* create_receipt; a transfer to the warehouse, of one line or of two that share
\* the slot they were chosen for.
Receive(f) ==
    \E what \in left.whats, q \in Amounts : \E location \in Choice(f, what, 0) :
      /\ NextDoc \in Docs /\ Spend("receive") /\ Settled
      /\ Write([doc EXCEPT ![NextDoc] = Filed("receipt", "warehouse", what, q, "received", location, 0)])
      /\ Consume({location})

SendIn(f) ==
    \E what \in left.whats, q \in Amounts, lines \in 1..2 : \E location \in Choice(f, what, 0) :
      /\ NextDoc + lines - 1 \in Docs /\ Spend("send") /\ Settled
      /\ Write([d \in Docs |-> IF d \in NextDoc..(NextDoc + lines - 1)
                               THEN Filed("transfer", "warehouse", what, q, "pending", location, 0)
                               ELSE doc[d]])
      /\ Consume({location})

Coming == {d \in Docs : doc[d].to = "warehouse" /\ doc[d].status = "pending"}

\* update_material_transfer: another team while it has no slot; another material
\* only if it suits the slots it is in.
EditIn(f) ==
    \E d \in Docs, what \in left.whats, q \in Amounts, to \in {"warehouse", "team"} :
    \E location \in IF doc[d].location # NoName THEN {doc[d].location}
                    ELSE IF to = "warehouse" THEN Choice(f, what, 0) ELSE {NoName} :
      /\ doc[d].kind = "transfer" /\ doc[d].status = "pending" /\ doc[d].source = 0
      /\ doc[d].location # NoName => to = "warehouse"
      /\ what # doc[d].what =>
           \A s \in {t \in Slots : placed[t][d] > 0} : Compatible(s, what, d)
      /\ Spend("edit") /\ Settled
      /\ Write([doc EXCEPT ![d].what = what, ![d].quantity = q, ![d].to = to, ![d].location = location])
      /\ Consume(IF doc[d].location = NoName THEN {location} ELSE {})

\* confirm_material_transfer
Confirm(f) ==
    \E d \in Coming :
    \E location \in IF doc[d].location = NoName THEN Choice(f, doc[d].what, 0) ELSE {doc[d].location} :
      /\ Spend("confirm") /\ Settled
      /\ Write([doc EXCEPT ![d].status = "received", ![d].location = location])
      /\ Consume(IF doc[d].location = NoName THEN {location} ELSE {})

\* void_material_transfer, on the way to the warehouse or from it
Void ==
    \E d \in Docs :
      /\ doc[d].status = "pending" /\ Spend("void") /\ Settled
      /\ Write([doc EXCEPT ![d].status = "voided"]) /\ UNCHANGED slot

\* create_dispatch from a lot, to a team or outside; the last pieces of a lot
\* whose weight is gone may be cleared with it.
Dispatch ==
    \E l \in Lots, q \in Amounts, outside \in BOOLEAN, clear \in BOOLEAN :
      LET line == IF outside THEN Filed("outbound", "outside", doc[l].what, q, "dispatched", NoName, l)
                  ELSE Filed("transfer", "team", doc[l].what, q, "pending", NoName, l)
          rest == OnHand(l) - q
      IN /\ NextDoc \in Docs /\ Spend("dispatch") /\ Settled /\ UNCHANGED slot
         /\ clear => rest > 0
         /\ Write([doc EXCEPT ![NextDoc] = line,
                              ![l].adjusted = IF clear THEN @ - rest ELSE @])

\* What is on its way from the warehouse is edited; the rest may be cleared here too.
EditOut ==
    \E d \in Docs, q \in Amounts, clear \in BOOLEAN :
      LET l == doc[d].source
          rest == OnHand(l) + doc[d].quantity - q
      IN /\ l # 0 /\ doc[d].status = "pending" /\ Spend("edit") /\ Settled /\ UNCHANGED slot
         /\ clear => rest > 0 /\ q # doc[d].quantity
         /\ Write([doc EXCEPT ![d].quantity = q,
                              ![l].adjusted = IF clear THEN @ - rest ELSE @])

\* confirm_outbound, of the submissions that still wait for it
ConfirmOutbound ==
    \E d \in Docs :
      /\ doc[d].kind = "outbound" /\ doc[d].status = "pending" /\ Spend("confirm")
      /\ Write([doc EXCEPT ![d].status = "dispatched"]) /\ Settled /\ UNCHANGED slot

Lose ==
    \E l \in Lots, q \in Amounts :
      /\ q <= OnHand(l) /\ Spend("lose") /\ Settled /\ UNCHANGED slot
      /\ Write([doc EXCEPT ![l].lost = @ + q])

\* resolve_amendment: the two teams agree on another quantity of a received lot,
\* downwards as far as the lot still has it.
Correct ==
    \E l \in Lots, q \in Amounts :
      /\ doc[l].kind = "transfer" /\ doc[l].quantity - q <= Grown(0, OnHand(l)) /\ OnHand(l) > 0
      /\ Spend("correct") /\ Settled /\ UNCHANGED slot
      /\ Write([doc EXCEPT ![l].quantity = q])

\* create_serial_reallocation: part of a lot becomes another material.
Reallocate(f) ==
    \E l \in Lots, what \in left.whats \ Nameless, q \in Amounts : \E location \in Choice(f, what, 0) :
      /\ what # doc[l].what /\ NextDoc \in Docs /\ Spend("reallocate") /\ Settled
      /\ Write([doc EXCEPT ![NextDoc] =
                  Filed("reallocation", "warehouse", what, q, "received", location, l)])
      /\ Consume({location})

-----------------------------------------------------------------------------
(* Managers. *)

Look == \E s \in Slots :
    /\ Exists(s) /\ screen' = <<s, slot[s].version>> /\ screen' # screen
    /\ Spend("look") /\ UNCHANGED <<slot, doc, placed, plan>>
Fresh == screen # <<>> /\ slot[screen[1]].version = screen[2]

\* place_stock: stock that is in no slot is put into one.
Room(l) == OnHand(l) + Reserved(l) - InTransit(l) - Placed(l)
Place ==
    \E l \in Lots, q \in Amounts :
      LET s == screen[1]
      IN /\ Fresh /\ slot[s].active /\ Compatible(s, doc[l].what, 0) /\ ~Leased(s)
         /\ q <= Room(l) /\ Spend("place")
         /\ placed' = [placed EXCEPT ![s][l] = @ + q]
         /\ slot' = [slot EXCEPT ![s].version = @ + 1]
         /\ UNCHANGED <<doc, screen, plan>>

\* save_location: a new slot, or an edit from the manager's screen.
Taken(name) == \E s \in Slots : slot[s].name = name
CreateSlot ==
    \E s \in Slots, name \in Names, active \in BOOLEAN :
      /\ ~Exists(s) /\ (\A t \in Slots : t < s => Exists(t)) /\ ~Taken(name) /\ Spend("manage")
      /\ slot' = [slot EXCEPT ![s].name = name, ![s].active = active]
      /\ UNCHANGED <<doc, placed, screen, plan>>

Editable(s, active) == ~Leased(s) /\ (~active => In(s) = {})
EditSlot ==
    \E name \in Names, active \in BOOLEAN :
      LET s == screen[1]
      IN /\ Fresh /\ Editable(s, active) /\ (name = slot[s].name \/ ~Taken(name)) /\ Spend("manage")
         /\ slot' = [slot EXCEPT ![s].name = name, ![s].active = active, ![s].version = @ + 1]
         /\ UNCHANGED <<doc, placed, screen, plan>>

\* warehouse_slot_cleanup: a plan is written down, and applied if it is still true.
PlanCleanup ==
    /\ Spend("tidy") /\ Crowded # {} /\ plan' = Preview
    /\ UNCHANGED <<slot, doc, placed, screen>>
ApplyCleanup ==
    /\ DOMAIN plan # {} /\ plan = Preview /\ ~\E s \in DOMAIN plan : Leased(s)
    /\ placed' = [s \in Slots |-> [d \in Docs |->
                    IF s \in DOMAIN plan /\ d # plan[s].keep THEN 0 ELSE placed[s][d]]]
    /\ slot' = [s \in Slots |-> IF s \in DOMAIN plan THEN [slot[s] EXCEPT !.version = @ + 1] ELSE slot[s]]
    /\ plan' = [s \in {} |-> 0] /\ UNCHANGED <<doc, screen, left>>

-----------------------------------------------------------------------------
Init == \E c \in Cases :
    /\ slot = c.slot /\ doc = c.doc /\ placed = c.placed /\ left = c.left
    /\ screen = <<>> /\ plan = [s \in {} |-> 0]

UseForm(f) ==
    \/ \E s \in Slots, what \in left.whats : Reserve(s, f, what)
    \/ \E s \in Slots : Release(s, f)
    \/ Receive(f) \/ SendIn(f) \/ EditIn(f) \/ Confirm(f) \/ Reallocate(f)
MoveStock == Void \/ Dispatch \/ EditOut \/ ConfirmOutbound \/ Lose \/ Correct
Manage == Look \/ Place \/ CreateSlot \/ EditSlot \/ PlanCleanup \/ ApplyCleanup

Next == (\E f \in Forms : UseForm(f)) \/ MoveStock \/ Manage \/ Tick
Spec == Init /\ [][Next]_vars
-----------------------------------------------------------------------------
(* Properties. *)

\* Only documents of the warehouse that wait or are received have a place; a
\* waiting one has all of its stock there or none. No more of a lot is in slots
\* than is still in the building, however it was sent, lost, recounted and given
\* back. One slot holds one material, and a slot out of use holds nothing and is
\* held by no form (consume, apply_changes, subtract, place_stock, save_location).
SlotsAreSound ==
    /\ \A s \in Slots :
         /\ \A d \in In(s) : doc[d].to = "warehouse" /\ doc[d].status \in {"pending", "received"}
         /\ \A d, e \in In(s) : doc[d].what = doc[e].what
         /\ ~slot[s].active => In(s) = {} /\ ~Leased(s)
    /\ \A d \in Coming : Placed(d) \in {0, doc[d].quantity}
    /\ \A l \in Lots : Placed(l) <= Grown(0, OnHand(l) + ExternalPending(l))

\* The lists tell the truth about each other and about what may be done: a slot
\* is offered exactly when a new form could claim it; the catalogue finds a slot
\* under the state it shows; a row of the inventory is there exactly when it
\* opens to a lot with something in it, or with a gap; its movements add up to
\* its stock, and it is marked as unplaced when a lot of it is (list_locations, location_dict, reserve, list_inventory,
\* list_group_sources, list_group_movements).
ListsAgree ==
    LET moved(a, d) ==
          IF d \in Sources(a) THEN doc[d].quantity + doc[d].adjusted - doc[d].lost ELSE 0
        sent(a, d) == IF doc[d].status # "voided" /\ doc[d].source \in Sources(a)
                      THEN doc[d].quantity ELSE 0
    IN /\ \A s \in Slots, f \in Forms, what \in left.whats :
            slot[s].key # f => (s \in Offered(what) <=> Admits(s, f, what))
       /\ \A s \in {t \in Slots : Exists(t)} :
            LET found == {c \in {"occupied", "pending", "available", "draft", "disabled"} : s \in Catalogue(c)}
            IN Status(s) = CASE "occupied" \in found              -> "occupied"
                             [] "occupied" \notin found /\ found \cap {"pending", "draft"} # {} -> "locked"
                             [] found = {"available"}             -> "available"
                             [] OTHER                             -> "disabled"
       /\ Inventory("current") = {a \in Anchors : Current(a) # {}}
       /\ Inventory("owned") = {a \in Anchors : \E l \in Sources(a) : Owned(l) # 0 \/ OnHand(l) < 0}
       /\ \A a \in Anchors :
            /\ GroupTotal(OnHand, a) = MapThenSumSet(LAMBDA d : moved(a, d) - sent(a, d), Movements(a))
            /\ GroupTotal(Reserved, a) = Amount(OnTheWay(a))
       /\ Unplaced(Anchors) = {a \in Anchors : \E l \in Sources(a) : Unassigned(l) > 0}

\* Every slot keeps the promise of SlotLease, whatever happens around it: what a
\* form has claimed is taken by nobody else until its time is over, the time is
\* not extended by signs of life, nothing is put into the slot behind its back,
\* and only an empty slot goes out of use (reserve, consume, save_location,
\* place_stock, apply_plan, apply_changes).
Promise == INSTANCE SlotLease WITH
    shared <- [s \in Slots |->
                 [claim |-> slot[s].key, live |-> Leased(s), contents |-> In(s),
                  age |-> IF slot[s].key = NoForm THEN 0 ELSE Longest - slot[s].deadline,
                  label |-> [name |-> slot[s].name, active |-> slot[s].active]]]
KeepsThePromise == Promise!Spec
=============================================================================
