--------------------------- MODULE LedgerReports ---------------------------
(***************************************************************************)
(* The read-only pages over the ledger: team overviews, yields, serial     *)
(* histories, traces, the factory dashboard and overview, weight families, *)
(* the lists of outbound submissions and of inspections.  Each is its own  *)
(* query over the same documents and balances, so they can disagree.       *)
(*                                                                         *)
(* Material names, business purposes, time windows, search, paging and     *)
(* rounding are left out: a page is what it shows of all the material and  *)
(* of all time.  So is shared material that no serial has yet.  A serial   *)
(* number is one of three, and a reallocation goes to the next of them.    *)
(* Origins and types of material steer nothing in StockLedger, so the      *)
(* yields are judged under every way of giving them that the code admits.  *)
(***************************************************************************)
EXTENDS StockCare

CONSTANT Tolerance   \* MATERIAL_WEIGHT_TOLERANCE, in the unit of the amounts
ASSUME ToleranceAssumption == Tolerance \in Nat

Serial == 1 .. 3
SerialOf ==
  LET of[t \in TransferId] ==
        LET row == transfer[t] IN
        CASE row.source = 0 -> 1
          [] row.source # 0 /\ row.kind = "serial_reallocation" -> (of[row.source] % 3) + 1
          [] row.source # 0 /\ row.kind # "serial_reallocation" -> of[row.source]
  IN of

Rows(Included(_)) == {t \in TransferId : transfer[t].status # "absent" /\ Included(t)}
Amount(rows, m) ==
  Total([t \in TransferId |-> When(t \in rows, transfer[t].amount[m])], MaxTransfer)
Lost(lots, m) ==
  Total([i \in LossId |-> When(loss[i].source \in lots, loss[i].amount[m])], MaxLoss)
Noted(lots, m) ==
  Total([i \in AdjustmentId |-> When(adjustment[i].source \in lots,
           adjustment[i].after[m] - adjustment[i].before[m])], MaxAdjustment)

-----------------------------------------------------------------------------
(* Stock pages.                                                            *)

\* stock_table: work inside the team is neither a receipt nor a handoff.
StockColumn(l, column, m) ==
  LET b == balance[l] IN
  CASE column = "received" -> IF transfer[l].kind \in Conversions THEN 0 ELSE b.received[m]
    [] column = "dispatched" -> b.dispatched[m] - b.converted[m]
    [] column = "owned"    -> b.on_hand[m] + b.reserved[m]
    [] column = "external_pending" -> b.reserved[m] - b.in_transit[m]
    [] column = "shortage" -> Most(0, -b.on_hand[m])
    [] column \in Column \ {"received", "dispatched"} -> b[column][m]

Sum1(lots, column, m) ==
  Total([l \in TransferId |-> IF l \in lots THEN StockColumn(l, column, m) ELSE 0], MaxTransfer)

\* overview, serial_table and team_totals sum the columns over the lots they group.
TeamTotal(team, column, m) == Sum1(LotsOf(team), column, m)
LotsAt(team, s) == {l \in LotsOf(team) : SerialOf[l] = s}

\* list_stock as the outbound form asks for it: exhausted and overdrawn lots too, but
\* not those that processing has used up.
Selectable(team) ==
  {l \in LotsOf(team) :
     \/ \E m \in Measure : StockColumn(l, "on_hand", m) > 0
     \/ Rows(LAMBDA t : transfer[t].source = l /\ transfer[t].kind = "processing_output") = {}}

\* What a team got and found is what it has, handed on or lost; and the form offers the
\* lots that a submission may draw on.
PagesReconcile ==
  /\ \A team \in Team, m \in Measure :
       LET shown(column) == TeamTotal(team, column, m)
       IN shown("received") + shown("adjusted")
            = shown("owned") + shown("dispatched") + shown("lost")
  /\ \A team \in Team :
       Selectable(team) = {l \in LotsOf(team) : ~Allocated(l, OnHand(l))}

\* outgoing_flow: everything leaves at submission, and confirmation counts nothing again.
OutgoingFlow(team) ==
  Rows(LAMBDA t : /\ transfer[t].sourceTeam = team
                  /\ \/ /\ transfer[t].kind = "transfer"
                        /\ transfer[t].status \in {"pending", "received"}
                     \/ /\ transfer[t].kind \in ExternalKinds
                        /\ transfer[t].status \in {"pending", "dispatched"})

\* A hand-written sheet leaves a team that never held it.
Unsourced(rows) == {t \in rows : transfer[t].source = 0}
ReallocatedFrom(lots) ==
  Rows(LAMBDA t : /\ transfer[t].kind = "serial_reallocation"
                  /\ transfer[t].status = "received"
                  /\ transfer[t].source \in lots)
FlowsMatchPages ==
  \A team \in Team, m \in Measure :
    LET out == OutgoingFlow(team) IN
    Amount(out \ Unsourced(out), m) + Amount(ReallocatedFrom(LotsOf(team)), m)
      = TeamTotal(team, "dispatched", m) + TeamTotal(team, "reserved", m)

-----------------------------------------------------------------------------
(* Weight families and ages: what became of what a team was given.         *)

\* Everything made of root by steps of these kinds within the team that holds it.
Descends(root, kinds) ==
  LET team == transfer[root].nextTeam
      below[t \in 0 .. MaxTransfer] ==
        t # 0 /\ (t = root \/ /\ IsStock(transfer[t]) /\ transfer[t].kind \in kinds
                              /\ transfer[t].sourceTeam = team /\ transfer[t].nextTeam = team
                              /\ below[transfer[t].source])
  IN {t \in TransferId : below[t]}

\* weight_lineage; weight_differences finds the root again by walking up.
WeightRoots == {l \in StockIds(transfer) : transfer[l].kind \notin Conversions}
WeightFamily(root) == Descends(root, Conversions)
WeightRoot ==
  LET up[t \in TransferId] ==
        IF transfer[t].kind \in Conversions THEN up[transfer[t].source] ELSE t
  IN up
WeightDifference(root) ==
  Sum1(WeightFamily(root), "adjusted", "weight") + Sum1(WeightFamily(root), "shortage", "weight")

\* stock_age_table: a lot keeps the clock of the receipt it comes from in its team.
LocalKinds == Conversions \cup {"serial_reallocation"}
Aged(root) == Descends(root, LocalKinds)
AgeRoots == {l \in StockIds(transfer) : transfer[l].kind \notin LocalKinds}

\* output_balances: a lot with its outputs, for the processing pages of its team.
OutputBalance(l, column, m) == Sum1(Descends(l, {"processing_output"}), column, m)

\* Every lot has one weight family, the one its own page finds, and one age; so a
\* team's differences and its processed stock are counted once.
FamiliesPartition ==
  /\ \A l \in StockIds(transfer) :
       /\ {r \in WeightRoots : l \in WeightFamily(r)} = {WeightRoot[l]}
       /\ Cardinality({r \in AgeRoots : l \in Aged(r)}) = 1
  /\ \A team \in Team :
       LET lots == LotsOf(team)
           made == {l \in lots : transfer[l].kind = "processing_output"}
       IN /\ Total([r \in TransferId |->
                     IF r \in lots \cap WeightRoots THEN WeightDifference(r) ELSE 0], MaxTransfer)
               = TeamTotal(team, "adjusted", "weight") + TeamTotal(team, "shortage", "weight")
          /\ \A m \in Measure :
               Total([l \in TransferId |->
                       IF l \in lots \ made THEN OutputBalance(l, "owned", m) ELSE 0], MaxTransfer)
                 = TeamTotal(team, "owned", m)

-----------------------------------------------------------------------------
(* Yields.                                                                 *)

\* Where an entry comes from: an external receipt, one of earlier versions without a
\* kind too, goods returned to the warehouse, or opening stock.
Entries == Rows(LAMBDA t : transfer[t].kind = "entry")
Origins ==
  {origin \in [Entries -> {"external", "return", "opening"}] :
     \A t \in Entries : origin[t] # "opening" => transfer[t].nextTeam = Warehouse}

\* What the settled lines carry.  Scrap stays scrap and leaves by the warehouse alone,
\* which changes no type (validate_material_route).
Departed ==
  Rows(LAMBDA t : /\ transfer[t].kind \in ExternalKinds \cup {"transfer"}
                  /\ transfer[t].status \in {"received", "dispatched"})
Types ==
  {type \in [Departed -> {"finished", "scrap", "other"}] :
     \A t \in Departed :
       LET row == transfer[t] IN
       /\ type[t] = "scrap" => row.nextTeam = Warehouse \/ row.kind = "warehouse_outbound"
       /\ row.source \in Departed =>
            /\ type[row.source] = "scrap" => type[t] = "scrap"
            /\ row.sourceTeam = Warehouse => type[t] = type[row.source]}

\* reallocation_weights: the serial numbers that material went from and to.
Assigned == ReallocatedFrom(StockIds(transfer))
Assignments == {<<SerialOf[transfer[t].source], SerialOf[t], transfer[t].nextTeam>> : t \in Assigned}
AssignedTo(s) == {t \in Assigned : SerialOf[t] = s}
AssignedFrom(s) == {t \in Assigned : SerialOf[transfer[t].source] = s}

LotsUnder(s) == {l \in StockIds(transfer) : SerialOf[l] = s}
LargestDifference(lots) ==
  Max({0} \cup UNION {{WeightDifference(r), -WeightDifference(r)} : r \in lots \cap WeightRoots})

\* What yields reads of a serial number: its documents that are not voided ...
Listed(s) == Rows(LAMBDA t : SerialOf[t] = s /\ transfer[t].status # "voided")
FactoryInput(s, origin) ==
  Amount({t \in Listed(s) \cap Entries : origin[t] = "external"}, "weight")
\* ... and finished_shipments
Shipped(s) == {t \in Departed : SerialOf[t] = s /\ transfer[t].kind \in ExternalKinds}
FactoryOutput(s, type) ==
  Amount({t \in Shipped(s) : type[t] = "finished"}, "weight")

\* One round, which is also the mutated form of all of them.
SpreadOnce(uncertain) == uncertain \cup {a[2] : a \in {b \in Assignments : b[1] \in uncertain}}
\* Reassigning an unknown input cannot make its origin measurable: one round for each
\* assignment there is.
SpreadOver(uncertain) ==
  LET after[n \in 0 .. Cardinality(Assignments)] ==
        IF n = 0 THEN uncertain ELSE SpreadOnce(after[n - 1])
  IN after[Cardinality(Assignments)]

\* The serial numbers whose input the page does not vouch for.
Uncertain(origin) ==
  LET unknown(t) ==
        \/ t \in Entries /\ origin[t] # "external"
        \/ transfer[t].kind = "transfer" /\ transfer[t].status = "received" /\ ~transfer[t].tracked
  IN SpreadOver({s \in Serial : Listed(s) # {} /\
       \/ \E t \in Listed(s) : unknown(t)
       \/ FactoryInput(s, origin) = 0 /\ Amount(AssignedTo(s), "weight") = 0
       \/ LargestDifference(LotsUnder(s)) > Tolerance})

FactoryYield(s, origin, type) ==
  LET lots == LotsUnder(s)
      out == Amount(AssignedFrom(s), "weight")
      source == FactoryInput(s, origin) + Amount(AssignedTo(s), "weight") - out
      measured == source + Sum1(lots, "adjusted", "weight")
      output == FactoryOutput(s, type)
  IN [input |-> source, output |-> output,
      status |->
        IF \/ s \in Uncertain(origin)
           \/ measured < 0
           \/ measured = 0 /\ out = 0
           \/ output > measured + Sum1(lots, "shortage", "weight")
        THEN "needs_review"
        ELSE IF \/ \E l \in lots, m \in Measure : StockColumn(l, "owned", m) > 0
                \/ \E t \in Listed(s) : transfer[t].status = "pending"
             THEN "in_progress" ELSE "complete"]

\* What came in is shipped as finished or as something else, lost or still there, and
\* once the page says complete it is not there.  Returned goods, opening stock and
\* hand-written sheets are no input; but unless the page asks for a review, nothing
\* under the number was made of, or taken over from, returned goods or opening stock.
FactoryYieldsAddUp ==
  \A s \in Serial : Listed(s) # {} =>
    LET lots == LotsUnder(s)
        weight(column) == Sum1(lots, column, "weight")
        sheets == {l \in Unsourced(lots) : transfer[l].kind = "transfer"}
    IN \A origin \in Origins, type \in Types :
         LET y == FactoryYield(s, origin, type)
             uncounted == sheets \cup {t \in Listed(s) \cap Entries : origin[t] # "external"}
             other == {t \in Shipped(s) : type[t] # "finished"}
             there == IF y.status = "complete" THEN -weight("shortage") ELSE weight("owned")
         IN /\ y.input + Amount(uncounted, "weight") + weight("adjusted")
                 = y.output + Amount(other, "weight") + weight("lost") + there
            /\ y.status # "needs_review" =>
                 \A l \in lots : \A e \in Ancestry[l] \cap Entries : origin[e] = "external"

\* get_team_yields for one serial number
YieldInput(team, s) ==
  Sum1(LotsAt(team, s), "received", "weight")
    - Amount({t \in AssignedFrom(s) : transfer[t].nextTeam = team}, "weight")
Sent(team, s) == {t \in Departed : SerialOf[t] = s /\ transfer[t].sourceTeam = team}
YieldOutput(team, s, type) ==
  Amount({t \in Sent(team, s) : type[t] # "scrap"}, "weight")
YieldStatus(team, s, type) ==
  LET lots == LotsAt(team, s)
      weight(column) == Sum1(lots, column, "weight")
  IN IF \/ LargestDifference(lots) > Tolerance
        \/ YieldOutput(team, s, type)
             > YieldInput(team, s) + weight("adjusted") + weight("shortage")
     THEN "needs_review"
     ELSE IF \E l \in lots, m \in Measure : StockColumn(l, "owned", m) > 0
          THEN "in_progress" ELSE "complete"

\* What a team was given is output, scrap, lost or still there; a hand-written sheet
\* is output of a team that never had it.  Once complete, no more came in than went.
TeamYieldsAddUp ==
  \A team \in Team, s \in Serial :
    LET lots == LotsAt(team, s)
        weight(column) == Sum1(lots, column, "weight")
        given == YieldInput(team, s) + weight("adjusted")
                   + Amount(Unsourced(Sent(team, s)), "weight")
    IN \A type \in Types :
         LET scrap == {t \in Sent(team, s) : type[t] = "scrap"}
             gone == YieldOutput(team, s, type) + Amount(scrap, "weight") + weight("lost")
         IN /\ given = gone + weight("owned")
            /\ lots # {} /\ YieldStatus(team, s, type) = "complete" => given <= gone

-----------------------------------------------------------------------------
(* The history of a serial number in a team, and its trace in the factory. *)

HistoryIncoming(lots) == {l \in lots : transfer[l].kind # "processing_output"}
HistoryOutgoing(team, lots) ==
  Rows(LAMBDA t : /\ transfer[t].sourceTeam = team
                  /\ transfer[t].source \in lots
                  /\ transfer[t].kind # "processing_output"
                  /\ transfer[t].status # "voided")

\* The totals of the history: what came in, was noted, lost and went out, and the rest.
HistoryTotals ==
  \A team \in Team, s \in Serial, m \in Measure :
    LET lots == LotsAt(team, s) IN
    Amount(HistoryIncoming(lots), m) + Noted(lots, m)
      = Sum1(lots, "on_hand", m) + Lost(lots, m) + Amount(HistoryOutgoing(team, lots), m)

\* The closing balance of a lot by the events of its curve: receipts, outputs, losses
\* and recounts as they stand, but each outgoing line as the events created, updated,
\* reallocated and voided tell it.
OutgoingOf(l) == HistoryOutgoing(transfer[l].nextTeam, {l})
CurveCloses(l, m) ==
  LET outputs == {t \in StockIds(transfer) : /\ transfer[t].source = l
                                             /\ transfer[t].kind = "processing_output"}
  IN transfer[l].amount[m] + Noted({l}, m) - Amount(outputs, m) - Lost({l}, m)
       - Total([t \in TransferId |-> When(t \in OutgoingOf(l), told[t][m])], MaxTransfer)

\* The curve closes at the stock on hand, and misses that by what amendments approved
\* on the lines of the lot changed: the curve reads no amendment_approved, although
\* the docstring of team_serial_history.py has every edit adjust it.
CurvesMissAmendmentsAlone ==
  \A l \in StockIds(transfer), m \in Measure :
    CurveCloses(l, m) = OnHand(l)[m]
      + Total([t \in TransferId |-> When(t \in OutgoingOf(l), corrected[t][m])], MaxTransfer)

\* The buckets of serial_trace, whatever team the material is in.
Traced(s) == Rows(LAMBDA t : SerialOf[t] = s)
TraceBucket(rows, bucket, m) ==
  LET pending == {t \in rows : transfer[t].status = "pending"} IN
  CASE bucket = "on_hand" -> Sum1(rows \cap StockIds(transfer), "on_hand", m)
    [] bucket = "in_transit" -> Amount({t \in pending : transfer[t].kind = "transfer"}, m)
    [] bucket = "external_pending" -> Amount({t \in pending : transfer[t].kind # "transfer"}, m)
    [] bucket = "dispatched" -> Amount({t \in rows : transfer[t].status = "dispatched"}, m)
    [] bucket = "lost" -> Lost(rows, m)
Buckets == {"on_hand", "in_transit", "external_pending", "dispatched", "lost"}

\* What entered under a serial number, less what other numbers took over and with
\* what it took over itself, lies in one of the buckets.
TracesReconcile ==
  \A s \in Serial, m \in Measure :
    LET rows == Traced(s)
        lots == rows \cap StockIds(transfer)
        entered == {t \in rows : /\ transfer[t].source = 0
                                 /\ transfer[t].status = "pending" \/ t \in lots}
        taken == {t \in lots : transfer[t].kind = "serial_reallocation"}
    IN Amount(entered, m) + Amount(taken, m) + Sum1(lots, "adjusted", m)
         = Amount(ReallocatedFrom(lots), m)
             + TraceBucket(rows, "on_hand", m) + TraceBucket(rows, "in_transit", m)
             + TraceBucket(rows, "external_pending", m)
             + TraceBucket(rows, "dispatched", m) + TraceBucket(rows, "lost", m)

-----------------------------------------------------------------------------
(* The factory.                                                            *)

Pending == Rows(LAMBDA t : transfer[t].status = "pending")
IncomingTo(team) == {t \in Pending : transfer[t].nextTeam = team /\ transfer[t].kind = "transfer"}
WaitingExternal == {t \in Pending : transfer[t].kind \in ExternalKinds}
\* ownership: the matrix sums what is owned over the lots that show anything.
ShowsStock(l) == \E m \in Measure : StockColumn(l, "owned", m) # 0
                                   \/ StockColumn(l, "shortage", m) > 0
OwnedInMatrix(m) == Sum1({l \in StockIds(transfer) : ShowsStock(l)}, "owned", m)
\* get_stock_detail of one team, one row per serial number
StockDetail(team, s, m) == Sum1({l \in LotsAt(team, s) : ShowsStock(l)}, "owned", m)

\* The factory counts a movement once, not at each of its ends, and a lot under way
\* belongs to its sender until it is signed for.
FactoryMatchesTeams ==
  \A m \in Measure :
    LET overTeams(column) ==
          Sum1({l \in StockIds(transfer) : transfer[l].nextTeam \in Team}, column, m)
        waiting == UNION {IncomingTo(team) : team \in Team}
        sheets == Unsourced(Pending)
    IN /\ OwnedInMatrix(m) = overTeams("on_hand") + Amount(Pending \ sheets, m)
       /\ \A team \in Team :
            Total([s \in Serial |-> StockDetail(team, s, m)], 3) = TeamTotal(team, "owned", m)
       /\ Amount(Pending, m) = Amount(waiting, m) + Amount(WaitingExternal, m)
       /\ overTeams("in_transit") = Amount(waiting \ sheets, m)
       /\ overTeams("external_pending") = Amount(WaitingExternal, m)

-----------------------------------------------------------------------------
(* Lists of submissions and of inspections.                                *)

Items(group) == {t \in TransferId : transfer[t].group = group}
\* dispatch_status, of one page
DispatchStatus(items) ==
  LET statuses == {transfer[t].status : t \in items}
      active == statuses \ {"voided"}
  IN CASE statuses = {"voided"} -> "voided"
       [] active = {"received"} -> "received"
       [] active = {"dispatched"} -> "dispatched"
       [] active \notin {{}, {"received"}, {"dispatched"}} ->
            IF active \cap {"received", "dispatched"} # {} THEN "partial" ELSE "pending"
\* list_dispatches, which filters by status in the database
ListedStatus(items) ==
  LET some(status) == \E t \in items : transfer[t].status = status IN
  IF \A t \in items : transfer[t].status = "voided" THEN "voided"
  ELSE IF some("pending")
       THEN IF some("received") \/ some("dispatched") THEN "partial" ELSE "pending"
       ELSE IF some("dispatched") THEN "dispatched" ELSE "received"
\* allowed_actions of the team that may confirm the whole submission
Offered(items) ==
  LET pending == {t \in items : transfer[t].status = "pending"} IN
  /\ pending # {}
  /\ \A t \in pending : transfer[t].kind \in ExternalKinds \/ ~transfer[t].rejected

\* list_outbound_batches lists every line; list_dispatches submissions and single lines.
OutboundBatches(team) ==
  Rows(LAMBDA t : transfer[t].sourceTeam = team /\ transfer[t].kind \in ExternalKinds \cup {"transfer"})
Singles(team) == {t \in OutboundBatches(team) : transfer[t].group = 0}
GroupsOf(team) ==
  {transfer[t].group : t \in Rows(LAMBDA t : transfer[t].sourceTeam = team)} \ {0}

\* The list and the page of a submission name the same status, a submission that
\* offers to be confirmed can be, and each line is listed once.
SubmissionsListed ==
  \A team \in Team :
    /\ \A g \in GroupsOf(team) :
         /\ ListedStatus(Items(g)) = DispatchStatus(Items(g))
         /\ Offered(Items(g)) => \A t \in Items(g) :
              transfer[t].status = "pending" =>
                MayBeReceived(transfer[t]) /\ IsStock(transfer[transfer[t].source])
    /\ Singles(team) \cup UNION {Items(g) : g \in GroupsOf(team)} = OutboundBatches(team)

\* inspections.list_records for one lot
RecordsOf(l) ==
  {i \in InspectionsUsed : \/ inspection[i].lot \in Ancestry[l]
                           \/ /\ inspection[i].parent # 0
                              /\ inspection[inspection[i].parent].lot \in Ancestry[l]}
\* rework_stock: where the material of a problem is now.
ReworkStock(i) ==
  {l \in StockIds(transfer) : /\ inspection[i].lot \in Ancestry[l]
                              /\ OnHand(l)["quantity"] > 0 /\ OnHand(l)["weight"] > 0}

\* Whoever looks a lot up finds the inspection that holds it, and that problem lists
\* the lot among those to be reworked.
HoldsAreFindable ==
  \A l \in StockIds(transfer) : \A i \in HoldsOn(l) :
    /\ i \in RecordsOf(l)
    /\ FitsIn([m \in Measure |-> 1], OnHand(l)) => l \in ReworkStock(i)

-----------------------------------------------------------------------------
\* The pages agree, after whatever happened: the stock pages reconcile with the
\* flows, yields, weight families, serial histories and traces, the factory with its
\* teams, and the lists of submissions and inspections with what they list
\* (docs/transactional-stock-balances.md: every page answers from the one balance table).
\* Where the code's own figures leave something out, the equations name it.
ReportsAgree ==
  /\ PagesReconcile
  /\ FlowsMatchPages
  /\ FactoryYieldsAddUp
  /\ TeamYieldsAddUp
  /\ FamiliesPartition
  /\ HistoryTotals
  /\ CurvesMissAmendmentsAlone
  /\ TracesReconcile
  /\ FactoryMatchesTeams
  /\ SubmissionsListed
  /\ HoldsAreFindable
=============================================================================
