------------------------------ MODULE Quality ------------------------------
(***************************************************************************)
(* Inspections, the feedback on the problems they find, and the holds of   *)
(* earlier versions (inspections.py, quality_feedback.py) over the stock   *)
(* of StockLedger.  An inspection that failed is a problem until the       *)
(* inspection team closes it; rechecks belong to their problem.  New       *)
(* inspections hold nothing back, but rows written before that rule still  *)
(* do, until the inspection team releases them by a decision.              *)
(*                                                                         *)
(* A form opened before another write of the same problem is refused by    *)
(* its feedback_version and changes nothing, so it is no step here.        *)
(***************************************************************************)
EXTENDS StockLedger

CONSTANTS
  MaxInspection,   \* rows of material_inspections
  TeamSets,        \* the sets of teams a problem may involve
  Dispositions     \* what the inspection team may decide

InspectionId == 1 .. MaxInspection
FeedbackStatus == {"pending", "processing", "closed"}
InspectionRow ==
  [lot : 0 .. MaxTransfer, kind : {"none", "patrol", "inspection"}, parent : 0 .. MaxInspection,
   failed : BOOLEAN, blocks : BOOLEAN, released : BOOLEAN, teams : SUBSET Team,
   status : FeedbackStatus, disposition : {"pending"} \cup Dispositions]
NoInspection ==
  [lot |-> 0, kind |-> "none", parent |-> 0, failed |-> FALSE, blocks |-> FALSE,
   released |-> FALSE, teams |-> {}, status |-> "pending", disposition |-> "pending"]

VARIABLES
  inspection,   \* [InspectionId -> InspectionRow]
  holdRoot,     \* inspection_hold_root_id of each lot (0: none)
  remainder     \* the lots whose processing_role is "remaining"

qualityVars == <<inspection, holdRoot, remainder>>

-----------------------------------------------------------------------------
(* Lineage and holds.                                                      *)

\* material_lineage.relatives: a lot and everything it was drawn from.
Ancestry ==
  LET up[t \in TransferId] ==
        {t} \cup IF transfer[t].source = 0 THEN {} ELSE up[transfer[t].source]
  IN up

\* hold_conditions
Holding(row) == row.blocks /\ row.parent = 0 /\ row.failed /\ ~row.released

\* hold_column and lock_hold: the holds on the lot itself or on its root.
HoldsOn(l) == {i \in InspectionId : /\ Holding(inspection[i])
                                    /\ inspection[i].lot \in {l, holdRoot[l]}}
Held(l) == HoldsOn(l) # {}

\* Mutated: what is made of a lot keeps only a hold on that very lot.
PassedOnByOwnHold(l) ==
  IF \E i \in HoldsOn(l) : inspection[i].lot = l THEN {l} ELSE {0}
\* The root that outputs and rework splits of l are given; of two holds, either.
PassedOn(l) ==
  IF Held(l) THEN {inspection[i].lot : i \in HoldsOn(l)} ELSE {holdRoot[l]}

\* What a step draws from a lot to leave it: a new line, or more on an old one.
DrawsMore(t) ==
  /\ transfer'[t].source # 0
  /\ transfer'[t].kind \notin Conversions
  /\ \E m \in Measure : transfer'[t].amount[m] > transfer[t].amount[m]

\* require_rework_issue and the family check of request_rework.
MayRework(l) ==
  Held(l) => \E i \in InspectionId :
    LET row == inspection[i] IN
    /\ row.failed /\ row.parent = 0
    /\ row.status # "closed" /\ row.disposition = "rework"
    /\ row.lot \in Ancestry[l]

\* require_clear and its kin.  Work on a held lot is registered as rework, which
\* writes the same rows.
HoldsRespected ==
  \A t \in TransferId :
    /\ DrawsMore(t) => ~Held(transfer'[t].source)
    /\ transfer'[t].kind = "rework_split" /\ transfer[t].status = "absent" =>
         MayRework(transfer'[t].source)

\* The lots a step makes out of others of the same team.
Made == {t \in TransferId : transfer[t].status = "absent" /\ transfer'[t].kind \in Conversions}

\* The roles of the outputs: by the piece the second one is what is left over;
\* a splitting team's older forms may call any of theirs so.
MayRemain(lots) ==
  /\ \A t \in lots : transfer'[t].kind = "processing_output"
  /\ \A t \in Made : transfer'[t].nextTeam \notin Splitting =>
       Cardinality(lots) = Cardinality(Made) - 1

\* All the lots made get the hold that the handler locked.
NoteMade ==
  IF Made = {} THEN UNCHANGED <<holdRoot, remainder>>
  ELSE \E lots \in SUBSET Made :
       \E root \in UNION {PassedOn(transfer'[t].source) : t \in Made} :
         /\ MayRemain(lots)
         /\ remainder' = remainder \cup lots
         /\ holdRoot' = [t \in TransferId |-> IF t \in Made THEN root ELSE holdRoot[t]]

-----------------------------------------------------------------------------
(* Inspections and feedback.  None of them writes a document.              *)

\* registered_lots: worked on, or made by work and not left over.
Registered(l) ==
  \/ \E i \in AdjustmentId : adjustment[i].source = l /\ adjustment[i].why # "clear"
  \/ transfer[l].kind = "processing_output" /\ l \notin remainder

InspectionsUsed == {i \in InspectionId : inspection[i].kind # "none"}
Problem(i) == inspection[i].failed /\ inspection[i].parent = 0

Inspectable(l, kind) ==
  /\ transfer[l].nextTeam \in Processing
  /\ OnHand(l)["quantity"] > 0
  /\ IF kind = "inspection" THEN transfer[l].nextTeam = Inspection ELSE Registered(l)

Record(i, row) ==
  /\ IsNext(i, InspectionsUsed)
  /\ inspection' = [inspection EXCEPT ![i] = row]
  /\ UNCHANGED <<vars, holdRoot, remainder>>

Inspect(l, kind) ==
  \E i \in InspectionId, failed \in BOOLEAN, teams \in TeamSets :
    /\ Inspectable(l, kind)
    /\ Record(i, [NoInspection EXCEPT !.lot = l, !.kind = kind, !.failed = failed,
                                      !.teams = IF failed THEN teams ELSE {}])

\* A recheck names the problem and a lot of its family; it releases nothing.
Recheck(l, parent) ==
  \E i \in InspectionId, failed \in BOOLEAN :
    /\ Problem(parent)
    /\ inspection[parent].lot \in Ancestry[l]
    /\ Inspectable(l, inspection[parent].kind)
    /\ Record(i, [NoInspection EXCEPT !.lot = l, !.kind = inspection[parent].kind,
                                      !.parent = parent, !.failed = failed])

Reply(i, team) ==
  /\ Problem(i)
  /\ team \in inspection[i].teams
  /\ inspection[i].status # "closed"
  /\ inspection' = [inspection EXCEPT ![i].status = "processing"]
  /\ UNCHANGED <<vars, holdRoot, remainder>>

Decide(i) ==
  \E disposition \in {"pending"} \cup Dispositions, status \in FeedbackStatus,
     teams \in TeamSets, release \in BOOLEAN :
    /\ Problem(i)
    /\ status = "closed" => disposition # "pending"
    /\ release => inspection[i].blocks /\ ~inspection[i].released
    /\ inspection' = [inspection EXCEPT ![i] =
         [@ EXCEPT !.disposition = disposition, !.status = status, !.teams = teams,
                   !.released = @ \/ release]]
    /\ UNCHANGED <<vars, holdRoot, remainder>>

JudgeQuality ==
  \/ \E l \in StockIds(transfer), kind \in {"patrol", "inspection"} : Inspect(l, kind)
  \/ \E l \in StockIds(transfer), parent \in InspectionId : Recheck(l, parent)
  \/ \E i \in InspectionId : Decide(i) \/ \E team \in Team : Reply(i, team)

-----------------------------------------------------------------------------
(* Properties.                                                             *)

\* A lot and what it was made of by processing or rework, by its own team or others'.
MadeOf ==
  LET up[t \in TransferId] ==
        {t} \cup IF transfer[t].kind \in Conversions THEN up[transfer[t].source] ELSE {}
  IN up

\* A lot that failed an inspection of the blocking days, and whatever was made of
\* it since by processing, rework or splitting, goes nowhere until the inspection
\* team lifts that hold: no line, no reallocation, no larger amount on a waiting
\* line and no amendment draws on it (docs/rework-and-on-site-inspections.md:44,
\* the hold passes to outputs, remainders and scrap).
HoldsKeepMaterial ==
  [][\A t \in TransferId : DrawsMore(t) =>
       ~\E i \in InspectionId :
          /\ inspection[i].blocks /\ inspection[i].failed /\ ~inspection[i].released
          /\ inspection[i].parent = 0
          /\ inspection[i].lot \in MadeOf[transfer'[t].source]]_<<vars, qualityVars>>
=============================================================================
