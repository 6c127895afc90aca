----------------------------- MODULE StockCare -----------------------------
(***************************************************************************)
(* The ledger together with what watches over it: every transaction of     *)
(* StockLedger under the holds of Quality, with the roles and hold roots   *)
(* its new lots get, interleaved with inspections, feedback and the        *)
(* amendments of received handoffs.                                        *)
(***************************************************************************)
EXTENDS Amendments

CONSTANT Starts   \* the tables the system may be found with, and steps to spend

VARIABLE left   \* steps of each sort the instance still takes

varsCare == <<vars, qualityVars, proposal, trailVars, left>>
Budget == [ledger : Nat, quality : Nat, amend : Nat]

Spend(sort) == left[sort] > 0 /\ left' = [left EXCEPT ![sort] = @ - 1]

ASSUME StartsAssumption ==
  \A s \in Starts : /\ s.transfer \in [TransferId -> Transfer]
                    /\ s.adjustment \in [AdjustmentId -> Adjustment]
                    /\ s.inspection \in [InspectionId -> InspectionRow]
                    /\ s.left \in Budget

InitCare ==
  \E s \in Starts :
    /\ transfer = s.transfer
    /\ loss = [i \in LossId |-> NoLoss]
    /\ adjustment = s.adjustment
    /\ balance = [l \in StockIds(transfer) |-> ExpectedBalance(l)]
    /\ inspection = s.inspection
    /\ holdRoot = s.holdRoot
    /\ remainder = s.remainder
    /\ proposal = [t \in TransferId |-> NoProposal]
    /\ told = [t \in TransferId |-> transfer[t].amount]
    /\ corrected = [t \in TransferId |-> Nothing]
    /\ left = s.left

\* _record_event: what a handler changed of the amounts is in the event it writes.
NoteAmounts ==
  /\ told' = [t \in TransferId |->
       IF transfer'[t].amount # transfer[t].amount THEN transfer'[t].amount ELSE told[t]]
  /\ UNCHANGED corrected

LedgerStep ==
  /\ Spend("ledger")
  /\ Next
  /\ HoldsRespected
  /\ NoteMade
  /\ NoteAmounts
  /\ UNCHANGED <<inspection, proposal>>
QualityStep == Spend("quality") /\ JudgeQuality /\ UNCHANGED <<proposal, trailVars>>
AmendStep == Spend("amend") /\ Amend

NextCare == LedgerStep \/ QualityStep \/ AmendStep
SpecCare == InitCare /\ [][NextCare]_varsCare

-----------------------------------------------------------------------------
(* Properties.                                                             *)

\* An amendment moves only material its receiver has not used.  A received
\* handoff changes its amounts by its pending proposal alone; then the sender's
\* lot gives or gets back the difference, the receiver's lot and what is left over
\* from it by processing hold as much more or less, every other lot keeps what it
\* has, and no lot is overdrawn that was not and no document has less than nothing:
\* what was processed, sent on or lost meanwhile is not taken away again
\* (transfer_amendments.resolve_amendment, _allocate_remaining).
Family(t) == {l \in TransferId : l = t \/ (t \in MadeOf[l] /\ l \in remainder)}
Gain(lots, m) ==
  Total([l \in TransferId |-> When(l \in lots, balance'[l].on_hand[m] - OnHand(l)[m])],
        MaxTransfer)
ApprovedAsProposed ==
  [][\A t \in StockIds(transfer) :
       transfer[t].kind = "transfer" /\ transfer'[t].amount # transfer[t].amount =>
         LET p == proposal[t]
             s == transfer[t].source
         IN /\ p # NoProposal
            /\ transfer[t].amount = p.before /\ transfer'[t].amount = p.after
            /\ \A l \in TransferId : FitsIn(Nothing, transfer'[l].amount)
            /\ \A m \in Measure :
                 LET delta == p.after[m] - p.before[m] IN
                 /\ Gain(Family(t), m) = delta
                 /\ Gain({s} \ {0}, m) = When(s # 0, -delta)
                 /\ \A l \in DOMAIN balance :
                      /\ balance'[l].on_hand[m] < OnHand(l)[m] =>
                           balance'[l].on_hand[m] >= 0
                      /\ l \notin Family(t) \cup {s} =>
                           balance'[l].on_hand[m] = OnHand(l)[m]]_varsCare
=============================================================================
