----------------------------- MODULE Amendments -----------------------------
(***************************************************************************)
(* transfer_amendments.py: corrections to a handoff that its receiver has  *)
(* already signed for, requested by one of the two teams and approved by   *)
(* the other.  What may be corrected is what the receiver has not used:    *)
(* its own lot and, below it, the lots left over from processing it, then  *)
(* from processing those.  A correction is spread over these branches in   *)
(* the order of a walk from parent to child.                               *)
(*                                                                         *)
(* The notes of a document are not kept: a request that changes only the   *)
(* notes proposes the amounts as they are.                                 *)
(***************************************************************************)
EXTENDS Quality, SequencesExt

CONSTANTS
  Proposable,   \* the amounts a request may propose
  NoProposal

Proposal == [before : [Measure -> Nat], after : [Measure -> Nat], base : Nat]

VARIABLES
  proposal,    \* the pending amendment of each transfer
  told,        \* the amounts of each document by the events of its own handlers
  corrected    \* what the approved amendments of each document changed, which its
               \* amendment_approved events tell

trailVars == <<told, corrected>>

-----------------------------------------------------------------------------
(* What is left to correct.                                                *)

Least(a, b) == IF a <= b THEN a ELSE b
Most(a, b) == IF a >= b THEN a ELSE b

\* eligible
Eligible(t) ==
  /\ IsStock(transfer[t]) /\ transfer[t].kind = "transfer"
  /\ transfer[t].sourceTeam \in Team /\ transfer[t].nextTeam \in Team
  /\ transfer[t].sourceTeam # transfer[t].nextTeam

\* _local_remaining: stock that was recounted in place may have been worked on.
Unused(l) ==
  [m \in Measure |->
    IF \E i \in AdjustmentId : adjustment[i].source = l /\ adjustment[i].why = "count"
    THEN 0 ELSE Most(0, OnHand(l)[m])]

\* From the received lot down to l through the lots left over, or <<>>.
PathFrom(root) ==
  LET leftOver(l) == /\ l \in remainder /\ IsStock(transfer[l])
                     /\ transfer[l].kind = "processing_output"
                     /\ transfer[l].nextTeam = transfer[root].nextTeam
      path[l \in 0 .. MaxTransfer] ==
        IF l = root THEN <<root>>
        ELSE IF l = 0 THEN <<>>
        ELSE IF ~leftOver(l) THEN <<>>
        ELSE IF path[transfer[l].source] = <<>> THEN <<>>
        ELSE Append(path[transfer[l].source], l)
  IN path

\* Parents before children, and children by number.
Before(p, q) ==
  \/ IsStrictPrefix(p, q)
  \/ \E i \in DOMAIN p \cap DOMAIN q :
       p[i] < q[i] /\ SubSeq(p, 1, i - 1) = SubSeq(q, 1, i - 1)

\* _remaining_branches
Capacity(path) ==
  LET l == Last(path) IN [m \in Measure |-> Least(Unused(l)[m], transfer[l].amount[m])]
Branches(root) ==
  LET paths == {PathFrom(root)[l] : l \in TransferId} \ {<<>>}
  IN SetToSortSeq({p \in paths : Unused(Last(p)) # Nothing}, Before)

\* Mutated: the lots between the received one and the branch keep their amounts.
SpreadToLeaf(branches, m, delta) ==
  FoldLeft(LAMBDA acc, path :
             LET room == Capacity(path)[m]
                 applied == IF acc.pending > 0 THEN acc.pending
                            ELSE -Least(-acc.pending, room)
             IN [pending |-> acc.pending - applied,
                 change |-> [l \in TransferId |->
                   acc.change[l] + When(l = Last(path) /\ Len(path) > 1, applied)]],
           [pending |-> delta, change |-> [l \in TransferId |-> 0]], branches)

\* _allocate_remaining for one measure: an increase goes to the first branch, a
\* decrease takes from each what it and the lots above it still have.
Spread(branches, m, delta) ==
  FoldLeft(LAMBDA acc, path :
             LET below == {path[i] : i \in 2 .. Len(path)}
                 given == {transfer[l].amount[m] + acc.change[l] : l \in below}
                 room == Min(given \cup {Capacity(path)[m]})
                 applied == IF acc.pending > 0 THEN acc.pending
                            ELSE -Least(-acc.pending, room)
             IN [pending |-> acc.pending - applied,
                 change |-> [l \in TransferId |->
                   acc.change[l] + When(l \in below, applied)]],
           [pending |-> delta, change |-> [l \in TransferId |-> 0]], branches)

Change(t, after, m) == Spread(Branches(t), m, after[m] - transfer[t].amount[m])

-----------------------------------------------------------------------------
(* _validate_change, and the two handlers.                                 *)

RoomFor(t, delta) ==
  LET branches == Branches(t)
      room == [m \in Measure |-> FoldLeft(LAMBDA sum, p : sum + Capacity(p)[m], 0, branches)]
  IN room # Nothing /\ \A m \in Measure : -delta[m] <= room[m]

\* More of the material must come from what the sender still has, and may give.
SenderCanAdd(t, delta) ==
  LET l == transfer[t].source IN
  (\E m \in Measure : delta[m] > 0) =>
    /\ l # 0
    /\ \A m \in Measure : delta[m] <= Most(0, OnHand(l)[m])
    /\ ~Held(l)

CanChange(t, after) ==
  LET delta == [m \in Measure |-> after[m] - transfer[t].amount[m]] IN
  delta # Nothing =>
    /\ RoomFor(t, delta)
    /\ SenderCanAdd(t, delta)
    /\ \A m \in Measure : Change(t, after, m).pending = 0

\* Either team requests it; a document has one pending amendment.
RequestAmendment(t) ==
  \E after \in Proposable \cup {transfer[t].amount} :
    /\ Eligible(t)
    /\ proposal[t] = NoProposal
    /\ CanChange(t, after)
    /\ proposal' = [proposal EXCEPT ![t] =
         [before |-> transfer[t].amount, after |-> after, base |-> transfer[t].version]]
    /\ UNCHANGED <<vars, qualityVars, trailVars>>

\* The lots a correction passes through change by as much, each a version on.
Corrected(t, l, after) ==
  [Edited(transfer[l]) EXCEPT !.amount =
     IF l = t THEN after ELSE [m \in Measure |-> @[m] + Change(t, after, m).change[l]]]

\* The other team approves: the change is judged afresh on what is there now.
ApproveAmendment(t) ==
  LET p == proposal[t]
      touched == {l \in TransferId : \E m \in Measure :
                    l \in UNION {{q[i] : i \in 2 .. Len(q)} : q \in ToSet(Branches(t))}
                      /\ Change(t, p.after, m).change[l] # 0}
  IN /\ p # NoProposal
     /\ transfer[t].version = p.base /\ transfer[t].amount = p.before
     /\ transfer[t].version < MaxVersion
     /\ CanChange(t, p.after)
     /\ Flush(Put(transfer, [l \in touched \cup {t} |-> Corrected(t, l, p.after)]),
              loss, adjustment)
     /\ proposal' = [proposal EXCEPT ![t] = NoProposal]
     /\ corrected' = [corrected EXCEPT ![t] =
          [m \in Measure |-> @[m] + p.after[m] - p.before[m]]]
     /\ UNCHANGED <<qualityVars, told>>

\* The other team refuses it, or the team that requested it takes it back.
CloseAmendment(t) ==
  /\ proposal[t] # NoProposal
  /\ proposal' = [proposal EXCEPT ![t] = NoProposal]
  /\ UNCHANGED <<vars, qualityVars, trailVars>>

Amend == \E t \in TransferId :
           RequestAmendment(t) \/ ApproveAmendment(t) \/ CloseAmendment(t)
=============================================================================
