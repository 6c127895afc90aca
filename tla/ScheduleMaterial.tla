--------------------------- MODULE ScheduleMaterial ---------------------------
(***************************************************************************)
(* Where the material of a node and of an order is: the stock the details   *)
(* of a node add up, the places of an order, the nodes offered to a form    *)
(* that sends a lot, the lots offered to a node, and what is still to be    *)
(* sent.  Queries only; the forms they feed are the actions of Schedules.   *)
(***************************************************************************)
EXTENDS DeliveryProgress

Stocked(l) == lot[l].status = "received" /\ lot[l].hand > 0
Arriving(l) == lot[l].status = "pending" /\ lot[l].kind = "transfer"
Hand(S) == MapThenSumSet(LAMBDA l : lot[l].hand, S)

\* A node's own sources, what the node before booked, what stands at its step.
LinkedLots(p) ==
    Roots(p) \union {l \in Lots : /\ plan[p].step # None
                                  /\ lot[l].routed /\ lot[l].step = plan[p].step
                                  /\ lot[l].team = plan[p].team}

\* ... and all that was made of it in the team.
ExecutionLots(p) ==
    {l \in Lots : \E root \in LinkedLots(p) :
                     root \in Ancestry[l] /\ lot[root].team = plan[p].team}

ExecutionState(p) ==
    LET stock == ExecutionLots(p)
        sent == Counted(p) # {}
    IN IF plan[p].cancelled THEN "cancelled"
         ELSE IF PlanDone(p) # None THEN "completed"
         ELSE IF ~Assessed(p) /\ sent THEN "stock_dispatched"
         ELSE IF sent THEN "partial"
         ELSE IF \E l \in stock : Stocked(l) THEN "ready"
         ELSE IF \E l \in stock : Arriving(l) THEN "pending_receipt"
         ELSE "waiting_material"

\* What a node's page shows as still to be sent: batch by batch where there are some.
Remaining(p) ==
    LET short(target, D) == Max({target - Sum(D), 0})
        of(b) == {d \in Counted(p) : delivery[d].batch = b}
    IN IF Batches(p) = {} THEN short(plan[p].q, Counted(p))
       ELSE MapThenSumSet(LAMBDA b : short(batch[b].q, of(b)), Batches(p))

\* The nodes listed between two dates.
DueWithin(from, to) ==
    LET in(due) == from <= due /\ due <= to IN
    {p \in Plans : IF Batches(p) = {} THEN in(plan[p].due) ELSE \E b \in Batches(p) : in(batch[b].due)}

\* The lots of an order, each once however many of its nodes it belongs to.
Physical(t) == UNION {ExecutionLots(p) : p \in {q \in Nodes(t) : ~plan[q].cancelled}}
TaskLocations(t) ==
    LET there(team) == {l \in Physical(t) : lot[l].team = team}
    IN [team \in {plan[p].team : p \in Nodes(t)} |->
          [quantity |-> Hand({l \in there(team) : Stocked(l)}),
           pending |-> Sum({l \in there(team) : Arriving(l)}),
           count |-> Cardinality({l \in there(team) : Stocked(l) \/ Arriving(l)})]]

\* The lots a node's page offers, and the nodes offered for a lot and a destination.
SourceOptions(p) ==
    {l \in Lots : lot[l].team = plan[p].team /\ Stocked(l) /\ p \in Matched(l)}
BoundHere(l) ==
    LET p == lot[l].bound
    IN p # None /\ (plan[p].step # None) = lot[l].routed /\ plan[p].team = lot[l].team
Candidates(l, to) ==
    {p \in IF BoundHere(l) THEN {lot[l].bound} ELSE Matched(l) :
       /\ ~plan[p].cancelled /\ plan[p].next = to
       /\ BoundHere(l) => plan[p].step \in {None, lot[l].step}}

-----------------------------------------------------------------------------
(* The parts of AnswersAgree that are about the material.                   *)

\* A lot a form may book on a node is in the stock that node shows, as are the lots
\* it offers; a node offered for a lot is accepted for it.  (A lot at an earlier one
\* of a team's consecutive steps is not shown under their node; a lot bound by its
\* processing to a node without a route is offered that node whatever its sources
\* have become.)
OffersAreKept ==
    \A p \in Plans :
      /\ SourceOptions(p) \subseteq ExecutionLots(p)
      /\ \A l \in Lots : Stocked(l) =>
           /\ \/ p \in PlanChoices(l) /\ plan[p].step \in {None, lot[l].step}
              \/ p \in DispatchChoices(l, plan[p].next)
              => l \in ExecutionLots(p)
           /\ ~BoundHere(l) => Candidates(l, plan[p].next) \subseteq DispatchChoices(l, plan[p].next)

\* What reached a node is in the stock it shows or was sent on from there.
StockIsWhatArrived ==
    \A p \in Plans :
      LET stock == ExecutionLots(p)
          made == {l \in stock : lot[l].kind = "output" /\ lot[l].src \in stock}
          arrived == {l \in stock \ made : lot[l].status = "received"}
          sentOn == {d \in Lots : /\ lot[d].src \in stock
                                  /\ lot[d].kind # "output" /\ lot[d].status # "voided"}
      IN Sum(arrived) = Hand(stock) + Sum(sentOn)

\* An order whose nodes cover its route shows all routed material in its place.
OrderIsLocated ==
    \A t \in Tasks :
      {plan[p].step : p \in {q \in Nodes(t) : ~plan[q].cancelled}} = 1..Len(Route) =>
        \A team \in {Route[s] : s \in 1..Len(Route)} :
          LET there == {l \in Lots : lot[l].routed /\ lot[l].team = team}
          IN TaskLocations(t)[team] =
               [quantity |-> Hand(there), pending |-> Sum({l \in there : Arriving(l)}),
                count |-> Cardinality({l \in there : Stocked(l) \/ Arriving(l)})]

\* Nothing remains of a node exactly when it is complete; one that is late or due
\* today is found by its dates.
RemainderMatches ==
    \A p \in Plans :
      /\ Assessed(p) => (Remaining(p) = 0) = (PlanDone(p) # None)
      /\ Status(p) = "overdue" => p \in DueWithin(None, now - 1)
      /\ Status(p) = "today" => p \in DueWithin(now, EndOfToday - 1)
      /\ ExecutionState(p) = "waiting_material" => SourceOptions(p) = {}

=============================================================================
