-------------------------- MODULE DeliveryProgress --------------------------
(***************************************************************************)
(* What the delivery schedules say of one serial: the orders (tasks), their *)
(* nodes (one team's commitment each), the dated batches of a node, the     *)
(* documents that carry material and the commitment each was booked on.     *)
(* The same questions - has this document delivered, is this node complete, *)
(* is it late - are answered twice in the program, by SQL for the lists and *)
(* in Python for the forms; both answers are here.                          *)
(***************************************************************************)
EXTENDS Integers, Sequences, FiniteSetsExt

CONSTANTS Route,        \* the teams of the published route's steps, in order
          Warehouse,    \* never assessed for its deadlines
          Outside,      \* the destination of a shipment
          DayLength     \* hours, counted in ticks of the clock

None == 0               \* a null key, step or time; the clock starts at 1

VARIABLES now,          \* the clock
          task,         \* the orders
          plan,         \* the nodes of all orders
          batch,        \* the batches of all nodes, deleted ones included
          lot,          \* transfers, shipments, outputs: the lots and documents
          delivery      \* document -> the node and batch it was booked on

Tasks == DOMAIN task
Plans == DOMAIN plan
Lots == DOMAIN lot

Assessed(p) == plan[p].team # Warehouse
Batches(p) == {b \in DOMAIN batch : batch[b].plan = p /\ ~batch[b].deleted}
Nodes(t) == {p \in Plans : plan[p].task = t}
Deliveries(p) == {d \in DOMAIN delivery : delivery[d].plan = p}

\* Mutated: the list counts what was sent before it was worked on.
CountsUnprocessed(p, d) ==
    LET m == lot[d] IN
    /\ m.from = plan[p].team
    /\ m.team = plan[p].next
    /\ \/ m.kind = "transfer" /\ m.status \in {"pending", "received"}
       \/ m.kind = "shipment" /\ m.status = "dispatched"

\* SQL: the documents that fulfil a node.
Counts(p, d) ==
    LET m == lot[d] IN
    /\ m.from = plan[p].team
    /\ m.team = plan[p].next
    /\ ~Assessed(p) \/ m.sent = "complete"
    /\ plan[p].step = None \/ (m.routed /\ m.sentStep = plan[p].step)
    /\ \/ m.kind = "transfer" /\ m.status \in {"pending", "received"}
       \/ m.kind = "shipment" /\ m.status = "dispatched"

\* Python: the same question, asked of one document.
ValidDelivery(p, d) ==
    LET m == lot[d]
        live == {<<"transfer", "pending">>, <<"transfer", "received">>,
                 <<"shipment", "dispatched">>}
    IN /\ plan[p].step # None => (m.routed /\ plan[p].step = m.sentStep)
       /\ <<plan[p].team, plan[p].next>> = <<m.from, m.team>>
       /\ Assessed(p) => m.sent = "complete"
       /\ <<m.kind, m.status>> \in live

Sum(D) == MapThenSumSet(LAMBDA d : lot[d].q, D)

\* The time the running total of the documents D first reached the target.
Reached(D, target) ==
    LET upTo(d) == {e \in D : lot[e].at <= lot[d].at}
        times == {lot[d].at : d \in {e \in D : Sum(upTo(e)) >= target}}
    IN IF times = {} THEN None ELSE Min(times)

Counted(p) == {d \in Deliveries(p) : Counts(p, d)}

BatchDone(b) ==
    LET p == batch[b].plan
        own == {d \in Counted(p) : delivery[d].batch = b}
    IN IF Assessed(p) THEN Reached(own, batch[b].q) ELSE None

\* SQL: a node is complete when all of its batches are; an over-delivered batch
\* settles no other. Without batches the total of the node decides.
PlanDone(p) ==
    LET ends == {BatchDone(b) : b \in Batches(p)}
    IN IF Counted(p) = {} \/ ~Assessed(p) THEN None
         ELSE IF Batches(p) = {} THEN Reached(Counted(p), plan[p].q)
         ELSE IF None \in ends THEN None ELSE Max(ends)

\* Python, while a document is being booked: is the node complete already?
SettledAtDispatch(p) ==
    LET valid == {d \in Deliveries(p) : ValidDelivery(p, d)}
        total(b) == Sum({d \in valid : delivery[d].batch = b})
    IN /\ Assessed(p)
       /\ IF Batches(p) # {} THEN \A b \in Batches(p) : total(b) >= batch[b].q
                             ELSE Sum(valid) >= plan[p].q

-----------------------------------------------------------------------------
(* States shown for a batch, a node and an order. *)

EndOfToday == (now \div DayLength + 1) * DayLength
Late(done, due) == done # None /\ done > due
FinalPassed(t, time) == task[t].final # None /\ time > task[t].final

\* SQL: the state of a node, in the lists and in the notices' scope.
Status(p) ==
    LET done == PlanDone(p)
        open(limit) == \E b \in Batches(p) : BatchDone(b) = None /\ batch[b].due < limit
    IN IF plan[p].cancelled THEN "cancelled"
         ELSE IF ~Assessed(p) THEN "not_assessed"
         ELSE IF done # None THEN
              IF Late(done, plan[p].due) \/ \E b \in Batches(p) : Late(BatchDone(b), batch[b].due)
              THEN "completed_late" ELSE "completed"
         ELSE IF plan[p].state \in {"pending", "submitted"} /\ Batches(p) = {} THEN "pending"
         ELSE IF plan[p].due < now \/ open(now) THEN "overdue"
         ELSE IF plan[p].due < EndOfToday \/ open(EndOfToday) THEN "today"
         ELSE "pending"

\* Python: the state of one batch in a node's detail.
BatchStatus(b) ==
    LET p == batch[b].plan
        end == BatchDone(b)
    IN IF plan[p].cancelled THEN "cancelled"
         ELSE IF ~Assessed(p) THEN "not_assessed"
         ELSE IF end # None THEN IF end > batch[b].due THEN "completed_late" ELSE "completed"
         ELSE IF batch[b].due < now THEN "overdue"
         ELSE IF batch[b].due \div DayLength = now \div DayLength THEN "today"
         ELSE "pending"

\* Python: the state of an order in its detail.
TaskState(t) ==
    LET active == {p \in Nodes(t) : Status(p) # "cancelled"}
        assessed == {p \in active : Assessed(p)}
        unfinished == {p \in assessed : Status(p) \notin {"completed", "completed_late"}}
        some(S, s) == \E p \in S : Status(p) = s
    IN IF active = {} THEN "cancelled"
         ELSE IF assessed = {} THEN "not_assessed"
         ELSE IF unfinished = {} THEN
              IF \/ some(active, "completed_late")
                 \/ \E p \in assessed : FinalPassed(t, PlanDone(p))
              THEN "completed_late" ELSE "completed"
         ELSE IF some(unfinished, "overdue") \/ FinalPassed(t, now) THEN "overdue"
         ELSE IF some(unfinished, "today") THEN "today"
         ELSE "pending"

\* SQL: the state by which the list of orders is filtered.
TaskFilter(t) ==
    LET counted == {p \in Nodes(t) : ~plan[p].cancelled /\ Status(p) # "not_assessed"}
        unfinished == {p \in counted : PlanDone(p) = None}
        last == Max({PlanDone(p) : p \in counted} \union {None})
        any(s) == \E p \in Nodes(t) : Status(p) = s
    IN IF \A p \in Nodes(t) : plan[p].cancelled THEN "cancelled"
         ELSE IF counted = {} THEN "not_assessed"
         ELSE IF unfinished = {} /\ (any("completed_late") \/ FinalPassed(t, last)) THEN "completed_late"
         ELSE IF unfinished = {} THEN "completed"
         ELSE IF any("overdue") \/ FinalPassed(t, now) THEN "overdue"
         ELSE IF any("today") THEN "today"
         ELSE "pending"

-----------------------------------------------------------------------------
(* Which node a lot belongs to. *)

NextStep(s) == IF s < Len(Route) THEN s + 1 ELSE None

\* A lot and the lots it was cut from in the same team.
Ancestry ==
    LET anc[l \in Lots] == {l} \union (IF lot[l].kind = "output" THEN anc[lot[l].src] ELSE {})
    IN anc

\* What ties a lot to a node: an assigned source, or a delivery of the node before.
Roots(p) ==
    plan[p].sources \union
        {d \in DOMAIN delivery : plan[p].pred # None /\ delivery[d].plan = plan[p].pred}

Matched(l) ==
    {p \in Plans : /\ plan[p].team = lot[l].team
                   /\ ~plan[p].cancelled
                   /\ PlanDone(p) = None
                   /\ Roots(p) \intersect Ancestry[l] # {}}

\* The step the next work on the lot is, and the team's steps that follow it.
WorkStep(l) ==
    LET s == lot[l].step IN
    IF ~lot[l].done THEN s
      ELSE IF NextStep(s) # None THEN IF Route[NextStep(s)] = lot[l].team THEN NextStep(s) ELSE None
      ELSE None

StepsFrom(s, team) ==
    {k \in s..Len(Route) : \A j \in s..k : Route[j] = team}

\* Python: the nodes the work on a lot may be booked on.
PlanChoices(l) ==
    LET open == {p \in Plans : /\ plan[p].team = lot[l].team
                               /\ ~plan[p].cancelled
                               /\ PlanDone(p) = None \/ p = lot[l].bound}
        due(p) == plan[p].step \in StepsFrom(WorkStep(l), lot[l].team)
    IN IF lot[l].routed
       THEN IF WorkStep(l) = None THEN {}
            ELSE {p \in open : due(p) /\ (plan[p].sources = {} \/ p \in Matched(l))}
       ELSE {p \in open : plan[p].step = None /\ p \in Matched(l)}

\* Python: the node bound to the lot by its processing, while it still applies.
Inherited(l) ==
    LET p == lot[l].bound IN
    IF /\ p # None
       /\ plan[p].team = lot[l].team
       /\ (plan[p].step # None) = lot[l].routed
       /\ plan[p].step = None \/ plan[p].step = lot[l].step
    THEN p ELSE None

\* Python: the nodes a document from the lot to a destination may be booked on.
DispatchChoices(l, to) ==
    {p \in Plans : /\ plan[p].team = lot[l].team
                   /\ ~plan[p].cancelled
                   /\ plan[p].step = None \/ (lot[l].routed /\ plan[p].step = lot[l].step)
                   /\ ~SettledAtDispatch(p) \/ p = Inherited(l)
                   /\ plan[p].next = to
                   /\ plan[p].step # None \/ Roots(p) \intersect Ancestry[l] # {}}

\* One answer among several must be named; none may be named outside of them.
Choose(choices, named) ==
    IF named # None THEN IF named \in choices THEN {named} ELSE {}
      ELSE IF Cardinality(choices) > 1 THEN {}
      ELSE IF choices = {} THEN {None}
      ELSE choices

=============================================================================
