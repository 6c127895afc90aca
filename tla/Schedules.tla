------------------------------ MODULE Schedules ------------------------------
(***************************************************************************)
(* The orders of one serial and the commitments of its teams. Dispatch      *)
(* opens an order from the published route, the teams propose dated batches *)
(* and dispatch approves them; orders are locked, revised and deleted; the  *)
(* material moves meanwhile and every document is booked on one commitment. *)
(* Every write of a schedule first locks the same row (the first team), so  *)
(* the handlers are atomic, except the approval, which is two transactions. *)
(***************************************************************************)
EXTENDS ScheduleMaterial, LedgerTotals

CONSTANTS Dues,         \* the deadlines a form may choose
          Amounts,      \* the amounts it may choose
          Forms,        \* the dates and amounts a request for batches may list
          MaxNow,       \* bound of the clock
          Cases         \* the starting points: what is there and what may happen

VARIABLES notices,      \* keys of the notices; a key is inserted once
          review,       \* the approval between its two transactions
          left          \* how much of each kind may still happen (a bound)

vars == <<now, task, plan, batch, lot, delivery, notices, review, left>>
material == <<lot, delivery>>
books == <<task, plan, batch>>

Teams == {Route[s] : s \in 1..Len(Route)}
NoReview == [plan |-> None, version |-> None, entries |-> <<>>]

Spend(kind) == left[kind] > 0 /\ left' = [left EXCEPT ![kind] = @ - 1]

Unlocked(t) == ~task[t].deleted /\ ~task[t].locked
Successors(p) == {s \in Plans : plan[s].pred = p}
Active(S) == {p \in S : ~plan[p].cancelled}

-----------------------------------------------------------------------------
(* Notices. *)

\* Mutated: the key leaves the revision out.
ToldOnce(p, version, action) == {<<"plan", p, 0, action, p>>}

\* The node's own team, and the teams of the nodes after it when they are
\* concerned. A key that is there already is not inserted again.
Told(p, version, action) == {<<"plan", p, version, action, p>>}
ToldOnward(p, version, action) ==
    {<<"plan", p, version, action, s>> : s \in Active(Successors(p))}

DueKey(kind, item, due) == <<kind, item, due, IF due < now THEN "overdue" ELSE "due_soon">>

\* What a poll finds for the given teams: nodes without batches, and batches.
Deadlines(teams) ==
    LET mine == {p \in Active(Plans) : plan[p].team \in teams /\ Assessed(p)}
        near(due) == due <= now + DayLength
        alone == {p \in mine : /\ plan[p].state \in {"confirmed", "revision_pending"}
                               /\ Batches(p) = {}
                               /\ near(plan[p].due)
                               /\ PlanDone(p) = None}
        dated == {b \in UNION {Batches(p) : p \in mine} :
                     near(batch[b].due) /\ BatchDone(b) = None}
    IN {DueKey("node", p, plan[p].due) : p \in alone}
         \union {DueKey("batch", b, batch[b].due) : b \in dated}

Refresh(teams) ==
    /\ Spend("poll")
    /\ notices' = notices \union Deadlines(teams)
    /\ UNCHANGED <<now, books, material, review>>

-----------------------------------------------------------------------------
(* Orders. *)

\* The last of a team's consecutive steps hands over.
HandoverSteps == {s \in 1..Len(Route) : s = Len(Route) \/ Route[s + 1] # Route[s]}

\* The nodes of a new order, when there are n nodes already.
NewNodes(n, t, due, q) ==
    LET steps == Ranked(HandoverSteps)
        id(i) == n + i
    IN [i \in 1..Len(steps) |->
          [task |-> t, step |-> steps[i], team |-> Route[steps[i]],
           next |-> IF i < Len(steps) THEN Route[steps[i + 1]] ELSE Outside,
           pred |-> IF i > 1 THEN id(i - 1) ELSE None,
           due |-> due, initial |-> due, q |-> q,
           state |-> "pending", pending |-> <<>>,
           version |-> 1, cancelled |-> FALSE, sources |-> {}]]

CustomerDatesFit(dates, final) ==
    /\ \A i \in DOMAIN dates : dates[i] <= final
    /\ \A i \in 2..Len(dates) : dates[i - 1] <= dates[i]

\* A request that is repeated finds its order and changes nothing.
CreateTask(dates, final, q) ==
    /\ Spend("create")
    /\ CustomerDatesFit(dates, final)
    /\ LET t == Len(task) + 1
           nodes == NewNodes(Len(plan), t, final, q)
       IN /\ task' = Append(task, [version |-> 1, final |-> final, customer |-> dates,
                                   locked |-> FALSE, deleted |-> FALSE])
          /\ plan' = plan \o nodes
          /\ notices' = notices \union
               UNION {Told(Len(plan) + i, 1, "created") : i \in DOMAIN nodes}
    /\ UNCHANGED <<now, batch, material, review>>

\* New dates are checked against the new deadline; kept dates are, when it moves.
UpdateTask(t, final, dates) ==
    /\ Spend("order")
    /\ Unlocked(t)
    /\ dates # task[t].customer \/ final # task[t].final => CustomerDatesFit(dates, final)
    /\ task' = [task EXCEPT ![t].final = final, ![t].customer = dates,
                            ![t].version = @ + 1]
    /\ notices' = notices \union
         IF <<final, dates>> = <<task[t].final, task[t].customer>> THEN {}
         ELSE {<<"task", t, task[t].version + 1, plan[p].team>> : p \in Active(Nodes(t))}
    /\ UNCHANGED <<now, plan, batch, material, review>>

Revised(S) == [p \in Plans |-> IF p \in S THEN [plan[p] EXCEPT !.version = @ + 1] ELSE plan[p]]

LockTask(t, locked) ==
    /\ Spend("order")
    /\ ~task[t].deleted /\ task[t].locked # locked
    /\ LET open == Active(Nodes(t)) IN
       /\ task' = [task EXCEPT ![t].locked = locked, ![t].version = @ + 1]
       /\ plan' = Revised(open)
       /\ notices' = notices \union
            UNION {Told(p, plan[p].version + 1, IF locked THEN "locked" ELSE "unlocked") : p \in open}
    /\ UNCHANGED <<now, batch, material, review>>

DeleteTask(t) ==
    /\ Spend("order")
    /\ Unlocked(t)
    /\ LET open == Active(Nodes(t)) IN
       /\ task' = [task EXCEPT ![t].deleted = TRUE, ![t].version = @ + 1]
       /\ plan' = [p \in Plans |->
                     IF p \in open
                     THEN [plan[p] EXCEPT !.cancelled = TRUE, !.pending = <<>>, !.version = @ + 1]
                     ELSE plan[p]]
       /\ notices' = notices \union
            UNION {Told(p, plan[p].version + 1, "cancelled")
                     \union ToldOnward(p, plan[p].version + 1, "cancelled") : p \in open}
    /\ UNCHANGED <<now, batch, material, review>>

-----------------------------------------------------------------------------
(* Nodes. *)

Bumped(t) == [task EXCEPT ![t].version = @ + 1]

\* Dispatch edits a node: the dates and amounts of a node with batches are
\* those of its batches; the sources are lots the team has received.
UpdatePlan(p, due, q, sources) ==
    /\ Spend("node")
    /\ ~plan[p].cancelled /\ Unlocked(plan[p].task)
    /\ Batches(p) # {} => <<due, q>> = <<plan[p].due, plan[p].q>>
    /\ Cardinality(sources) <= q
    /\ \A l \in sources : /\ lot[l].team = plan[p].team /\ lot[l].status = "received"
                          /\ plan[p].step # None => lot[l].routed
    /\ plan' = [plan EXCEPT ![p].due = due, ![p].q = q, ![p].sources = sources,
                            ![p].version = @ + 1]
    /\ task' = Bumped(plan[p].task)
    /\ LET v == plan[p].version + 1
           moved == <<due, q>> # <<plan[p].due, plan[p].q>>
       IN notices' = notices
            \union (IF moved \/ sources # plan[p].sources THEN Told(p, v, "updated") ELSE {})
            \union (IF moved THEN ToldOnward(p, v, "updated") ELSE {})
    /\ UNCHANGED <<now, batch, material, review>>

CancelPlan(p) ==
    /\ Spend("node")
    /\ ~plan[p].cancelled /\ Unlocked(plan[p].task)
    /\ plan' = [plan EXCEPT ![p].cancelled = TRUE, ![p].version = @ + 1]
    /\ task' = Bumped(plan[p].task)
    /\ notices' = notices \union Told(p, plan[p].version + 1, "cancelled")
                          \union ToldOnward(p, plan[p].version + 1, "cancelled")
    /\ UNCHANGED <<now, batch, material, review>>

\* Nodes that have seen work or deliveries keep the route they had.
LinkRoute(t, steps) ==
    /\ Spend("order")
    /\ Unlocked(t)
    /\ \A p \in DOMAIN steps :
         /\ p \in Nodes(t) /\ ~plan[p].cancelled
         /\ plan[p].step # steps[p] =>
              /\ Deliveries(p) = {} /\ \A l \in Lots : lot[l].bound # p
              /\ Route[steps[p]] = plan[p].team
              /\ steps[p] < Len(Route) => plan[p].next = Route[steps[p] + 1]
              /\ steps[p] = Len(Route) => plan[p].next = Outside
              /\ \A l \in plan[p].sources : lot[l].routed
    /\ LET linked == [p \in Plans |-> IF p \in DOMAIN steps THEN steps[p] ELSE plan[p].step]
           moved == {p \in DOMAIN steps : steps[p] # plan[p].step}
       IN /\ \A p, q \in Active(Nodes(t)) :
               p < q /\ None \notin {linked[p], linked[q]} => linked[p] < linked[q]
          /\ plan' = [p \in Plans |-> [Revised(moved)[p] EXCEPT !.step = linked[p]]]
    /\ task' = Bumped(t)
    /\ UNCHANGED <<now, batch, material, notices, review>>

-----------------------------------------------------------------------------
(* Batches: a request is a sequence of entries, one per batch number. *)

Entry(id, due, q, up) == [id |-> id, due |-> due, q |-> q, up |-> up]
Pieces(entries) == Total([i \in DOMAIN entries |-> entries[i].q], Len(entries))
NamedOnce(entries) ==
    \A i, j \in DOMAIN entries : i # j => entries[i].id = None \/ entries[i].id # entries[j].id
Kept(entries) == {entries[i].id : i \in DOMAIN entries} \ {None}

\* Mutated: the supplies named in an entry are not looked up again.
BatchesFitUnchecked(p, entries) ==
    LET removed == Batches(p) \ Kept(entries)
        below == UNION {Batches(s) : s \in Successors(p)}
    IN /\ NamedOnce(entries)
       /\ ~plan[p].cancelled /\ Unlocked(plan[p].task)
       /\ Kept(entries) \subseteq Batches(p)
       /\ \A d \in DOMAIN delivery : delivery[d].batch \notin removed
       /\ \A b \in below : batch[b].up \intersect removed = {}
       /\ Cardinality(plan[p].sources) <= Pieces(entries)

BatchesFit(p, entries) ==
    LET removed == Batches(p) \ Kept(entries)
        below == UNION {Batches(s) : s \in Successors(p)}
    IN /\ NamedOnce(entries)
       /\ ~plan[p].cancelled /\ Unlocked(plan[p].task)
       /\ Kept(entries) \subseteq Batches(p)
       /\ \A i \in DOMAIN entries :
            entries[i].up \subseteq (IF plan[p].pred = None THEN {} ELSE Batches(plan[p].pred))
       /\ \A d \in DOMAIN delivery : delivery[d].batch \notin removed
       /\ \A b \in below : batch[b].up \intersect removed = {}
       /\ Cardinality(plan[p].sources) <= Pieces(entries)

\* A team's request waits for dispatch; the plan in force is left as it is.
Propose(p, entries) ==
    /\ Spend("batch")
    /\ BatchesFit(p, entries)
    /\ plan' = [plan EXCEPT ![p].pending = entries, ![p].version = @ + 1,
                            ![p].state = IF @ \in {"confirmed", "revision_pending"}
                                         THEN "revision_pending" ELSE "submitted"]
    /\ task' = Bumped(plan[p].task)
    /\ notices' = notices \union {<<"plan", p, plan[p].version + 1, "submitted", None>>}
    /\ UNCHANGED <<now, batch, material, review>>

Written(p, entries) ==
    LET new == Ranked({i \in DOMAIN entries : entries[i].id = None})
        row(i) == [plan |-> p, due |-> entries[i].due, q |-> entries[i].q,
                   up |-> entries[i].up, deleted |-> FALSE]
        entry(b) == CHOOSE i \in DOMAIN entries : entries[i].id = b
    IN [b \in 1..(Len(batch) + Len(new)) |->
          IF b > Len(batch) THEN row(new[b - Len(batch)])
          ELSE IF b \in Kept(entries) THEN row(entry(b))
          ELSE IF b \in Batches(p) THEN [batch[b] EXCEPT !.deleted = TRUE]
          ELSE batch[b]]

SaveBatches(p, entries) ==
    LET due == Max({entries[i].due : i \in DOMAIN entries})
        first == Batches(p) = {} /\ plan[p].state \in {"pending", "submitted"}
        v == plan[p].version + 1
    IN /\ BatchesFit(p, entries)
       /\ batch' = Written(p, entries)
       /\ plan' = [plan EXCEPT ![p] = [@ EXCEPT !.q = Pieces(entries), !.due = due,
                                                !.initial = IF first THEN due ELSE plan[p].initial,
                                                !.state = "confirmed", !.pending = <<>>,
                                                !.version = v]]
       /\ task' = Bumped(plan[p].task)
       \* Nothing is sent when the request repeats what is there.
       /\ notices' =
            IF <<batch', [plan'[p] EXCEPT !.version = @ - 1]>> = <<batch, plan[p]>> THEN notices
            ELSE notices \union Told(p, v, "batches")
                   \union (IF <<batch', plan'[p].due, plan'[p].q>> = <<batch, plan[p].due, plan[p].q>>
                           THEN {} ELSE ToldOnward(p, v, "batches"))

DispatchBatches(p, entries) ==
    /\ Spend("batch")
    /\ SaveBatches(p, entries)
    /\ UNCHANGED <<now, material, review>>

Reviewable(p) == plan[p].state \in {"submitted", "revision_pending"} /\ plan[p].pending # <<>>

\* First transaction of an approval: the request is checked and read, nothing is written.
ReviewPlan(p) ==
    /\ Spend("batch")
    /\ review = NoReview
    /\ Unlocked(plan[p].task) /\ Reviewable(p)
    /\ review' = [plan |-> p, version |-> plan[p].version, entries |-> plan[p].pending]
    /\ UNCHANGED <<now, books, material, notices>>

\* Mutated: the second transaction does not compare the revision again.
ReviewStandsAnyway == plan[review.plan].version >= review.version

ReviewStands == plan[review.plan].version = review.version

\* Second transaction: saved as dispatch's own request, or refused.
ApplyReview ==
    /\ review # NoReview
    /\ review' = NoReview
    /\ IF ReviewStands /\ BatchesFit(review.plan, review.entries)
       THEN SaveBatches(review.plan, review.entries)
       ELSE UNCHANGED <<books, notices>>
    /\ UNCHANGED <<now, material, left>>

ReturnPlan(p) ==
    /\ Spend("batch")
    /\ Unlocked(plan[p].task) /\ Reviewable(p)
    /\ plan' = [plan EXCEPT ![p].pending = <<>>, ![p].version = @ + 1,
                            ![p].state = IF @ = "revision_pending" \/ Batches(p) # {}
                                         THEN "confirmed" ELSE "pending"]
    /\ task' = Bumped(plan[p].task)
    /\ notices' = notices \union Told(p, plan[p].version + 1, "returned")
    /\ UNCHANGED <<now, batch, material, review>>

-----------------------------------------------------------------------------
(* The material. *)

Document(l) ==
    [src |-> l, from |-> lot[l].team, team |-> lot[l].team, kind |-> "output",
     q |-> 0, hand |-> 0, status |-> "received", routed |-> lot[l].routed,
     step |-> lot[l].step, done |-> FALSE, sent |-> "none", sentStep |-> None,
     bound |-> None, at |-> now]

\* n pieces are finished; what is left becomes a lot of its own.
Process(l, n, named) ==
    /\ Spend("move")
    /\ lot[l].status = "received" /\ n \in 1..lot[l].hand /\ lot[l].team # Warehouse
    /\ IF lot[l].routed THEN WorkStep(l) # None /\ Route[WorkStep(l)] = lot[l].team
                        ELSE ~lot[l].done
    /\ LET choices == PlanChoices(l)
           bound == IF lot[l].bound \in choices THEN lot[l].bound ELSE None
           step == IF lot[l].routed THEN WorkStep(l) ELSE lot[l].step
       IN /\ bound = None \/ named \in {None, bound}
          /\ \E p \in Choose(choices, IF named = None THEN bound ELSE named) :
               lot' = IF n = lot[l].hand
                      THEN [lot EXCEPT ![l] = [@ EXCEPT !.step = step, !.done = TRUE,
                                                        !.bound = IF p = None THEN lot[l].bound ELSE p]]
                      ELSE [lot EXCEPT ![l].hand = 0]
                             \o << [Document(l) EXCEPT !.q = n, !.hand = n, !.step = step,
                                                       !.done = TRUE, !.bound = p],
                                   [Document(l) EXCEPT !.q = lot[l].hand - n, !.hand = lot[l].hand - n,
                                                       !.done = lot[l].done, !.bound = lot[l].bound] >>
    /\ UNCHANGED <<now, books, delivery, notices, review>>

\* Where a lot may go: its route's next step; without a route, any other team.
Destinations(l) ==
    IF lot[l].routed
    THEN IF ~lot[l].done THEN {}
         ELSE IF NextStep(lot[l].step) = None THEN {Outside}
         ELSE {Route[NextStep(lot[l].step)]} \ {lot[l].team}
    ELSE IF lot[l].team = Warehouse THEN {} ELSE Teams \ {lot[l].team}

\* Mutated: a batch that is named is taken without a look at its node.
BatchAsNamed(p, named) ==
    IF p = None THEN {None} \intersect {named}
    ELSE IF named # None THEN {named} ELSE Choose(Batches(p), named)

\* The batch of the node a document is booked on.
ChosenBatch(p, named) ==
    IF p = None THEN {None} \intersect {named}
    ELSE Choose(Batches(p), named)

Booked(d, p, b) ==
    [e \in DOMAIN delivery \union {d} |-> IF e = d THEN [plan |-> p, batch |-> b] ELSE delivery[e]]

Send(l, n, to, named, namedBatch) ==
    /\ Spend("move")
    /\ lot[l].status = "received" /\ n \in 1..lot[l].hand
    /\ to \in Destinations(l)
    /\ Inherited(l) = None \/ named \in {None, Inherited(l)}
    /\ LET d == Len(lot) + 1
           next == NextStep(lot[l].step)
           choices == DispatchChoices(l, to)
       IN \E p \in Choose(choices, IF named = None THEN Inherited(l) ELSE named) :
          \E b \in ChosenBatch(p, namedBatch) :
            /\ lot' = Append([lot EXCEPT ![l].hand = @ - n],
                 [Document(l) EXCEPT
                    !.team = to, !.q = n, !.status = "pending",
                    !.kind = IF to = Outside THEN "shipment" ELSE "transfer",
                    !.step = IF next = None \/ ~lot[l].routed THEN lot[l].step ELSE next,
                    !.done = to = Warehouse \/ (lot[l].routed /\ next = None),
                    !.sent = IF lot[l].team = Warehouse THEN "none"
                             ELSE IF lot[l].done THEN "complete" ELSE "unregistered",
                    !.sentStep = IF lot[l].routed THEN lot[l].step ELSE None])
            /\ delivery' = IF p = None THEN delivery ELSE Booked(d, p, b)
    /\ UNCHANGED <<now, books, notices, review>>

Receive(d) ==
    /\ Spend("move")
    /\ lot[d].status = "pending"
    /\ lot' = [lot EXCEPT ![d] =
                 IF @.kind = "shipment" THEN [@ EXCEPT !.status = "dispatched", !.at = now]
                                        ELSE [@ EXCEPT !.status = "received", !.hand = lot[d].q]]
    /\ UNCHANGED <<now, books, delivery, notices, review>>

Void(d) ==
    /\ Spend("move")
    /\ lot[d].status = "pending"
    /\ lot' = [lot EXCEPT ![d].status = "voided", ![lot[d].src].hand = @ + lot[d].q]
    /\ UNCHANGED <<now, books, delivery, notices, review>>

Tick ==
    /\ Spend("tick")
    /\ now < MaxNow
    /\ now' = now + 1
    /\ UNCHANGED <<books, material, notices, review>>

-----------------------------------------------------------------------------
(* The requests a form can make, and the whole. *)

Supplies(p) == IF plan[p].pred = None THEN {} ELSE Batches(plan[p].pred)

\* A form, filled in: every line is a batch there is or a new one.
Requests(p) ==
    UNION {{[i \in DOMAIN form |-> Entry(ids[i], form[i].due, form[i].q, ups[i])] :
              ids \in [DOMAIN form -> {None} \union Batches(p)],
              ups \in [DOMAIN form -> SUBSET Supplies(p)]} : form \in Forms}

Orders ==
    \/ \E final \in Dues, early \in Dues, q \in Amounts :
         CreateTask(IF early < final THEN <<early, final>> ELSE <<final>>, final, q)
    \/ \E t \in Tasks :
         \/ \E final \in Dues : UpdateTask(t, final, task[t].customer) \/ UpdateTask(t, final, <<final>>)
         \/ \E locked \in BOOLEAN : LockTask(t, locked)
         \/ DeleteTask(t)
         \/ \E S \in SUBSET Nodes(t) \ {{}} : \E steps \in [S -> 1..Len(Route)] : LinkRoute(t, steps)

Edits ==
    \E p \in Plans :
      \/ \E due \in Dues, q \in Amounts \union {plan[p].q} : UpdatePlan(p, due, q, plan[p].sources)
      \/ \E l \in Lots : UpdatePlan(p, plan[p].due, plan[p].q, {l})
      \/ CancelPlan(p)
      \/ \E entries \in Requests(p) : Propose(p, entries) \/ DispatchBatches(p, entries)
      \/ ReviewPlan(p)
      \/ ReturnPlan(p)

Moves ==
    \E l \in Lots :
      \/ \E n \in 1..lot[l].hand, named \in Plans \union {None} :
           \/ Process(l, n, named)
           \/ \E to \in Teams \union {Outside}, b \in DOMAIN batch \union {None} :
                Send(l, n, to, named, b)
      \/ Receive(l)
      \/ Void(l)

Next ==
    \/ Orders
    \/ Edits
    \/ ApplyReview
    \/ Moves
    \/ Refresh(Teams)
    \/ \E team \in Teams : Refresh({team})
    \/ Tick

Init ==
    /\ now = 1
    /\ \E case \in Cases :
         /\ task = case.task /\ plan = case.plan /\ batch = case.batch
         /\ lot = case.lot /\ left = case.left
    /\ notices = UNION {Told(p, 1, "created") : p \in Plans}
    /\ delivery = <<>> /\ review = NoReview

Spec == Init /\ [][Next]_vars

-----------------------------------------------------------------------------
(* The tables, and how the rows of one state fit together. *)

EntryType == [id : Nat, due : Nat, q : Nat \ {0}, up : SUBSET Nat]
TaskType == [version : Nat \ {0}, final : Nat, customer : Seq(Nat), locked : BOOLEAN, deleted : BOOLEAN]
PlanType ==
    [task : Nat \ {0}, step : Nat, team : Teams, next : Teams \union {Outside}, pred : Nat,
     due : Nat, initial : Nat, q : Nat \ {0},
     state : {"pending", "submitted", "confirmed", "revision_pending"},
     pending : Seq(EntryType), version : Nat \ {0}, cancelled : BOOLEAN, sources : SUBSET Nat]
BatchType == [plan : Nat \ {0}, due : Nat, q : Nat \ {0}, up : SUBSET Nat, deleted : BOOLEAN]
LotType ==
    [src : Nat, from : Teams \union {Outside, None}, team : Teams \union {Outside},
     kind : {"receipt", "output", "transfer", "shipment"}, q : Nat \ {0}, hand : Nat,
     status : {"pending", "received", "dispatched", "voided"}, routed : BOOLEAN,
     step : Nat, done : BOOLEAN, sent : {"none", "complete", "unregistered"},
     sentStep : Nat, bound : Nat, at : Nat \ {0}]

\* Keys name rows: a node its order and an earlier node, a batch its node, a
\* document that waits the lot it was taken from.
KeysExist(tasks, plans, rows, lots) ==
    /\ \A p \in DOMAIN plans : plans[p].task \in DOMAIN tasks /\ plans[p].pred \in 0..(p - 1)
    /\ \A b \in DOMAIN rows : rows[b].plan \in DOMAIN plans
    /\ \A d \in DOMAIN lots : /\ lots[d].src \in 0..(d - 1)
                              /\ lots[d].status = "pending" => lots[d].src # None

InForce(rows, p) == {b \in DOMAIN rows : rows[b].plan = p /\ ~rows[b].deleted}

Waits(row) == (row.pending # <<>>) = (row.state \in {"submitted", "revision_pending"})

PlanAgrees(row, rows, p) ==
    LET own == InForce(rows, p) IN
    /\ \A b \in own :
         rows[b].up \subseteq (IF row.pred = None THEN {} ELSE InForce(rows, row.pred))
    /\ own # {} =>
         /\ row.due = Max({rows[b].due : b \in own})
         /\ row.q = Total([b \in DOMAIN rows |-> When(b \in own, rows[b].q)], Len(rows))
         /\ row.state \in {"confirmed", "revision_pending"}
    /\ ~row.cancelled => Waits(row)

PlansAgree(plans, rows) == \A p \in DOMAIN plans : PlanAgrees(plans[p], rows, p)

DatesAgree(tasks) ==
    \A t \in DOMAIN tasks :
      tasks[t].customer = <<>> \/ CustomerDatesFit(tasks[t].customer, tasks[t].final)

\* What was taken from a lot and what is left of it make up the lot.
Taken(lots, l) ==
    Total([d \in DOMAIN lots |-> When(lots[d].src = l /\ lots[d].status # "voided", lots[d].q)],
          Len(lots))
LotsAgree(lots) ==
    \A l \in DOMAIN lots :
      lots[l].hand + Taken(lots, l) = When(lots[l].status = "received", lots[l].q)

Kinds == {"create", "order", "node", "batch", "move", "poll", "tick"}

\* The teams have names, and what a form lists has dates and amounts.
FormsAssumption ==
    /\ Route \in Seq(Teams) /\ DayLength \in Nat \ {0} /\ MaxNow \in Nat \ {0}
    /\ Dues \subseteq Nat /\ Amounts \subseteq Nat \ {0}
    /\ \A form \in Forms : form \in Seq([due : Nat, q : Nat \ {0}]) /\ form # <<>>
ASSUME FormsAssumption

\* The tables that are found are such as the handlers leave.
CasesAssumption ==
    \A case \in Cases :
      /\ case.task \in Seq(TaskType) /\ case.plan \in Seq(PlanType)
      /\ case.batch \in Seq(BatchType) /\ case.lot \in Seq(LotType)
      /\ case.left \in [Kinds -> Nat]
      /\ KeysExist(case.task, case.plan, case.batch, case.lot)
      /\ PlansAgree(case.plan, case.batch)
      /\ DatesAgree(case.task)
      /\ LotsAgree(case.lot)
ASSUME CasesAssumption

-----------------------------------------------------------------------------
(* Properties. *)

\* Rows have the columns of their tables and name rows that exist, no lot has
\* more left than it had, and a document is booked on a batch of its own node.
TypeOK ==
    /\ now \in 1..MaxNow
    /\ task \in Seq(TaskType) /\ plan \in Seq(PlanType)
    /\ batch \in Seq(BatchType) /\ lot \in Seq(LotType)
    /\ KeysExist(task, plan, batch, lot)
    /\ \A l \in Lots : lot[l].hand <= lot[l].q
    /\ \A d \in DOMAIN delivery :
         /\ d \in Lots /\ delivery[d].plan \in Plans
         /\ delivery[d].batch # None => delivery[d].batch \in Batches(delivery[d].plan)

\* Whatever is proposed, approved, returned, removed and revised in whatever
\* order: a batch in force is supplied by batches that exist in the node before;
\* a node with batches is due at its last one, for their total; only confirmed
\* nodes have batches; a node waits for approval exactly while a request waits
\* in it; no date promised to the customer lies after the order's deadline.
PlansHangTogether == PlansAgree(plan, batch) /\ DatesAgree(task)

\* The program answers the same question twice and the answers agree: the list
\* of orders is filtered by the state their details show; a document counts for
\* the lists exactly when it counts for the form that books the next one, and a
\* node is complete for both at once; a node is late, overdue or due today
\* exactly when one of its batches is shown to be; and what is shown of the
\* material agrees with what the forms accept (see ScheduleMaterial).
AnswersAgree ==
    /\ \A t \in Tasks : TaskFilter(t) = TaskState(t)
    /\ \A d \in DOMAIN delivery : Counts(delivery[d].plan, d) = ValidDelivery(delivery[d].plan, d)
    /\ \A p \in Plans : SettledAtDispatch(p) = (PlanDone(p) # None)
    /\ \A p \in {q \in Active(Plans) : Assessed(q) /\ Batches(q) # {}} :
         LET shown == {BatchStatus(b) : b \in Batches(p)} IN
         /\ (Status(p) = "completed_late") =
              (shown \subseteq {"completed", "completed_late"} /\ "completed_late" \in shown)
         /\ (Status(p) = "overdue") = ("overdue" \in shown)
         /\ (Status(p) = "today") = ("today" \in shown /\ "overdue" \notin shown)
    /\ OffersAreKept
    /\ StockIsWhatArrived
    /\ OrderIsLocated
    /\ RemainderMatches

\* An approval applies the request its reviewer saw, or nothing: never a request
\* the team has replaced, and nothing in an order that was locked meanwhile.
ApprovedAsReviewed ==
    [][review # NoReview /\ review' = NoReview /\ books' # books =>
         /\ plan[review.plan].pending = review.entries
         /\ Unlocked(plan[review.plan].task)]_vars

\* Every change of a commitment leaves a new notice for its team, and for the
\* teams after it when dates or amounts move; after everybody has polled, every
\* node shown as overdue has a notice saying so, and no notice calls a settled
\* commitment overdue.
NewNotices == notices' \ notices
IsTold(p, s) == \E key \in NewNotices : key[1] = "plan" /\ key[2] = p /\ key[5] = s
CommitmentOf(p) == <<plan[p].due, plan[p].q, plan[p].cancelled, {<<b, batch[b]>> : b \in Batches(p)}>>

ChangeIsTold(p) ==
    /\ CommitmentOf(p)' # CommitmentOf(p) =>
         IsTold(p, p) /\ \A s \in Successors(p) : ~plan'[s].cancelled => IsTold(p, s)
    /\ task'[plan[p].task].locked # task[plan[p].task].locked /\ ~plan[p].cancelled => IsTold(p, p)

LatenessIsTold ==
    Refresh(Teams) =>
      \A p \in Plans : Status(p) = "overdue" =>
        \E key \in notices' : /\ key[4] = "overdue"
                              /\ \/ key[1] = "node" /\ key[2] = p
                                 \/ key[1] = "batch" /\ key[2] \in Batches(p)

OnlyOpenIsTold ==
    \A key \in NewNotices :
      /\ key[1] = "node" => Status(key[2]) \in {"overdue", "today", "pending"}
      /\ key[1] = "batch" => BatchStatus(key[2]) \in {"overdue", "today", "pending"}

EveryoneIsTold == [][(\A p \in Plans : ChangeIsTold(p)) /\ LatenessIsTold /\ OnlyOpenIsTold]_vars

=============================================================================
