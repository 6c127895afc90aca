----------------------------- MODULE RouteTables -----------------------------
(***************************************************************************)
(* The process routes of backend/app, the lots that walk them, and what    *)
(* the program reads off them: the path of a serial, the next step, where  *)
(* a lot may be sent, whether it may be worked on. The questions that are  *)
(* answered twice, in Python and in SQL, are both here.                    *)
(*                                                                         *)
(* Steps are counted from 1; 0 stands for NULL. Pieces are counted, weights*)
(* are not. done and redone are no columns: they record what was really    *)
(* done to a lot's pieces, on their route and in their present rework.     *)
(***************************************************************************)
EXTENDS Integers, FiniteSets, SequencesExt, LedgerTotals

CONSTANTS Warehouse,    \* WAREHOUSE_TEAM_CODE
          Production,   \* PROCESSING_TEAM_CODES
          Splitting,    \* SPLITTING_TEAM_CODES
          Outside,      \* no receiving team: the material leaves the factory
          NoSerial,     \* the empty serial
          SharedSerial, \* the number of a lot several serials share
          NoTask,       \* a step without a task
          KeyOf         \* serials to the keys they are reserved under (strip, casefold)

VARIABLES route,      \* process_routes
          path,       \* process_route_paths: [route, serial, index, team]
          reserved,   \* process_route_serials: keys to the roots of their families
          lot,        \* material_transfers
          work,       \* material_quantity_adjustments that registered work
          planned     \* <<serial, route>> of the production schedules in force

Unclear == -1

-----------------------------------------------------------------------------
(* A route and its paths. *)

Steps(r) == route[r].steps
Published(r) == route[r].state = "published"
Successors(r) == {s \in DOMAIN route : route[s].parent = r /\ Published(s)}
Family(r) == {s \in DOMAIN route : route[s].parent = route[r].parent /\ s # r}
RootIn(rows, r) ==
    LET root[s \in DOMAIN rows] == IF rows[s].parent = 0 THEN s ELSE root[rows[s].parent]
    IN root[r]
Root(r) == RootIn(route, r)

PathIn(row, member) ==
    {i \in DOMAIN row.steps : row.steps[i].members = {} \/ member \in row.steps[i].members}
PathOf(r, member) == PathIn(route[r], member)

\* The engineered serial whose path a serial of an order follows.
SerialIn(row, s) ==
    LET names == row.serials IN
    IF s \in Range(names) THEN s
    ELSE IF /\ row.kind = "normal" /\ names # <<>>
            /\ Cardinality({PathIn(row, member) : member \in Range(names)}) = 1
         THEN names[1] ELSE NoSerial
ExecutionSerial(r, s) == SerialIn(route[r], s)

RequireOrderRoute(r, s) ==
    /\ ExecutionSerial(r, s) # NoSerial
    /\ s \in Range(route[r].serials) \/ <<s, r>> \in planned

First(S) == IF S = {} THEN 0 ELSE CHOOSE i \in S : \A j \in S : i <= j

\* 0: the path has ended; Unclear: no path, or shared material before its split.
NextIn(row, i, s, shared) ==
    IF shared THEN IF i = Len(row.steps) THEN 0
                   ELSE IF row.steps[i + 1].members = {} THEN i + 1 ELSE Unclear
    ELSE IF SerialIn(row, s) = NoSerial THEN Unclear
    ELSE First({j \in PathIn(row, SerialIn(row, s)) : j > i})
NextIndex(r, i, s, shared) == NextIn(route[r], i, s, shared)

NextStep(l) == NextIndex(lot[l].route, lot[l].index, lot[l].serial, lot[l].shared)

\* What a published route offers a dispatch that names only a serial.
Resolved(s) ==
    LET plans == {p[2] : p \in {q \in planned : q[1] = s}}
        named == {r \in DOMAIN route :
                    /\ route[r].kind = "normal" /\ Published(r)
                    /\ \E row \in path : row.route = r /\ row.serial = s
                    /\ Successors(r) = {}}
        found == IF plans # {} THEN plans ELSE named
    IN IF Cardinality(found) = 1 THEN First(found) ELSE 0

\* The routes of a shared batch agree up to here, and here the material is cut.
CommonSplit(members) ==
    LET all == {members[s] : s \in DOMAIN members}
        agree(i) == \A r, q \in all : /\ i \in DOMAIN Steps(r) /\ i \in DOMAIN Steps(q)
                                      /\ Steps(r)[i].members = {}
                                      /\ Steps(r)[i].team = Steps(q)[i].team
                                      /\ Steps(r)[i].task = Steps(q)[i].task
        cuts == {i \in 2..Len(Steps(CHOOSE r \in all : TRUE)) :
                   /\ \A j \in 1..i : agree(j)
                   /\ Steps(CHOOSE r \in all : TRUE)[i].team \in Splitting}
    IN IF cuts = {} THEN 0 ELSE CHOOSE i \in cuts : \A j \in cuts : j <= i

-----------------------------------------------------------------------------
(* Lots. *)

Draws(x, l) == x.source = l /\ x.status # "voided"
Given(lots, l) == Total([k \in DOMAIN lots |-> When(Draws(lots[k], l), lots[k].q)], Len(lots))
Children(l) == {c \in DOMAIN lot : Draws(lot[c], l)}
OnHand(l) == lot[l].q - Given(lot, l)
Reserved(l) == \E c \in Children(l) : lot[c].status = "pending"
IsLot(l) == lot[l].status = "received"
Ancestors(l) == LET up[k \in 0..Len(lot)] == IF k = 0 THEN {} ELSE {k} \union up[lot[k].source]
                IN up[l]

Pending(l) == lot[l].rework # 0 /\ ~Published(lot[l].rework)
Active(l) == lot[l].route # 0 /\ route[lot[l].route].kind = "rework"
Here(l) == Steps(lot[l].route)[lot[l].index]

IsSplitStep(l, i) ==
    IF lot[l].shared /\ lot[l].group.split # 0
    THEN i <= lot[l].group.split /\ lot[l].team \in Splitting
    ELSE Steps(lot[l].route)[i].split

\* The step the material is at: its own, or after it the next one of the same
\* team; Unclear: it must go on first. (processing_step)
StepAt(l) ==
    LET next == NextStep(l) IN
    IF ~lot[l].complete THEN lot[l].index
    ELSE IF next > 0 /\ Steps(lot[l].route)[next].team = lot[l].team THEN next ELSE Unclear

TeamMayWork(l) == StepAt(l) # Unclear /\ Steps(lot[l].route)[StepAt(l)].team = lot[l].team

\* A finished lot is worked on again only for another task. (prepare_processing, prepare)
MayWork(l) ==
    /\ IsLot(l) /\ OnHand(l) > 0 /\ lot[l].role # "scrap" /\ lot[l].route # 0
    /\ lot[l].team \in Production
    /\ ~Pending(l)
    /\ TeamMayWork(l)
    /\ \/ Active(l)
       \/ /\ ~lot[l].waiting
          /\ Steps(lot[l].route)[StepAt(l)].task = NoTask =>
               /\ lot[l].role # "produced"
               /\ \A w \in DOMAIN work : work[w].lot # l

-----------------------------------------------------------------------------
(* Where a lot may be sent: the target and the cursor it is sent with. *)

Move(target, r, i, complete, rework) ==
    [target |-> target, route |-> r, index |-> i, complete |-> complete, rework |-> rework]

ResumeFields(r, target) ==
    LET back == route[r].resume IN Move(target, back.route, back.index, back.complete, 0)

\* Mutated: the last rework step need not be finished.
ReworkMovesUnfinished(l) ==
    LET r == lot[l].route
        i == IF Here(l).team = lot[l].team THEN NextStep(l) ELSE lot[l].index
    IN IF i = Unclear THEN {}
       ELSE IF i = 0 THEN {ResumeFields(r, route[r].resume.team)}
       ELSE {Move(Steps(r)[i].team, r, i, FALSE, r)}
ReworkMoves(l) ==
    LET r == lot[l].route
        here == Here(l).team = lot[l].team
        i == IF here THEN NextStep(l) ELSE lot[l].index
    IN IF (here /\ ~lot[l].complete) \/ i = Unclear THEN {}
       ELSE IF i = 0 THEN {ResumeFields(r, route[r].resume.team)}
       ELSE {Move(Steps(r)[i].team, r, i, FALSE, r)}

\* x: a lot, or the portion of a lot a route is chosen for only now.
RouteMoves(x) ==
    LET steps == Steps(x.route)
        i == NextIndex(x.route, x.index, x.serial, x.shared)
    IN IF steps[x.index].team # x.team
       THEN IF x.rounds = 0 THEN {}
            ELSE {Move(steps[x.index].team, x.route, x.index, x.complete, 0)}
       ELSE IF \/ x.shared /\ x.group.split # 0 /\ x.index >= x.group.split
               \/ ~x.complete \/ i = Unclear THEN {}
       ELSE IF i = 0 THEN {Move(Outside, x.route, x.index, TRUE, 0)}
       ELSE {Move(steps[i].team, x.route, i, steps[i].team = Warehouse, 0)}

Moves(l) ==
    LET x == lot[l]
        found == IF x.role = "scrap" \/ x.route = 0 \/ Pending(l) THEN {}
                 ELSE IF Active(l) THEN ReworkMoves(l)
                 ELSE IF x.waiting THEN {} ELSE RouteMoves(x)
    IN {move \in found : move.target # x.team}

MayResume(l) ==
    /\ IsLot(l) /\ ~Reserved(l)
    /\ Active(l) /\ lot[l].complete /\ NextStep(l) = 0
    /\ lot[l].team = route[lot[l].route].resume.team

-----------------------------------------------------------------------------
(* The same questions elsewhere. *)

\* The indexed rows of the published steps. (publish_route)
PathRows(r) ==
    UNION {{[route |-> r, serial |-> s, index |-> i, team |-> Steps(r)[i].team] :
              s \in IF Steps(r)[i].members # {} THEN Steps(r)[i].members
                    ELSE {NoSerial} \union Range(route[r].serials)} : i \in DOMAIN Steps(r)}

\* min(serial_no), for serials of one path.
Representative(r) ==
    LET names == {row.serial : row \in {p \in path : p.route = r}} \ {NoSerial}
    IN IF names = {} THEN NoSerial ELSE CHOOSE s \in names : TRUE
PathSerial(l) ==
    LET r == lot[l].route IN
    IF lot[l].shared THEN NoSerial
    ELSE IF \E row \in path : row.route = r /\ row.serial = lot[l].serial THEN lot[l].serial
    ELSE Representative(r)

\* Mutated: the list looks at the step that is finished.
LocalWorkPendingHere(l) ==
    \E row \in path : /\ row.route = lot[l].route /\ row.serial = PathSerial(l)
                      /\ row.index = lot[l].index /\ row.team = lot[l].team
\* The filter of the list of material to work on.
LocalWorkPending(l) ==
    LET rows == {row \in path : row.route = lot[l].route /\ row.serial = PathSerial(l)}
        later == {row.index : row \in {p \in rows : p.index > lot[l].index}}
        index == IF lot[l].complete THEN First(later) ELSE lot[l].index
    IN \E row \in rows : row.index = index /\ row.team = lot[l].team

\* What a lot's page says: the team it goes to next, and whether it may resume.
Following(l) ==
    LET next == IF lot[l].complete THEN NextStep(l) ELSE 0
        then == IF next > 0 THEN Steps(lot[l].route)[next].team ELSE Outside
    IN IF ~Active(l) THEN then
       ELSE IF Here(l).team # lot[l].team THEN Here(l).team
       ELSE IF lot[l].complete /\ next <= 0 THEN route[lot[l].route].resume.team ELSE then
CanResume(l) ==
    /\ Active(l) /\ Here(l).team = lot[l].team /\ lot[l].complete
    /\ NextStep(l) <= 0 /\ lot[l].team = route[lot[l].route].resume.team

\* How far a rework is, for the list of routes and for the orders it is linked to.
Completed(r) ==
    LET sum[k \in 0..Len(work)] ==
          IF k = 0 THEN 0
          ELSE sum[k - 1] + (IF /\ work[k].kind = "rework" /\ work[k].route = r
                                /\ work[k].index = Len(Steps(r)) THEN work[k].completed ELSE 0)
    IN sum[Len(work)]
Unfinished(r) ==
    \E l \in DOMAIN lot : /\ lot[l].rework = r /\ IsLot(l) /\ OnHand(l) > 0
                          /\ ~lot[l].complete \/ lot[l].index # Len(Steps(r))
RoundState(r) ==
    IF ~Published(r) THEN "awaiting_route"
    ELSE IF Completed(r) < lot[route[r].source].q \/ Unfinished(r) THEN "processing"
    ELSE "processed"
LinkState(r) ==
    IF ~Published(r) THEN "awaiting_route"
    ELSE IF Completed(r) >= lot[route[r].source].q THEN "processed" ELSE "processing"
=============================================================================
