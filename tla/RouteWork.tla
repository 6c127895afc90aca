------------------------------ MODULE RouteWork ------------------------------
(***************************************************************************)
(* Material on the routes. It is received, bound, sent from team to team,  *)
(* cut, shared between serials, worked on, asked back for rework and        *)
(* resumed, while the routes are written. Every handler here locks the lot, *)
(* its balance and the routes it names, and is one step; its count of       *)
(* pieces is kept (what a cut adds or loses is not modelled).               *)
(***************************************************************************)
EXTENDS RouteFiles

CONSTANTS Serials, Cases

vars == <<tables, screen, publishing, left>>

files == <<route, path, reserved, screen, publishing>>

NoGroup == [members |-> <<>>, split |-> 0]

NewLot(s, r, q) ==
    [kind |-> "receipt", status |-> "received", source |-> 0, from |-> Outside, team |-> Warehouse,
     serial |-> s, shared |-> FALSE, group |-> NoGroup, route |-> r,
     index |-> IF r = 0 THEN 0 ELSE 1, complete |-> r # 0, rework |-> 0, waiting |-> FALSE,
     rounds |-> 0, role |-> "none", q |-> q, done |-> <<>>, redone |-> <<>>]

Ready(r) == route[r].kind = "normal" /\ Published(r) /\ Steps(r)[1].team = Warehouse

-----------------------------------------------------------------------------
(* The warehouse. *)

Receive(s, r, q) ==
    /\ Spend("receive")
    /\ r # 0 => Ready(r) /\ RequireOrderRoute(r, s)
    /\ lot' = Append(lot, NewLot(s, r, q))
    /\ UNCHANGED <<files, work, planned>>

\* An order of the serial is given its route.
Plan(s, r) ==
    /\ Spend("plan")
    /\ Ready(r) /\ Successors(r) = {}
    /\ ExecutionSerial(r, s) # NoSerial
    /\ planned' = planned \union {<<s, r>>}
    /\ UNCHANGED <<files, lot, work>>

MayBind(l, r) ==
    /\ IsLot(l) /\ lot[l].team = Warehouse /\ lot[l].source = 0
    /\ Ready(r)
    /\ lot[l].route \in {0, r}
    /\ lot[l].route = 0 => Whole(l) /\ RequireOrderRoute(r, lot[l].serial)

Bound(l, r) == [lot[l] EXCEPT !.route = r, !.index = 1, !.complete = TRUE]

Bind(l, r) ==
    /\ Spend("bind")
    /\ lot[l].route = 0 /\ MayBind(l, r)
    /\ lot' = [lot EXCEPT ![l] = Bound(l, r)]
    /\ UNCHANGED <<files, work, planned>>

-----------------------------------------------------------------------------
(* From team to team. *)

\* What leaves l as q pieces along a move; x is the lot as the route sees it.
Sent(l, x, move, q) ==
    [x EXCEPT !.kind = "transfer", !.source = l, !.from = x.team, !.team = move.target,
              !.status = IF move.target = Outside THEN "gone" ELSE "pending",
              !.route = move.route, !.index = move.index, !.complete = move.complete,
              !.rework = move.rework, !.waiting = move.rework # 0 /\ ~move.complete,
              !.role = "none", !.q = q,
              !.redone = IF move.rework = 0 THEN <<>> ELSE @]

Available(l, q) == IsLot(l) /\ q <= OnHand(l)

\* r = 0: the line names no route. Stock without a serial gets one for this
\* portion only; other unbound stock of the warehouse is bound as it leaves.
Dispatch(l, s, r, q) ==
    LET x == lot[l]
        chosen == IF r # 0 THEN r ELSE IF x.route # 0 THEN x.route ELSE Resolved(s)
        anonymous == x.serial = NoSerial /\ ~x.shared
    IN /\ Spend("dispatch")
       /\ Available(l, q) /\ x.role # "scrap" /\ ~Pending(l)
       /\ ~anonymous => s = x.serial
       /\ chosen # 0 /\ s # NoSerial
       /\ \/ /\ anonymous /\ x.team = Warehouse /\ x.route = 0
             /\ Ready(chosen) /\ RequireOrderRoute(chosen, s)
             /\ \E move \in RouteMoves([Bound(l, chosen) EXCEPT !.serial = s]) :
                  lot' = Append(lot, Sent(l, [Bound(l, chosen) EXCEPT !.serial = s], move, q))
          \/ /\ ~anonymous /\ (r # 0 \/ x.route = 0)
             /\ MayBind(l, chosen)
             /\ LET b == IF x.route = 0 THEN Bound(l, chosen) ELSE x
                IN \E move \in RouteMoves(b) :
                     lot' = Append([lot EXCEPT ![l] = b], Sent(l, b, move, q))
          \/ /\ ~anonymous /\ r = 0 /\ x.route # 0
             /\ \E move \in Moves(l) : lot' = Append(lot, Sent(l, x, move, q))
    /\ UNCHANGED <<files, work, planned>>

\* The members' routes agree up to a cut; the line's first member lends its own.
DispatchShared(l, members, first, q) ==
    LET x == lot[l]
        portion == [Bound(l, first) EXCEPT !.shared = TRUE, !.serial = SharedSerial]
    IN /\ Spend("share")
       /\ Available(l, q)
       /\ x.team = Warehouse /\ x.kind = "receipt" /\ x.group = NoGroup /\ x.rework = 0
       /\ x.serial # NoSerial => x.serial \in DOMAIN members
       /\ \A s \in DOMAIN members : Ready(members[s]) /\ RequireOrderRoute(members[s], s)
       /\ CommonSplit(members) # 0
       /\ \E move \in RouteMoves(portion) :
            /\ move.target \notin {Warehouse, Outside}
            /\ lot' = Append(lot, [Sent(l, portion, move, q) EXCEPT
                                     !.group = [members |-> members, split |-> CommonSplit(members)]])
    /\ UNCHANGED <<files, work, planned>>

Confirm(c) ==
    /\ Spend("settle")
    /\ lot[c].status = "pending"
    /\ lot' = [lot EXCEPT ![c].status = "received"]
    /\ UNCHANGED <<files, work, planned>>

Void(c) ==
    /\ Spend("settle")
    /\ lot[c].status = "pending"
    /\ lot' = [lot EXCEPT ![c].status = "voided"]
    /\ UNCHANGED <<files, work, planned>>

-----------------------------------------------------------------------------
(* Work. *)

EndsAt(x, i) == NextIndex(x.route, i, x.serial, x.shared) = 0

\* allocate, create_outputs: one line of the result. Only a cut gives shared
\* material to one of its serials, who follows its own route from then on.
Output(l, role, s, q) ==
    LET x == lot[l]
        i == StepAt(l)
        what == <<x.team, Steps(x.route)[i].task>>
        own == x.shared /\ role = "produced" /\ IsSplitStep(l, i)
        made == [x EXCEPT !.serial = IF own THEN s ELSE @, !.shared = @ /\ ~own]
    IN [made EXCEPT
          !.kind = "output", !.source = l, !.from = x.team, !.role = role, !.q = q,
          !.route = IF own THEN x.group.members[s] ELSE @,
          !.index = IF role = "remaining" THEN @ ELSE i,
          !.complete = IF role = "remaining" THEN @ ELSE role = "produced",
          !.waiting = Active(l) /\ role = "remaining",
          !.rounds = IF Active(l) /\ (role = "scrap" \/ (role = "produced" /\ EndsAt(made, i)))
                     THEN route[x.route].round ELSE @,
          !.done = IF role = "produced" /\ ~Active(l) THEN Append(@, what) ELSE @,
          !.redone = IF role = "produced" /\ Active(l) THEN Append(@, what) ELSE @]

Registered(l, outputs, q) ==
    Append(work, [lot |-> l, team |-> lot[l].team, kind |-> IF Active(l) THEN "rework" ELSE "normal",
                  route |-> lot[l].route, index |-> StepAt(l), outputs |-> outputs, completed |-> q])

\* Some pieces are worked on, some scrapped (by a cutting team), the rest is left.
Process(l, s, made, scrap) ==
    LET rest == OnHand(l) - made - scrap
        n == Len(lot)
        lines == <<Output(l, "produced", s, made)>>
                   \o (IF scrap > 0 THEN <<Output(l, "scrap", s, scrap)>> ELSE <<>>)
                   \o (IF rest > 0 THEN <<Output(l, "remaining", s, rest)>> ELSE <<>>)
        own == lot[l].shared /\ IsSplitStep(l, StepAt(l))
    IN /\ Spend("work")
       /\ MayWork(l)
       /\ rest >= 0
       /\ scrap > 0 => lot[l].team \in Splitting
       /\ IF own THEN s \in DOMAIN lot[l].group.members ELSE s = lot[l].serial
       /\ Active(l) => NextIndex(lot[l].route, StepAt(l), s, lot[l].shared /\ ~own) # Unclear
       /\ lot' = lot \o lines
       /\ work' = Registered(l, {n + 1}, made)
    /\ UNCHANGED <<files, planned>>

\* A cutting team may finish a lot as it stands. A rework that ends so counts twice.
ProcessInPlace(l) ==
    LET x == lot[l]
        i == StepAt(l)
        what == <<x.team, Steps(x.route)[i].task>>
        last == EndsAt(x, i)
    IN /\ Spend("inplace")
       /\ MayWork(l)
       /\ x.team \in Splitting
       /\ lot' = [lot EXCEPT ![l] =
            [x EXCEPT !.index = i, !.complete = TRUE, !.waiting = FALSE,
                      !.rounds = IF ~Active(l) THEN @
                                 ELSE 1 + (IF last THEN route[x.route].round ELSE @),
                      !.done = IF Active(l) THEN @ ELSE Append(@, what),
                      !.redone = IF Active(l) THEN Append(@, what) ELSE @]]
       /\ work' = Registered(l, {}, OnHand(l))
    /\ UNCHANGED <<files, planned>>

-----------------------------------------------------------------------------
(* Rework. *)

\* The portion is set apart, and a route is asked for it; w: the work at fault.
RequestRework(l, q, w) ==
    LET x == lot[l]
        r == Len(route) + 1
        c == Len(lot) + 1
        names == IF x.shared THEN route[x.route].serials ELSE <<x.serial>>
    IN /\ Spend("rework")
       /\ Available(l, q) /\ x.team \in Production
       /\ x.route # 0 /\ x.role # "scrap" /\ ~Pending(l) /\ ~Active(l)
       /\ work[w].lot \in Ancestors(l)
       /\ work[w].outputs # {} => work[w].outputs \intersect Ancestors(l) # {}
       /\ lot' = Append(lot, [x EXCEPT !.kind = "split", !.source = l, !.from = x.team, !.q = q,
                                       !.waiting = TRUE, !.rework = r])
       /\ route' = Append(route, [NewRow("rework", 0, names, <<>>) EXCEPT
            !.source = c, !.of = w, !.drawings = route[x.route].drawings,
            !.resume = [route |-> x.route, index |-> x.index, complete |-> x.complete, team |-> x.team],
            !.round = x.rounds + 1])
    /\ UNCHANGED <<path, reserved, screen, publishing, work, planned>>

Resume(l) ==
    LET x == lot[l]
        back == route[x.route].resume
    IN /\ Spend("resume")
       /\ MayResume(l)
       /\ lot' = [lot EXCEPT ![l] =
            [x EXCEPT !.route = back.route, !.index = back.index, !.complete = back.complete,
                      !.rework = 0, !.waiting = FALSE, !.redone = <<>>]]
    /\ UNCHANGED <<files, work, planned>>

-----------------------------------------------------------------------------
(* What the tables say of one another. *)

IsTable(s) == s \in Seq({s[i] : i \in DOMAIN s})

Kinds == {"create", "open", "save", "file", "publish", "revise", "receive", "plan", "bind",
          "dispatch", "share", "settle", "work", "inplace", "rework", "resume"}

Place(cursor) == <<cursor.route, cursor.index, cursor.complete>>

\* What a rework goes back to is a step of a published route; the team there
\* is settled when the rework is published.
ReturnFits(rows, row) ==
    LET back == row.resume
        home == rows[back.route]
        step == home.steps[back.index]
    IN /\ back.route \in DOMAIN rows /\ home.kind = "normal" /\ home.state = "published"
       /\ back.index \in DOMAIN home.steps
       /\ row.state = "published" =>
            /\ back.team = step.team
            /\ step.members # {} => SerialIn(home, row.serials[1]) \in step.members

\* A corrected rework returns to where the one before it would have.
RowFits(rows, lots, r) ==
    LET row == rows[r] IN
    /\ DOMAIN row = DOMAIN NewRow("normal", 0, <<>>, <<>>)
    /\ DOMAIN row.resume = {"route", "index", "complete", "team"}
    /\ IsTable(row.serials) /\ IsTable(row.steps)
    /\ row.kind \in {"normal", "rework"} /\ row.state \in {"draft", "published"}
    /\ row.parent \in 0..(r - 1) /\ row.version \in Nat \ {0}
    /\ row.drawings \subseteq Drawings /\ Cardinality(row.drawings) <= MaxDrawings
    /\ row.source \in 0..Len(lots)
    /\ row.state = "published" => ValidSteps(row)
    /\ row.kind = "rework" =>
         /\ row.source # 0
         /\ row.serials = <<lots[row.source].serial>> \/ lots[row.source].shared
         /\ ReturnFits(rows, row)
         /\ row.parent # 0 => /\ rows[row.parent].kind = "rework" /\ rows[row.parent].state = "published"
                              /\ Place(row.resume) = Place(rows[row.parent].resume)

\* The route that material is on, or returns to from its rework.
Home(rows, r) == IF rows[r].kind = "rework" THEN rows[r].resume.route ELSE r
ReturnStep(rows, row) == rows[row.resume.route].steps[row.resume.index]

\* The routes of a shared lot's serials are one up to the step that cuts it.
GroupFits(rows, x) ==
    /\ x.group.split \in Nat \ {0} /\ x.route # 0
    /\ \A s \in DOMAIN x.group.members :
         LET row == rows[x.group.members[s]]
             own == rows[Home(rows, x.route)]
         IN
         /\ x.group.members[s] \in DOMAIN rows /\ row.kind = "normal" /\ row.state = "published"
         /\ \A j \in 1..x.group.split :
              /\ j \in DOMAIN row.steps /\ j \in DOMAIN own.steps
              /\ row.steps[j].members = {} /\ row.steps[j].team = own.steps[j].team
              /\ row.steps[j].task = own.steps[j].task

\* A lot stands on a step of a published route that is meant for its serial, at
\* that step's team unless a rework has just called it elsewhere.
CursorFits(rows, x) ==
    LET row == rows[x.route]
        step == row.steps[x.index]
    IN /\ row.state = "published" /\ x.index \in DOMAIN row.steps
       /\ step.members # {} => SerialIn(row, x.serial) \in step.members /\ ~x.shared
       /\ x.status \in {"pending", "received"} =>
            step.team = x.team \/ (row.kind = "rework" /\ x.index = 1 /\ ~x.complete)
       /\ row.kind = "rework" => /\ x.rework = x.route
                                 /\ IF x.shared THEN ReturnStep(rows, row).members = {}
                                    ELSE x.serial = row.serials[1]

\* Its rework is its route, or is still being written and the lot waits, whole,
\* where the rework is to return it.
ReworkFits(rows, lots, l) ==
    LET x == lots[l]
        row == rows[x.rework]
    IN /\ x.route # 0 /\ row.kind = "rework"
       /\ row.state = "published" => x.route = x.rework
       /\ row.state = "draft" =>
            /\ rows[x.route].kind = "normal" /\ row.source = l /\ Place(row.resume) = Place(x)
            /\ x.waiting /\ \A c \in DOMAIN lots : ~Draws(lots[c], l)

LotFits(rows, lots, l) ==
    LET x == lots[l] IN
    /\ DOMAIN x = DOMAIN NewLot(NoSerial, 0, 1) /\ x.shared \in BOOLEAN
    /\ x.status \in {"pending", "received", "gone", "voided"}
    /\ x.source \in 0..(l - 1) /\ x.team \in {Warehouse, Outside} \union Production
    /\ x.q \in Nat \ {0} /\ Given(lots, l) <= x.q
    /\ x.route \in 0..Len(rows) /\ x.rework \in 0..Len(rows)
    /\ x.route # 0 => CursorFits(rows, x)
    /\ x.rework # 0 => ReworkFits(rows, lots, l)
    /\ x.shared => GroupFits(rows, x)

\* The steps of production on the way to a cursor.
Past(row, i, complete, x) ==
    {j \in IF x.shared THEN 1..i ELSE PathIn(row, SerialIn(row, x.serial)) :
       (j < i \/ (j = i /\ complete)) /\ row.steps[j].team # Warehouse}
Way(row, i, complete, x) ==
    LET order == Ranked(Past(row, i, complete, x))
    IN [k \in DOMAIN order |-> <<row.steps[order[k]].team, row.steps[order[k]].task>>]

\* What was done to a lot is what lies on its way; it leaves at the end.
Walked(rows, x) ==
    LET row == rows[x.route]
        back == row.resume
    IN /\ IF row.kind = "rework"
          THEN /\ x.done = Way(rows[back.route], back.index, back.complete, x)
               /\ x.redone = Way(row, x.index, x.complete, x)
          ELSE /\ x.done = Way(row, x.index, x.complete, x)
               /\ x.redone = <<>>
       /\ x.status = "gone" => x.complete /\ NextIn(row, x.index, x.serial, x.shared) = 0

\* Unbound and newly received material is as it came.
LotWalks(rows, x) ==
    /\ x.complete \in BOOLEAN
    /\ x.route # 0 => Walked(rows, x)
    /\ x.route = 0 \/ (x.kind = "receipt" /\ x.team = Warehouse) => x.done = <<>> /\ x.redone = <<>>
    /\ x.status = "gone" => x.rework = 0

\* What was done to the material of a rework is registered.
RowWalks(row, lots, records) ==
    row.kind = "rework" =>
      /\ row.resume.complete \in BOOLEAN
      /\ lots[row.source].redone # <<>> => \E w \in DOMAIN records : records[w].lot = row.source

\* A screen shows a row as it is, or as an older version.
ScreenFits(rows, shown) ==
    shown.route # 0 =>
      /\ shown.route \in DOMAIN rows /\ shown.version \in Nat
      /\ shown.version <= rows[shown.route].version
      /\ shown.version = rows[shown.route].version => shown.content = Content(rows[shown.route])

\* A key is held by one family, whose first row has it too.
FamilyFits(rows, r) ==
    /\ Keys(rows[RootIn(rows, r)]) = Keys(rows[r])
    /\ \A q \in DOMAIN rows : rows[q].parent = 0 /\ Keys(rows[q]) = Keys(rows[r]) => q = RootIn(rows, r)

BudgetFits(rows, budget) ==
    /\ DOMAIN budget = Kinds \union {"pieces", "contents", "shares"}
    /\ \A k \in Kinds : budget[k] \in Nat
    /\ budget.pieces \in Nat \ {0}
    /\ \A c \in budget.contents : IsTable(c.serials) /\ IsTable(c.steps)
    /\ \A members \in budget.shares : Range(members) \subseteq DOMAIN rows

FilesAssumption ==
    /\ IsFiniteSet(Drawings) /\ MaxDrawings \in Nat
    /\ Outside \notin {Warehouse} \union Production /\ Warehouse \notin Production
ASSUME FilesAssumption

\* The tables that are found are such as the handlers leave.
CasesAssumption ==
    \A c \in Cases :
      /\ IsTable(c.route) /\ IsTable(c.lot) /\ IsTable(c.work)
      /\ \A r \in DOMAIN c.route :
           /\ RowFits(c.route, c.lot, r) /\ c.route[r].of \in 0..Len(c.work)
           /\ RowWalks(c.route[r], c.lot, c.work)
           /\ Keys(c.route[r]) # {} => FamilyFits(c.route, r)
      /\ \A l \in DOMAIN c.lot : LotFits(c.route, c.lot, l) /\ LotWalks(c.route, c.lot[l])
      /\ \A w \in DOMAIN c.work : /\ c.work[w].lot \in DOMAIN c.lot
                                  /\ c.work[w].outputs \subseteq DOMAIN c.lot
      /\ DOMAIN c.screen = People
      /\ \A p \in People : c.screen[p].route \in Nat /\ ScreenFits(c.route, c.screen[p])
      /\ \A p \in c.planned : p[2] \in DOMAIN c.route
      /\ BudgetFits(c.route, c.left)
ASSUME CasesAssumption

-----------------------------------------------------------------------------
Init ==
    /\ \E c \in Cases :
         /\ route = c.route /\ lot = c.lot /\ work = c.work /\ planned = c.planned
         /\ screen = c.screen /\ left = c.left
    /\ reserved = [k \in UNION {Keys(route[r]) : r \in DOMAIN route} |->
                     CHOOSE root \in DOMAIN route :
                       route[root].parent = 0 /\ Keys(route[root]) = {k}]
    /\ path = UNION {PathRows(r) : r \in {s \in DOMAIN route : Published(s)}}
    /\ publishing = {}

MoveMaterial ==
    \/ \E s \in Serials \union {NoSerial}, r \in {0} \union DOMAIN route : Receive(s, r, left.pieces)
    \/ \E s \in Serials, r \in DOMAIN route : Plan(s, r)
    \/ \E l \in DOMAIN lot, r \in DOMAIN route : Bind(l, r)
    \/ \E l \in DOMAIN lot, s \in Serials \union {SharedSerial}, r \in {0} \union DOMAIN route :
         \E q \in 1..OnHand(l) : Dispatch(l, s, r, q)
    \/ \E l \in DOMAIN lot, members \in left.shares :
         \E first \in Range(members), q \in 1..OnHand(l) : DispatchShared(l, members, first, q)
    \/ \E c \in DOMAIN lot : Confirm(c)
    \/ \E c \in DOMAIN lot : Void(c)

WorkOnMaterial ==
    \E l \in DOMAIN lot :
      \/ \E s \in Serials \union {SharedSerial}, made \in 1..OnHand(l), scrap \in 0..1 :
           Process(l, s, made, scrap)
      \/ ProcessInPlace(l)
      \/ \E q \in 1..OnHand(l), w \in DOMAIN work : RequestRework(l, q, w)
      \/ Resume(l)

\* Steps of these actions that put material where its route has nothing for it
\* (the theorems name the ones they need away). create_outputs sends a piece cut
\* from a shared lot in its rework to the serial's own route, at the index of the
\* rework's step (process_routes.py:411-421 lets it be cut there).
Misallocates ==
    \E c \in DOMAIN lot' \ DOMAIN lot :
      LET l == lot'[c].source
      IN l # 0 /\ Active(l) /\ lot[l].shared /\ ~lot'[c].shared

Activates(r) == ~Published(r) /\ route'[r].state = "published" /\ route[r].kind = "rework"

\* A rework of a shared lot has all the serials of its route (rework_routes.py:427)
\* and may begin with a branch for some of them.
Misdirects ==
    \E r \in DOMAIN route :
      Activates(r) /\ lot[route[r].source].shared /\ Steps(r)[1].members # {}

\* A corrected rework starts over after work that was registered between the
\* check and the publication (rework_routes.py:59).
Overtakes ==
    \E r \in DOMAIN route :
      /\ Activates(r) /\ route[r].parent # 0
      /\ \E w \in DOMAIN work : work[w].lot = route[r].source

Next == EditRoutes \/ Publications \/ MoveMaterial \/ WorkOnMaterial

Spec == Init /\ [][Next]_vars

-----------------------------------------------------------------------------
(* Properties. *)

TeamsOf == {Warehouse} \union Production

\* Types: rows name rows that exist, lots are somewhere, cursors are inside routes.
TypeOK ==
    /\ \A r \in DOMAIN route :
         /\ route[r].kind \in {"normal", "rework"} /\ route[r].state \in {"draft", "published"}
         /\ route[r].parent \in 0..(r - 1) /\ route[r].version >= 1
         /\ route[r].drawings \subseteq Drawings /\ Cardinality(route[r].drawings) <= MaxDrawings
         /\ route[r].source \in 0..Len(lot) /\ route[r].of \in 0..Len(work)
    /\ \A l \in DOMAIN lot :
         /\ lot[l].status \in {"pending", "received", "gone", "voided"}
         /\ lot[l].source \in 0..(l - 1) /\ lot[l].team \in TeamsOf \union {Outside}
         /\ lot[l].q > 0 /\ OnHand(l) \in 0..lot[l].q
         /\ lot[l].route \in 0..Len(route) /\ lot[l].rework \in 0..Len(route)
         /\ lot[l].route # 0 => lot[l].index \in DOMAIN Steps(lot[l].route)
    /\ \A w \in DOMAIN work : work[w].lot \in DOMAIN lot /\ work[w].outputs \subseteq DOMAIN lot
    /\ \A p \in People : screen[p].route \in 0..Len(route)
    /\ \A e \in publishing : ~Published(e.route)

\* The tables agree, whoever edits, publishes, revises, works and asks for
\* rework meanwhile: a published route is complete and has its path rows, two
\* families never own the same first serial, material stands on a step of a
\* published route that is meant for its serial, and it is at that step's team
\* unless a rework has just called it elsewhere; a lot whose rework is still
\* being written is whole. (validate_steps, publish_route, reserve_serial,
\* activate, bind_lot)
FilesHangTogether ==
    /\ path = UNION {PathRows(r) : r \in {s \in DOMAIN route : Published(s)}}
    /\ \A r \in DOMAIN route : Published(r) => ValidSteps(route[r])
    /\ \A r, q \in DOMAIN route :
         (Ready(r) /\ Ready(q) /\ KeyOf[route[r].serials[1]] = KeyOf[route[q].serials[1]])
           => Root(r) = Root(q)
    /\ \A l \in DOMAIN lot : lot[l].route # 0 =>
         LET x == lot[l]
             step == Steps(x.route)[x.index]
         IN /\ Published(x.route)
            /\ step.members # {} => ExecutionSerial(x.route, x.serial) \in step.members /\ ~x.shared
            /\ IsLot(l) /\ ~(Active(l) /\ x.index = 1 /\ ~x.complete) => step.team = x.team
            /\ Active(l) => x.rework = x.route
            /\ Pending(l) => Whole(l) /\ x.waiting

\* A lot's cursor tells the truth about its pieces: what was done to them is
\* what its serial's path asks for up to the cursor, step for step and nothing
\* twice, through cuts, partial work, shared batches and transfers; in a rework
\* the same holds of the rework's steps, while the normal work waits at the
\* step it is to resume at. Material leaves the factory only at the end of its
\* path. (finish_processing, processing_step, dispatch_fields, resume_fields)
WorkFollowsThePath == \A l \in DOMAIN lot : lot[l].route # 0 => Walked(route, lot[l])

\* What the lists and pages say agrees with what the handlers accept, and never
\* is a lot left with nothing that may be done with it: the list of material to
\* work on (SQL) and the check of the work (Python), the team a lot goes to
\* next and the check of a transfer, whether it may resume and the check of
\* that, the progress of a rework in its own list and in its order's.
\* (local_work_pending, route_document, progress_documents, request_links)
AnswersAgree ==
    /\ \A l \in DOMAIN lot :
         (/\ IsLot(l) /\ OnHand(l) > 0 /\ lot[l].role # "scrap"
          /\ lot[l].route # 0 /\ ~Pending(l)) =>
         LET to == {move.target : move \in Moves(l)}
         IN /\ LocalWorkPending(l) <=> TeamMayWork(l)
            /\ to \subseteq {Following(l)}
            /\ ~Reserved(l) => (CanResume(l) <=> MayResume(l))
            /\ MayWork(l) \/ to # {} \/ CanResume(l)
    /\ \A r \in DOMAIN route : route[r].kind = "rework" /\ Successors(r) = {} =>
         RoundState(r) = LinkState(r)

\* A route becomes current exactly as the person who published it saw it, and
\* never changes afterwards, whoever edits at the same time. (publish, editable_version)
PublishedAsReviewed ==
    [][\A r \in DOMAIN route :
         /\ Published(r) => Content(route'[r]) = Content(route[r])
         /\ route'[r].state = "published" /\ ~Published(r) =>
              \E e \in publishing : e.route = r /\ e.content = Content(route'[r])]_vars

\* The test of the workbench: once a revision is published, the other one is
\* refused, so a route has one current successor. (publish)
OneCurrentRoute == \A r \in DOMAIN route : Cardinality(Successors(r)) <= 1
=============================================================================
