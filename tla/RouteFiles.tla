----------------------------- MODULE RouteFiles -----------------------------
(***************************************************************************)
(* Writing the routes: drafts are imported, edited, published and revised  *)
(* by several people at once, each from the version on their screen. Every *)
(* edit holds the row's lock from its check to its commit. A publication    *)
(* holds it too, but judges the other revisions, and what was done to the  *)
(* material, in the read view it opened when it checked its own row.        *)
(***************************************************************************)
EXTENDS RouteTables

CONSTANTS People,       \* who writes routes
          Admins,       \* those of them who need name nobody
          Drawings,     \* the drawings there are
          MaxDrawings

VARIABLES screen,       \* the version and the content each person looks at
          publishing,   \* the publications between their checks and their commit
          left          \* how much of each kind may still happen (a bound)

tables == <<route, path, reserved, lot, work, planned>>

Spend(kind) == left[kind] > 0 /\ left' = [left EXCEPT ![kind] = @ - 1]

Content(row) == <<row.serials, row.steps, row.word, row.order, row.drawings>>
Shown(r, row) == [route |-> r, version |-> row.version, content |-> Content(row)]

\* review_fingerprint
Fingerprint(row) == <<row.serials, row.steps, row.word, row.order>>

-----------------------------------------------------------------------------
(* Checks. *)

Locked(r) == \E e \in publishing : e.route = r
Editable(r) == /\ route[r].state = "draft"
               /\ \A l \in DOMAIN lot : lot[l].route # r

\* Mutated: only the very same spelling is taken.
KeysSpelled(row) ==
    IF row.kind = "rework" \/ row.serials = <<>> THEN {} ELSE {row.serials[1]}
Keys(row) == IF row.kind = "rework" \/ row.serials = <<>> THEN {} ELSE {KeyOf[row.serials[1]]}
Free(row, root) == \A k \in Keys(row) \intersect DOMAIN reserved : reserved[k] = root
Reserve(row, root) ==
    reserved' = [k \in Keys(row) \union DOMAIN reserved |->
                   IF k \in DOMAIN reserved THEN reserved[k] ELSE root]

ValidStep(row, step) ==
    /\ step.team \in {Warehouse} \union Production
    /\ row.kind = "rework" => step.team # Warehouse
    /\ step.members \subseteq Range(row.serials)
    /\ step.split => step.team \in Splitting
    /\ step.team = Warehouse => step.task = NoTask

ValidSteps(row) ==
    LET n == Len(row.steps)
        branches == {i \in 1..n : row.steps[i].members # {}}
        cuts == {i \in 1..n : row.steps[i].split}
    IN /\ row.serials # <<>> /\ IsInjective(row.serials) /\ n > 0
       /\ \A i \in 1..n : ValidStep(row, row.steps[i])
       /\ \A i \in branches : \A j \in i..n : j \in branches
       /\ row.kind = "normal" =>
            /\ row.steps[1].team = Warehouse /\ row.steps[1].members = {}
            /\ Len(row.serials) > 1 =>
                 \E i \in 2..n : cuts = {i} /\ \A j \in branches : i < j

\* Work on the lot, or a lot taken from it, whatever became of it. (can_revise)
Touched(l) == \/ \E w \in DOMAIN work : work[w].lot = l
              \/ \E c \in DOMAIN lot : lot[c].source = l
Whole(l) == OnHand(l) = lot[l].q /\ ~Reserved(l)

-----------------------------------------------------------------------------
(* Drafts. *)

NewRow(kind, parent, serials, steps) ==
    [kind |-> kind, state |-> "draft", parent |-> parent, version |-> 1,
     serials |-> serials, steps |-> steps, word |-> 0, order |-> 0, drawings |-> {},
     required |-> FALSE, confirmed |-> <<>>, author |-> FALSE, reviser |-> FALSE,
     source |-> 0, of |-> 0,
     resume |-> [route |-> 0, index |-> 0, complete |-> FALSE, team |-> Outside], round |-> 0]

Insert(p, row) ==
    /\ route' = Append(route, row)
    /\ screen' = [screen EXCEPT ![p] = Shown(Len(route) + 1, row)]
    /\ UNCHANGED <<path, lot, work, planned, publishing>>

\* A form with drawings, or the import of a Word file alone.
CreateDraft(p, serials, steps, files, named) ==
    LET row == [NewRow("normal", 0, serials, steps) EXCEPT
                  !.word = 1, !.required = TRUE, !.drawings = files,
                  !.author = named, !.reviser = named]
        r == Len(route) + 1
    IN /\ Spend("create")
       /\ Cardinality(files) <= MaxDrawings
       /\ files = {} => ~named
       /\ Free(row, r) /\ Reserve(row, r)
       /\ Insert(p, row)

Open(p, r) ==
    /\ Spend("open")
    /\ screen' = [screen EXCEPT ![p] = Shown(r, route[r])]
    /\ UNCHANGED <<tables, publishing>>

\* Mutated: the version on the screen is not compared.
MayEditAnyVersion(p) == screen[p].route # 0 /\ ~Locked(screen[p].route) /\ Editable(screen[p].route)
MayEdit(p) ==
    /\ screen[p].route # 0 /\ ~Locked(screen[p].route) /\ Editable(screen[p].route)
    /\ route[screen[p].route].version = screen[p].version

Write(p, row) ==
    LET new == [row EXCEPT !.version = @ + 1]
        r == screen[p].route
    IN /\ route' = [route EXCEPT ![r] = new]
       /\ screen' = [screen EXCEPT ![p] = Shown(r, new)]
       /\ UNCHANGED <<path, lot, work, planned, publishing>>

\* A confirmation stands only for what was confirmed.
SaveDraft(p, serials, steps, named) ==
    LET r == screen[p].route
        old == route[r]
        new == [old EXCEPT !.serials = serials, !.steps = steps,
                           !.author = IF old.parent = 0 THEN named ELSE @,
                           !.reviser = named]
    IN /\ Spend("save")
       /\ MayEdit(p)
       /\ old.kind = "rework" => serials = old.serials
       /\ Free(new, Root(r)) /\ Reserve(new, Root(r))
       /\ Write(p, [new EXCEPT !.confirmed = IF @ = Fingerprint(new) THEN @ ELSE <<>>])

AttachWord(p) ==
    /\ Spend("file")
    /\ MayEdit(p)
    /\ route[screen[p].route].kind = "normal"
    /\ Write(p, [route[screen[p].route] EXCEPT !.word = @ + 1, !.required = TRUE, !.confirmed = <<>>])
    /\ UNCHANGED reserved

AttachOrder(p) ==
    /\ Spend("file")
    /\ MayEdit(p)
    /\ route[screen[p].route].kind = "normal"
    /\ Write(p, [route[screen[p].route] EXCEPT !.order = @ + 1, !.required = TRUE, !.confirmed = <<>>])
    /\ UNCHANGED reserved

\* Mutated: the number of drawings is not limited.
UploadAnyDrawing(p, d) ==
    LET row == route[screen[p].route]
    IN /\ Spend("file")
       /\ MayEdit(p)
       /\ d \notin row.drawings
       /\ Write(p, [row EXCEPT !.drawings = @ \union {d}])
       /\ UNCHANGED reserved
UploadDrawing(p, d) ==
    LET row == route[screen[p].route]
    IN /\ Spend("file")
       /\ MayEdit(p)
       /\ d \notin row.drawings /\ Cardinality(row.drawings) < MaxDrawings
       /\ Write(p, [row EXCEPT !.drawings = @ \union {d}])
       /\ UNCHANGED reserved

RemoveDrawing(p, d) ==
    LET row == route[screen[p].route]
    IN /\ Spend("file")
       /\ MayEdit(p)
       /\ d \in row.drawings
       /\ Write(p, [row EXCEPT !.drawings = @ \ {d}])
       /\ UNCHANGED reserved

-----------------------------------------------------------------------------
(* Publication. *)

PublishReads(p, imports) ==
    LET r == screen[p].route
        row == route[r]
    IN /\ Spend("publish")
       /\ MayEdit(p)
       /\ p \in Admins \/ (IF row.parent # 0 THEN row.reviser ELSE row.author)
       /\ publishing' = publishing \union
            {[route |-> r, imports |-> imports, content |-> screen[p].content,
              successor |-> row.parent # 0 /\ \E s \in Family(r) : Published(s),
              touched |-> row.kind = "rework" /\ Touched(row.source)]}
    /\ UNCHANGED <<tables, screen>>

\* activate
MayActivate(e) ==
    LET row == route[e.route]
        x == lot[row.source]
        back == row.resume
        original == Steps(back.route)
    IN /\ row.author
       /\ Whole(row.source)
       /\ IF row.parent # 0 THEN x.rework = row.parent /\ ~e.touched
          ELSE x.rework = e.route /\ x.waiting
       /\ back.route # 0 =>
            /\ back.index \in DOMAIN original
            /\ original[back.index].members # {} =>
                 ExecutionSerial(back.route, x.serial) \in original[back.index].members

Publishable(e) ==
    LET row == route[e.route]
    IN /\ ~e.successor
       /\ row.required => e.imports \/ row.confirmed = Fingerprint(row)
       /\ row.kind = "normal" => row.word # 0 /\ row.drawings # {}
       /\ Free(row, Root(e.route))
       /\ ValidSteps(row)
       /\ row.kind = "rework" => MayActivate(e)

FinishPublish(e) ==
    LET r == e.route
        row == route[r]
        back == row.resume
        x == lot[row.source]
    IN /\ Publishable(e)
       /\ route' = [route EXCEPT ![r] =
            [row EXCEPT !.state = "published",
                        !.confirmed = IF row.required THEN Fingerprint(row) ELSE @,
                        !.resume.team = IF back.route # 0 THEN Steps(back.route)[back.index].team
                                        ELSE back.team]]
       /\ path' = path \union PathRows(r)
       /\ Reserve(row, Root(r))
       /\ lot' = IF row.kind = "normal" THEN lot
                 ELSE [lot EXCEPT ![row.source] =
                         [x EXCEPT !.rework = r, !.route = r, !.index = 1, !.complete = FALSE]]
       /\ publishing' = publishing \ {e}
    /\ UNCHANGED <<work, planned, screen, left>>

RefusePublish(e) ==
    /\ ~Publishable(e)
    /\ publishing' = publishing \ {e}
    /\ UNCHANGED <<tables, screen, left>>

Revise(p, r) ==
    LET old == route[r]
    IN /\ Spend("revise")
       /\ ~Locked(r)
       /\ Published(r)
       /\ Successors(r) = {}
       /\ old.kind = "rework" => /\ lot[old.source].rework = r
                                 /\ Whole(old.source) /\ ~Touched(old.source)
       /\ Insert(p, [old EXCEPT !.state = "draft", !.version = 1, !.parent = r, !.reviser = FALSE])
       /\ UNCHANGED reserved

\* The people, each from their screen.
EditRoutes ==
    \E p \in People :
      \/ \E c \in left.contents, files \in SUBSET Drawings, named \in BOOLEAN :
           CreateDraft(p, c.serials, c.steps, files, named)
      \/ \E r \in DOMAIN route : Open(p, r)
      \/ \E c \in left.contents, named \in BOOLEAN : SaveDraft(p, c.serials, c.steps, named)
      \/ AttachWord(p)
      \/ AttachOrder(p)
      \/ \E d \in Drawings : UploadDrawing(p, d)
      \/ \E d \in Drawings : RemoveDrawing(p, d)
      \/ \E imports \in BOOLEAN : PublishReads(p, imports)
      \/ \E r \in DOMAIN route : Revise(p, r)

Publications == \E e \in publishing : FinishPublish(e) \/ RefusePublish(e)
=============================================================================
