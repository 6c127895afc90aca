----------------------------- MODULE RoutesProofs -----------------------------
(***************************************************************************)
(* Proofs about RouteWork, for any routes, people, lots and budgets: that  *)
(* a route becomes current as its publisher saw it; that, unless a step    *)
(* misallocates or misdirects shared material in its rework, its tables    *)
(* keep their types and the files hang together: every lot stands on a     *)
(* step of a published route that is meant for it; and that, unless a      *)
(* corrected rework overtakes work moreover, what was done to the material *)
(* is what its path asks for.                                              *)
(***************************************************************************)
EXTENDS RouteWork, LedgerTotalsProofs, SequenceTheorems

Columns == DOMAIN NewRow("normal", 0, <<>>, <<>>)

-----------------------------------------------------------------------------
(* Tables as sequences.                                                     *)

LEMMA TableShape ==
  ASSUME NEW s, IsTable(s)
  PROVE  Len(s) \in Nat /\ DOMAIN s = 1 .. Len(s)
BY DEF IsTable

LEMMA TableAppend ==
  ASSUME NEW s, IsTable(s), NEW e
  PROVE  /\ IsTable(Append(s, e))
         /\ Len(Append(s, e)) = Len(s) + 1
         /\ DOMAIN Append(s, e) = 1 .. (Len(s) + 1)
         /\ \A i \in DOMAIN s : Append(s, e)[i] = s[i]
         /\ Append(s, e)[Len(s) + 1] = e
<1> DEFINE T == {s[i] : i \in DOMAIN s} \union {e}
           t == Append(s, e)
<1>1. s \in Seq(T)
  <2>1. s \in Seq({s[i] : i \in DOMAIN s})
    BY DEF IsTable
  <2>. QED  BY <2>1
<1>2. e \in T
  OBVIOUS
<1> HIDE DEF T
<1>3. /\ t \in Seq(T) /\ Len(t) = Len(s) + 1 /\ DOMAIN t = 1 .. (Len(s) + 1)
      /\ \A i \in DOMAIN s : t[i] = s[i]
      /\ t[Len(s) + 1] = e
  BY <1>1, <1>2
<1> HIDE DEF t
<1>4. t \in Seq({t[i] : i \in DOMAIN t})
  BY <1>3
<1>. QED  BY <1>3, <1>4 DEF IsTable, t

LEMMA TableChange ==
  ASSUME NEW s, IsTable(s), NEW k, NEW e
  PROVE  /\ IsTable([s EXCEPT ![k] = e])
         /\ Len([s EXCEPT ![k] = e]) = Len(s)
         /\ DOMAIN [s EXCEPT ![k] = e] = DOMAIN s
         /\ \A i \in DOMAIN s : [s EXCEPT ![k] = e][i] = IF i = k THEN e ELSE s[i]
<1> DEFINE t == [s EXCEPT ![k] = e]
           T == {s[i] : i \in DOMAIN s} \union {e}
<1>1. s \in Seq({s[i] : i \in DOMAIN s})
  BY DEF IsTable
<1>2. /\ DOMAIN t = 1 .. Len(s) /\ Len(s) \in Nat /\ DOMAIN s = 1 .. Len(s)
      /\ \A i \in DOMAIN s : t[i] = IF i = k THEN e ELSE s[i]
  BY <1>1
<1>3. t \in [1 .. Len(s) -> {t[i] : i \in DOMAIN t}]
  <2>1. t = [i \in DOMAIN s |-> t[i]]
    OBVIOUS
  <2>. HIDE DEF t
  <2>. QED  BY <1>2, <2>1
<1> HIDE DEF t
<1>4. t \in Seq({t[i] : i \in DOMAIN t}) /\ Len(t) = Len(s)
  BY <1>2, <1>3
<1>. QED  BY <1>2, <1>4 DEF IsTable, t

-----------------------------------------------------------------------------
(* What a publisher saw.                                                    *)

\* A publication under way has its row to itself, as it was reviewed.
PublicationsFit ==
    /\ \A e \in publishing : /\ e.route \in DOMAIN route /\ ~Published(e.route)
                             /\ e.content = Content(route[e.route])
    /\ \A e, f \in publishing : e.route = f.route => e = f

IsRow(row) == DOMAIN row = Columns /\ row.version \in Nat \ {0}

ReviewInv ==
    /\ IsTable(route) /\ \A r \in DOMAIN route : IsRow(route[r])
    /\ DOMAIN screen = People
    /\ \A p \in People : screen[p].route \in Nat /\ ScreenFits(route, screen[p])
    /\ PublicationsFit

\* Rows stay, and change their content only together with their version.
RowsAge(rows, new) ==
    \A r \in DOMAIN rows :
      /\ r \in DOMAIN new /\ rows[r].version \in Nat /\ new[r].version \in Nat
      /\ \/ rows[r].version < new[r].version
         \/ rows[r].version = new[r].version /\ Content(rows[r]) = Content(new[r])

LEMMA ScreensAge ==
  ASSUME NEW rows, NEW new, NEW shown, ScreenFits(rows, shown), RowsAge(rows, new)
  PROVE  ScreenFits(new, shown)
<1>1. SUFFICES ASSUME shown.route # 0
               PROVE  /\ shown.route \in DOMAIN new /\ shown.version \in Nat
                      /\ shown.version <= new[shown.route].version
                      /\ shown.version = new[shown.route].version =>
                           shown.content = Content(new[shown.route])
  BY DEF ScreenFits
<1>2. /\ shown.route \in DOMAIN rows /\ shown.version \in Nat
      /\ shown.version <= rows[shown.route].version
      /\ shown.version = rows[shown.route].version => shown.content = Content(rows[shown.route])
  BY <1>1 DEF ScreenFits
<1>. QED  BY <1>2 DEF RowsAge

LEMMA ShownFits ==
  ASSUME NEW rows, NEW r \in DOMAIN rows, rows[r].version \in Nat
  PROVE  ScreenFits(rows, Shown(r, rows[r]))
BY DEF ScreenFits, Shown

\* The action of PublishedAsReviewed.
Reviewed ==
    \A r \in DOMAIN route :
      /\ Published(r) => Content(route'[r]) = Content(route[r])
      /\ route'[r].state = "published" /\ ~Published(r) =>
           \E e \in publishing : e.route = r /\ e.content = Content(route'[r])

LEMMA ReviewOfInsert ==
  ASSUME ReviewInv, NEW p \in People, NEW row, IsRow(row), Insert(p, row)
  PROVE  ReviewInv' /\ Reviewed
<1> DEFINE n == Len(route) + 1
<1>1. /\ IsTable(route') /\ DOMAIN route' = 1 .. n /\ DOMAIN route = 1 .. Len(route) /\ Len(route) \in Nat
      /\ \A r \in DOMAIN route : route'[r] = route[r]
      /\ route'[n] = row
  BY TableAppend, TableShape DEF ReviewInv, Insert
<1>2. \A r \in DOMAIN route' : IsRow(route'[r])
  BY <1>1 DEF ReviewInv
<1>3. RowsAge(route, route')
  BY <1>1 DEF RowsAge, ReviewInv, IsRow
<1>4. ScreenFits(route', Shown(n, row))
  BY <1>1, ShownFits DEF IsRow
<1>5. DOMAIN screen' = People
  BY DEF ReviewInv, Insert
<1>6. ASSUME NEW s \in People PROVE screen'[s].route \in Nat /\ ScreenFits(route', screen'[s])
  <2>1. CASE s = p
    <3>1. screen'[s] = Shown(n, row)
      BY <2>1 DEF ReviewInv, Insert
    <3>2. Shown(n, row).route = n
      BY DEF Shown
    <3>. QED  BY <1>1, <1>4, <3>1, <3>2
  <2>2. CASE s # p
    <3>1. screen'[s] = screen[s]
      BY <2>2 DEF ReviewInv, Insert
    <3>. QED  BY <1>3, <3>1, ScreensAge DEF ReviewInv
  <2>. QED  BY <2>1, <2>2
<1>7. PublicationsFit'
  BY <1>1 DEF PublicationsFit, ReviewInv, Insert, Published
<1>8. Reviewed
  BY <1>1 DEF Reviewed, Published
<1>. QED  BY <1>1, <1>2, <1>5, <1>6, <1>7, <1>8 DEF ReviewInv

LEMMA ReviewOfWrite ==
  ASSUME ReviewInv, NEW p \in People, MayEdit(p), NEW row, IsRow(row),
         row.version = route[screen[p].route].version, row.state = "draft", Write(p, row)
  PROVE  ReviewInv' /\ Reviewed
<1> DEFINE r == screen[p].route
           new == [row EXCEPT !.version = @ + 1]
<1>1. r \in DOMAIN route /\ ~Locked(r) /\ route[r].state = "draft"
  BY DEF MayEdit, Editable, ReviewInv, ScreenFits
<1>2. IsRow(new) /\ new.version = row.version + 1 /\ new.state = "draft"
  BY DEF IsRow, Columns, NewRow
<1>3. /\ route' = [route EXCEPT ![r] = new] /\ screen' = [screen EXCEPT ![p] = Shown(r, new)]
      /\ publishing' = publishing
  BY DEF Write
<1> HIDE DEF new
<1>4. /\ IsTable(route') /\ DOMAIN route' = DOMAIN route
      /\ \A q \in DOMAIN route : route'[q] = IF q = r THEN new ELSE route[q]
  BY <1>3, TableChange DEF ReviewInv
<1>5. \A q \in DOMAIN route' : IsRow(route'[q])
  BY <1>2, <1>4 DEF ReviewInv
<1>6. RowsAge(route, route')
  BY <1>2, <1>4 DEF RowsAge, ReviewInv, IsRow
<1>7. ScreenFits(route', Shown(r, new))
  BY <1>1, <1>2, <1>4, ShownFits DEF IsRow
<1>8. DOMAIN screen' = People
  BY <1>3 DEF ReviewInv
<1>9. ASSUME NEW s \in People PROVE screen'[s].route \in Nat /\ ScreenFits(route', screen'[s])
  <2>1. CASE s = p
    <3>1. screen'[s] = Shown(r, new)
      BY <1>3, <2>1 DEF ReviewInv
    <3>2. Shown(r, new).route = r /\ r \in Nat
      BY DEF Shown, ReviewInv
    <3>. QED  BY <1>7, <3>1, <3>2
  <2>2. CASE s # p
    <3>1. screen'[s] = screen[s]
      BY <1>3, <2>2 DEF ReviewInv
    <3>. QED  BY <1>6, <3>1, ScreensAge DEF ReviewInv
  <2>. QED  BY <2>1, <2>2
<1>10. PublicationsFit'
  <2>1. \A e \in publishing : e.route # r
    BY <1>1 DEF Locked
  <2>. QED  BY <1>3, <1>4, <2>1 DEF PublicationsFit, ReviewInv, Published
<1>11. Reviewed
  BY <1>1, <1>2, <1>4 DEF Reviewed, Published
<1>. QED  BY <1>4, <1>5, <1>8, <1>9, <1>10, <1>11 DEF ReviewInv

LEMMA ReviewOfStill ==
  ASSUME ReviewInv, UNCHANGED <<route, screen, publishing>>
  PROVE  ReviewInv' /\ Reviewed
<1>1. ReviewInv'
  <2>1. PublicationsFit'
    BY DEF ReviewInv, PublicationsFit, Published
  <2>. QED  BY <2>1 DEF ReviewInv
<1>2. Reviewed
  BY DEF Reviewed, Published
<1>. QED  BY <1>1, <1>2

LEMMA ReviewOfEdit ==
  ASSUME ReviewInv, EditRoutes
  PROVE  ReviewInv' /\ Reviewed
<1>1. PICK p \in People :
      \/ \E c \in left.contents, named \in BOOLEAN : SaveDraft(p, c.serials, c.steps, named)
      \/ \E c \in left.contents, drawn \in SUBSET Drawings, named \in BOOLEAN :
           CreateDraft(p, c.serials, c.steps, drawn, named)
      \/ \E r \in DOMAIN route : Open(p, r)
      \/ AttachWord(p) \/ AttachOrder(p)
      \/ \E d \in Drawings : UploadDrawing(p, d)
      \/ \E d \in Drawings : RemoveDrawing(p, d)
      \/ \E imports \in BOOLEAN : PublishReads(p, imports)
      \/ \E r \in DOMAIN route : Revise(p, r)
  BY DEF EditRoutes
<1> DEFINE s == screen[p].route
           old == route[s]
<1>2. MayEdit(p) => IsRow(old) /\ old.state = "draft" /\ s \in DOMAIN route
  BY DEF MayEdit, Editable, ReviewInv, ScreenFits
<1>3. ASSUME NEW c \in left.contents, NEW drawn \in SUBSET Drawings, NEW named \in BOOLEAN,
             CreateDraft(p, c.serials, c.steps, drawn, named)
      PROVE  ReviewInv' /\ Reviewed
  <2> DEFINE row == [NewRow("normal", 0, c.serials, c.steps) EXCEPT
                       !.word = 1, !.required = TRUE, !.drawings = drawn,
                       !.author = named, !.reviser = named]
  <2>1. IsRow(row)
    BY DEF IsRow, Columns, NewRow
  <2>2. Insert(p, row)
    BY <1>3 DEF CreateDraft
  <2>. HIDE DEF row
  <2>. QED  BY <2>1, <2>2, ReviewOfInsert
<1>4. ASSUME NEW r \in DOMAIN route, Open(p, r)
      PROVE  ReviewInv' /\ Reviewed
  <2>1. UNCHANGED <<route, publishing>> /\ screen' = [screen EXCEPT ![p] = Shown(r, route[r])]
    BY <1>4 DEF Open, tables
  <2>2. DOMAIN screen' = People
    BY <2>1 DEF ReviewInv
  <2>3. ScreenFits(route', Shown(r, route[r])) /\ Shown(r, route[r]).route \in Nat
    <3>1. r \in Nat
      BY TableShape DEF ReviewInv
    <3>2. Shown(r, route[r]).route = r
      BY DEF Shown
    <3>. QED  BY <2>1, <3>1, <3>2, ShownFits DEF ReviewInv, IsRow
  <2>4. \A q \in People : screen'[q] = IF q = p THEN Shown(r, route[r]) ELSE screen[q]
    BY <2>1 DEF ReviewInv
  <2>5. \A q \in People : screen'[q].route \in Nat /\ ScreenFits(route', screen'[q])
    BY <2>1, <2>3, <2>4 DEF ReviewInv
  <2>6. PublicationsFit'
    BY <2>1 DEF ReviewInv, PublicationsFit, Published
  <2>7. Reviewed
    BY <2>1 DEF Reviewed, Published
  <2>. QED  BY <2>1, <2>2, <2>5, <2>6, <2>7 DEF ReviewInv
<1>5. ASSUME NEW c \in left.contents, NEW named \in BOOLEAN, SaveDraft(p, c.serials, c.steps, named)
      PROVE  ReviewInv' /\ Reviewed
  <2> DEFINE new == [old EXCEPT !.serials = c.serials, !.steps = c.steps,
                                !.author = IF old.parent = 0 THEN named ELSE @,
                                !.reviser = named]
             row == [new EXCEPT !.confirmed = IF @ = Fingerprint(new) THEN @ ELSE <<>>]
  <2>1. MayEdit(p) /\ Write(p, row)
    BY <1>5 DEF SaveDraft
  <2>2. IsRow(row) /\ row.version = old.version /\ row.state = "draft"
    <3>1. IsRow(new) /\ new.version = old.version /\ new.state = "draft"
      BY <1>2, <2>1 DEF IsRow, Columns, NewRow
    <3>. HIDE DEF new
    <3>. QED  BY <3>1 DEF IsRow, Columns, NewRow
  <2>. HIDE DEF row
  <2>. QED  BY <2>1, <2>2, ReviewOfWrite
<1>6. ASSUME AttachWord(p) PROVE ReviewInv' /\ Reviewed
  <2> DEFINE row == [old EXCEPT !.word = @ + 1, !.required = TRUE, !.confirmed = <<>>]
  <2>1. MayEdit(p) /\ Write(p, row)
    BY <1>6 DEF AttachWord
  <2>2. IsRow(row) /\ row.version = old.version /\ row.state = "draft"
    BY <1>2, <2>1 DEF IsRow, Columns, NewRow
  <2>. HIDE DEF row
  <2>. QED  BY <2>1, <2>2, ReviewOfWrite
<1>7. ASSUME AttachOrder(p) PROVE ReviewInv' /\ Reviewed
  <2> DEFINE row == [old EXCEPT !.order = @ + 1, !.required = TRUE, !.confirmed = <<>>]
  <2>1. MayEdit(p) /\ Write(p, row)
    BY <1>7 DEF AttachOrder
  <2>2. IsRow(row) /\ row.version = old.version /\ row.state = "draft"
    BY <1>2, <2>1 DEF IsRow, Columns, NewRow
  <2>. HIDE DEF row
  <2>. QED  BY <2>1, <2>2, ReviewOfWrite
<1>8. ASSUME NEW d \in Drawings, UploadDrawing(p, d) PROVE ReviewInv' /\ Reviewed
  <2> DEFINE row == [old EXCEPT !.drawings = @ \union {d}]
  <2>1. MayEdit(p) /\ Write(p, row)
    BY <1>8 DEF UploadDrawing
  <2>2. IsRow(row) /\ row.version = old.version /\ row.state = "draft"
    BY <1>2, <2>1 DEF IsRow, Columns, NewRow
  <2>. HIDE DEF row
  <2>. QED  BY <2>1, <2>2, ReviewOfWrite
<1>9. ASSUME NEW d \in Drawings, RemoveDrawing(p, d) PROVE ReviewInv' /\ Reviewed
  <2> DEFINE row == [old EXCEPT !.drawings = @ \ {d}]
  <2>1. MayEdit(p) /\ Write(p, row)
    BY <1>9 DEF RemoveDrawing
  <2>2. IsRow(row) /\ row.version = old.version /\ row.state = "draft"
    BY <1>2, <2>1 DEF IsRow, Columns, NewRow
  <2>. HIDE DEF row
  <2>. QED  BY <2>1, <2>2, ReviewOfWrite
<1>10. ASSUME NEW imports \in BOOLEAN, PublishReads(p, imports) PROVE ReviewInv' /\ Reviewed
  <2> DEFINE e == [route |-> s, imports |-> imports, content |-> screen[p].content,
                   successor |-> old.parent # 0 /\ \E q \in Family(s) : Published(q),
                   touched |-> old.kind = "rework" /\ Touched(old.source)]
  <2>1. /\ MayEdit(p) /\ publishing' = publishing \union {e} /\ UNCHANGED <<route, screen>>
    BY <1>10 DEF PublishReads, tables
  <2>2. e.route = s /\ e.content = screen[p].content
    OBVIOUS
  <2> HIDE DEF e
  <2>3. e.content = Content(route[s])
    BY <2>1, <2>2 DEF MayEdit, ReviewInv, ScreenFits
  <2>4. ~Published(s) /\ \A f \in publishing : f.route # s
    BY <1>2, <2>1 DEF MayEdit, Locked, Published
  <2>5. PublicationsFit'
    BY <1>2, <2>1, <2>2, <2>3, <2>4 DEF ReviewInv, PublicationsFit, Published
  <2>6. Reviewed
    BY <2>1 DEF Reviewed, Published
  <2>. QED  BY <2>1, <2>5, <2>6 DEF ReviewInv
<1>11. ASSUME NEW r \in DOMAIN route, Revise(p, r) PROVE ReviewInv' /\ Reviewed
  <2> DEFINE row == [route[r] EXCEPT !.state = "draft", !.version = 1, !.parent = r, !.reviser = FALSE]
  <2>1. Insert(p, row)
    BY <1>11 DEF Revise
  <2>2. IsRow(row)
    BY DEF IsRow, Columns, NewRow, ReviewInv
  <2>. HIDE DEF row
  <2>. QED  BY <2>1, <2>2, ReviewOfInsert
<1>. QED  BY <1>1, <1>3, <1>4, <1>5, <1>6, <1>7, <1>8, <1>9, <1>10, <1>11

LEMMA ReviewOfPublication ==
  ASSUME ReviewInv, Publications
  PROVE  ReviewInv' /\ Reviewed
<1>1. PICK e \in publishing : FinishPublish(e) \/ RefusePublish(e)
  BY DEF Publications
<1>2. CASE RefusePublish(e)
  <2>1. UNCHANGED <<route, screen>> /\ publishing' = publishing \ {e}
    BY <1>2 DEF RefusePublish, tables
  <2>2. PublicationsFit'
    BY <2>1 DEF ReviewInv, PublicationsFit, Published
  <2>3. Reviewed
    BY <2>1 DEF Reviewed, Published
  <2>. QED  BY <2>1, <2>2, <2>3 DEF ReviewInv
<1>3. CASE FinishPublish(e)
  <2> DEFINE r == e.route
             old == route[r]
             team == Steps(old.resume.route)[old.resume.index].team
             new == [old EXCEPT !.state = "published",
                                !.confirmed = IF old.required THEN Fingerprint(old) ELSE @,
                                !.resume.team = IF old.resume.route # 0 THEN team
                                                ELSE old.resume.team]
  <2>1. /\ route' = [route EXCEPT ![r] = new] /\ publishing' = publishing \ {e} /\ UNCHANGED screen
    BY <1>3 DEF FinishPublish
  <2>2. r \in DOMAIN route /\ ~Published(r) /\ e.content = Content(old) /\ IsRow(old)
    BY DEF ReviewInv, PublicationsFit
  <2>3. IsRow(new) /\ new.version = old.version /\ Content(new) = Content(old)
    BY <2>2 DEF IsRow, Columns, NewRow, Content
  <2> HIDE DEF new
  <2>4. /\ IsTable(route') /\ DOMAIN route' = DOMAIN route
        /\ \A q \in DOMAIN route : route'[q] = IF q = r THEN new ELSE route[q]
    BY <2>1, TableChange DEF ReviewInv
  <2>5. \A q \in DOMAIN route' : IsRow(route'[q])
    BY <2>3, <2>4 DEF ReviewInv
  <2>6. RowsAge(route, route')
    BY <2>3, <2>4 DEF RowsAge, ReviewInv, IsRow
  <2>7. \A p \in People : screen'[p].route \in Nat /\ ScreenFits(route', screen'[p])
    BY <2>1, <2>6, ScreensAge DEF ReviewInv
  <2>8. PublicationsFit'
    <3>1. \A f \in publishing' : f.route # r
      BY <2>1 DEF ReviewInv, PublicationsFit
    <3>. QED  BY <2>1, <2>4, <3>1 DEF ReviewInv, PublicationsFit, Published
  <2>9. Reviewed
    BY <2>2, <2>3, <2>4 DEF Reviewed, Published
  <2>. QED  BY <2>1, <2>4, <2>5, <2>7, <2>8, <2>9 DEF ReviewInv
<1>. QED  BY <1>1, <1>2, <1>3

LEMMA ReviewOfRework ==
  ASSUME ReviewInv, NEW l, NEW q, NEW w, RequestRework(l, q, w)
  PROVE  ReviewInv' /\ Reviewed
<1> DEFINE x == lot[l]
           names == IF x.shared THEN route[x.route].serials ELSE <<x.serial>>
           row == [NewRow("rework", 0, names, <<>>) EXCEPT
                     !.source = Len(lot) + 1, !.of = w, !.drawings = route[x.route].drawings,
                     !.resume = [route |-> x.route, index |-> x.index, complete |-> x.complete,
                                 team |-> x.team],
                     !.round = x.rounds + 1]
           n == Len(route) + 1
<1>1. route' = Append(route, row) /\ UNCHANGED <<screen, publishing>>
  BY DEF RequestRework
<1>2. IsRow(row)
  BY DEF IsRow, Columns, NewRow
<1> HIDE DEF row
<1>3. /\ IsTable(route') /\ DOMAIN route' = 1 .. n /\ DOMAIN route = 1 .. Len(route) /\ Len(route) \in Nat
      /\ \A r \in DOMAIN route : route'[r] = route[r]
      /\ route'[n] = row
  BY <1>1, TableAppend, TableShape DEF ReviewInv
<1>4. \A r \in DOMAIN route' : IsRow(route'[r])
  BY <1>2, <1>3 DEF ReviewInv
<1>5. RowsAge(route, route')
  BY <1>3 DEF RowsAge, ReviewInv, IsRow
<1>6. \A p \in People : screen'[p].route \in Nat /\ ScreenFits(route', screen'[p])
  BY <1>1, <1>5, ScreensAge DEF ReviewInv
<1>7. PublicationsFit'
  BY <1>1, <1>3 DEF PublicationsFit, ReviewInv, Published
<1>8. Reviewed
  BY <1>3 DEF Reviewed, Published
<1>. QED  BY <1>1, <1>3, <1>4, <1>6, <1>7, <1>8 DEF ReviewInv

LEMMA ReviewOfStep ==
  ASSUME ReviewInv, [Next]_vars
  PROVE  ReviewInv' /\ Reviewed
<1>1. CASE EditRoutes
  BY <1>1, ReviewOfEdit
<1>2. CASE Publications
  BY <1>2, ReviewOfPublication
<1>3. CASE MoveMaterial
  <2>1. UNCHANGED files
    <3>1. \A s, r, q : Receive(s, r, q) \/ Plan(s, r) => UNCHANGED files
      BY DEF Receive, Plan
    <3>2. \A l, r : Bind(l, r) \/ Confirm(l) \/ Void(l) => UNCHANGED files
      BY DEF Bind, Confirm, Void
    <3>3. \A l, s, r, q : Dispatch(l, s, r, q) => UNCHANGED files
      BY DEF Dispatch
    <3>4. \A l, members, first, q : DispatchShared(l, members, first, q) => UNCHANGED files
      BY DEF DispatchShared
    <3>. QED  BY <1>3, <3>1, <3>2, <3>3, <3>4, Zenon DEF MoveMaterial
  <2>2. UNCHANGED <<route, screen, publishing>>
    BY <2>1 DEF files
  <2>. QED  BY <2>2, ReviewOfStill
<1>4. CASE WorkOnMaterial
  <2>1. PICK l \in DOMAIN lot :
          \/ \E s \in Serials \union {SharedSerial}, made \in 1..OnHand(l), scrap \in 0..1 :
               Process(l, s, made, scrap)
          \/ ProcessInPlace(l)
          \/ \E q \in 1..OnHand(l), w \in DOMAIN work : RequestRework(l, q, w)
          \/ Resume(l)
    BY <1>4 DEF WorkOnMaterial
  <2>2. ASSUME NEW q, NEW w, RequestRework(l, q, w) PROVE ReviewInv' /\ Reviewed
    BY <2>2, ReviewOfRework
  <2>3. ASSUME NEW s, NEW made, NEW scrap, Process(l, s, made, scrap) PROVE ReviewInv' /\ Reviewed
    <3>1. UNCHANGED <<route, screen, publishing>>
      BY <2>3 DEF Process, files
    <3>. QED  BY <3>1, ReviewOfStill
  <2>4. CASE ProcessInPlace(l) \/ Resume(l)
    <3>1. UNCHANGED <<route, screen, publishing>>
      BY <2>4 DEF ProcessInPlace, Resume, files
    <3>. QED  BY <3>1, ReviewOfStill
  <2>. QED  BY <2>1, <2>2, <2>3, <2>4
<1>5. CASE UNCHANGED vars
  <2>1. UNCHANGED <<route, screen, publishing>>
    BY <1>5 DEF vars, tables
  <2>. QED  BY <2>1, ReviewOfStill
<1>. QED  BY <1>1, <1>2, <1>3, <1>4, <1>5 DEF Next

LEMMA ReviewAtFirst ==
  ASSUME Init
  PROVE  ReviewInv
<1>1. PICK c \in Cases : route = c.route /\ lot = c.lot /\ screen = c.screen
  BY DEF Init
<1>2. /\ IsTable(route) /\ DOMAIN screen = People
      /\ \A r \in DOMAIN route : RowFits(route, lot, r)
      /\ \A p \in People : screen[p].route \in Nat /\ ScreenFits(route, screen[p])
  BY <1>1, CasesAssumption DEF CasesAssumption
<1>3. \A r \in DOMAIN route : IsRow(route[r])
  BY <1>2 DEF RowFits, IsRow, Columns
<1>4. PublicationsFit
  BY DEF Init, PublicationsFit
<1>. QED  BY <1>2, <1>3, <1>4 DEF ReviewInv

\* A route becomes current exactly as the person who published it saw it, and
\* never changes afterwards, whoever edits at the same time, for any number of
\* routes, people and files: what is on a screen with the version of a row is
\* the row's content, and a publication has its row to itself until it commits.
\* (publish, editable_version)
THEOREM AlwaysPublishedAsReviewed == Spec => PublishedAsReviewed
<1>1. Init => ReviewInv
  BY ReviewAtFirst
<1>2. ReviewInv /\ [Next]_vars => ReviewInv' /\ [Reviewed]_vars
  BY ReviewOfStep
<1>3. [Reviewed]_vars =>
        [\A r \in DOMAIN route :
           /\ Published(r) => Content(route'[r]) = Content(route[r])
           /\ route'[r].state = "published" /\ ~Published(r) =>
                \E e \in publishing : e.route = r /\ e.content = Content(route'[r])]_vars
  BY DEF Reviewed
<1>. QED  BY <1>1, <1>2, <1>3, PTL DEF Spec, PublishedAsReviewed

-----------------------------------------------------------------------------
(* What was given from a lot.                                               *)

Weighs(lots) == \A k \in DOMAIN lots : lots[k].q \in Nat

LEMMA GivenTerms ==
  ASSUME NEW lots, IsTable(lots), Weighs(lots), NEW l
  PROVE  [k \in DOMAIN lots |-> When(Draws(lots[k], l), lots[k].q)] \in [1 .. Len(lots) -> Nat]
<1>1. DOMAIN lots = 1 .. Len(lots)
  BY TableShape
<1>2. \A k \in DOMAIN lots : When(Draws(lots[k], l), lots[k].q) \in Nat
  BY DEF When, Weighs
<1>. QED  BY <1>1, <1>2

LEMMA GivenNat ==
  ASSUME NEW lots, IsTable(lots), Weighs(lots), NEW l
  PROVE  Given(lots, l) \in Nat
BY TableShape, GivenTerms, TotalOfNat DEF Given

LEMMA GivenNone ==
  ASSUME NEW lots, IsTable(lots), Weighs(lots), NEW l, \A c \in DOMAIN lots : ~Draws(lots[c], l)
  PROVE  Given(lots, l) = 0
<1> DEFINE f == [k \in DOMAIN lots |-> When(Draws(lots[k], l), lots[k].q)]
<1>1. f \in [1 .. Len(lots) -> Nat] /\ Len(lots) \in Nat
  BY TableShape, GivenTerms
<1>2. \A k \in 1 .. Len(lots) : f[k] = 0
  BY TableShape DEF When
<1> HIDE DEF f
<1>3. Total(f, Len(lots)) = 0
  BY <1>1, <1>2, TotalOfZeros
<1>. QED  BY <1>3 DEF Given, f

\* Who draws on a lot gives it at most what is drawn.
LEMMA GivenToOne ==
  ASSUME NEW lots, IsTable(lots), Weighs(lots), NEW l, NEW c \in DOMAIN lots, Draws(lots[c], l)
  PROVE  lots[c].q <= Given(lots, l)
<1> DEFINE f == [k \in DOMAIN lots |-> When(Draws(lots[k], l), lots[k].q)]
<1>1. f \in [1 .. Len(lots) -> Nat] /\ Len(lots) \in Nat
  BY TableShape, GivenTerms
<1>2. f[c] = lots[c].q /\ c \in 1 .. Len(lots)
  BY TableShape DEF When
<1> HIDE DEF f
<1>3. f[c] <= Total(f, Len(lots))
  BY <1>1, <1>2, TotalOfNat
<1>. QED  BY <1>2, <1>3 DEF Given, f

LEMMA GivenAppend ==
  ASSUME NEW lots, IsTable(lots), Weighs(lots), NEW x, x.q \in Nat, NEW l
  PROVE  /\ Weighs(Append(lots, x))
         /\ Given(Append(lots, x), l) = Given(lots, l) + When(Draws(x, l), x.q)
<1> DEFINE new == Append(lots, x)
           n == Len(lots)
           g == [k \in DOMAIN lots |-> When(Draws(lots[k], l), lots[k].q)]
           f == [k \in DOMAIN new |-> When(Draws(new[k], l), new[k].q)]
<1>1. /\ IsTable(new) /\ Len(new) = n + 1 /\ DOMAIN new = 1 .. (n + 1)
      /\ n \in Nat /\ DOMAIN lots = 1 .. n
      /\ \A k \in DOMAIN lots : new[k] = lots[k]
      /\ new[n + 1] = x
  BY TableShape, TableAppend
<1> HIDE DEF new
<1>2. Weighs(new)
  <2>1. \A k \in DOMAIN new : k \in DOMAIN lots \/ k = n + 1
    BY <1>1
  <2>. QED  BY <1>1, <2>1 DEF Weighs
<1>3. f \in [1 .. (n + 1) -> Nat] /\ g \in [1 .. n -> Nat]
  <2>1. f \in [1 .. Len(new) -> Nat]
    BY <1>1, <1>2, GivenTerms
  <2>2. g \in [1 .. n -> Nat]
    BY GivenTerms
  <2>. QED  BY <1>1, <2>1, <2>2
<1>4. \A k \in 1 .. n : f[k] = g[k]
  BY <1>1
<1>5. f[n + 1] = When(Draws(x, l), x.q)
  BY <1>1
<1>6. Given(new, l) = Total(f, n + 1) /\ Given(lots, l) = Total(g, n)
  BY <1>1 DEF Given
<1>7. f \in [1 .. (n + 1) -> Int] /\ g \in [1 .. n -> Int]
  BY <1>3
<1> HIDE DEF f, g
<1>8. Total(f, n + 1) = Total(g, n) + f[n + 1]
  BY <1>1, <1>4, <1>7, TotalExtended
<1>. QED  BY <1>2, <1>5, <1>6, <1>8 DEF new

LEMMA GivenChange ==
  ASSUME NEW lots, IsTable(lots), Weighs(lots), NEW k, NEW y,
         k \in DOMAIN lots => y.q = lots[k].q, NEW l,
         k \in DOMAIN lots /\ Draws(y, l) => Draws(lots[k], l)
  PROVE  /\ Weighs([lots EXCEPT ![k] = y])
         /\ Given([lots EXCEPT ![k] = y], l) <= Given(lots, l)
<1> DEFINE new == [lots EXCEPT ![k] = y]
           n == Len(lots)
           g == [i \in DOMAIN lots |-> When(Draws(lots[i], l), lots[i].q)]
           f == [i \in DOMAIN new |-> When(Draws(new[i], l), new[i].q)]
<1>1. /\ IsTable(new) /\ Len(new) = n /\ DOMAIN new = DOMAIN lots
      /\ n \in Nat /\ DOMAIN lots = 1 .. n
      /\ \A i \in DOMAIN lots : new[i] = IF i = k THEN y ELSE lots[i]
  BY TableShape, TableChange
<1> HIDE DEF new
<1>2. Weighs(new)
  BY <1>1 DEF Weighs
<1>3. f \in [1 .. n -> Nat] /\ g \in [1 .. n -> Nat]
  <2>1. f \in [1 .. Len(new) -> Nat]
    BY <1>1, <1>2, GivenTerms
  <2>2. g \in [1 .. n -> Nat]
    BY GivenTerms
  <2>. QED  BY <1>1, <2>1, <2>2
<1>4. \A i \in 1 .. n : f[i] <= g[i]
  <2>. SUFFICES ASSUME NEW i \in 1 .. n PROVE f[i] <= g[i]
    OBVIOUS
  <2>1. /\ f[i] = When(Draws(new[i], l), new[i].q)
        /\ g[i] = When(Draws(lots[i], l), lots[i].q)
        /\ lots[i].q \in Nat
    BY <1>1 DEF Weighs
  <2>2. CASE i = k
    <3>1. f[i] = When(Draws(y, l), lots[i].q)
      BY <1>1, <2>1, <2>2
    <3>. QED  BY <1>1, <2>1, <2>2, <3>1 DEF When
  <2>3. CASE i # k
    <3>1. f[i] = g[i]
      BY <1>1, <2>1, <2>3
    <3>. QED  BY <1>3, <3>1
  <2>. QED  BY <2>2, <2>3
<1>5. Given(new, l) = Total(f, n) /\ Given(lots, l) = Total(g, n)
  BY <1>1 DEF Given
<1>6. f \in [1 .. n -> Int] /\ g \in [1 .. n -> Int]
  BY <1>3
<1> HIDE DEF f, g
<1>7. Total(f, n) <= Total(g, n)
  BY <1>1, <1>4, <1>6, TotalGrows
<1>. QED  BY <1>2, <1>5, <1>7 DEF new

-----------------------------------------------------------------------------
(* Numbers: the first and the last of some steps.                           *)

LEMMA FirstIsThere ==
  ASSUME NEW S \in SUBSET Nat, S # {}
  PROVE  First(S) \in S /\ \A j \in S : First(S) <= j
<1>1. \E i \in S : \A j \in S : i <= j
  <2>1. IsWellFoundedOn(OpToRel(<, Nat), Nat)
    BY NatLessThanWellFounded
  <2>2. PICK i \in S : \A j \in S : ~(<<j, i>> \in OpToRel(<, Nat))
    BY <2>1, WFMin
  <2>3. \A j \in S : j \in Nat /\ i \in Nat /\ ~(j < i)
    BY <2>2 DEF OpToRel
  <2>. QED  BY <2>3
<1>. QED  BY <1>1 DEF First

LEMMA LastIsThere ==
  ASSUME NEW n \in Nat, NEW S \in SUBSET (1 .. n), S # {}
  PROVE  \E i \in S : \A j \in S : j <= i
<1> DEFINE T == {n - i : i \in S}
<1>1. T \in SUBSET Nat /\ T # {}
  <2>1. \A i \in S : n - i \in Nat
    OBVIOUS
  <2>. QED  BY <2>1
<1>2. First(T) \in T /\ \A j \in T : First(T) <= j
  BY <1>1, FirstIsThere
<1>3. PICK i \in S : First(T) = n - i
  BY <1>2
<1>4. \A j \in S : n - i <= n - j
  BY <1>2, <1>3
<1>. QED  BY <1>4

-----------------------------------------------------------------------------
(* Rows while others are written.                                           *)

\* Rows stay, with their kind, their family and where they return; what is published
\* keeps its steps and serials.
RowsGrow(rows, new) ==
    \A r \in DOMAIN rows :
      /\ r \in DOMAIN new
      /\ new[r].kind = rows[r].kind /\ new[r].parent = rows[r].parent /\ new[r].source = rows[r].source
      /\ Place(new[r].resume) = Place(rows[r].resume)
      /\ rows[r].state = "published" =>
           /\ new[r].state = "published"
           /\ new[r].serials = rows[r].serials /\ new[r].steps = rows[r].steps

\* Lots stay, with their serials.
LotsGrow(lots, new) ==
    /\ Len(lots) \in Nat /\ Len(new) \in Nat /\ Len(lots) <= Len(new)
    /\ \A l \in 1..Len(lots) : new[l].serial = lots[l].serial /\ new[l].shared = lots[l].shared

LEMMA SerialKept ==
  ASSUME NEW row, NEW new, new.kind = row.kind, new.serials = row.serials, new.steps = row.steps, NEW s
  PROVE  SerialIn(new, s) = SerialIn(row, s)
BY DEF SerialIn, PathIn

LEMMA ReturnGrows ==
  ASSUME NEW rows, NEW new, RowsGrow(rows, new), NEW row, ReturnFits(rows, row)
  PROVE  ReturnFits(new, row)
<1> DEFINE b == row.resume.route
           i == row.resume.index
<1>1. /\ b \in DOMAIN rows /\ rows[b].kind = "normal" /\ rows[b].state = "published"
      /\ i \in DOMAIN rows[b].steps
      /\ row.state = "published" =>
           /\ row.resume.team = rows[b].steps[i].team
           /\ rows[b].steps[i].members # {} =>
                SerialIn(rows[b], row.serials[1]) \in rows[b].steps[i].members
  BY DEF ReturnFits
<1>2. /\ b \in DOMAIN new /\ new[b].kind = "normal" /\ new[b].state = "published"
      /\ new[b].serials = rows[b].serials /\ new[b].steps = rows[b].steps
  BY <1>1 DEF RowsGrow
<1>3. SerialIn(new[b], row.serials[1]) = SerialIn(rows[b], row.serials[1])
  BY <1>1, <1>2, SerialKept
<1> HIDE DEF b, i
<1>4. /\ b \in DOMAIN new /\ new[b].kind = "normal" /\ new[b].state = "published"
      /\ i \in DOMAIN new[b].steps
      /\ row.state = "published" =>
           /\ row.resume.team = new[b].steps[i].team
           /\ new[b].steps[i].members # {} =>
                SerialIn(new[b], row.serials[1]) \in new[b].steps[i].members
  BY <1>1, <1>2, <1>3
<1>. QED  BY <1>4 DEF ReturnFits, b, i

\* Every rework has a step to go back to.
Returns(rows) == \A r \in DOMAIN rows : rows[r].kind = "rework" => ReturnFits(rows, rows[r])

LEMMA HomeGrows ==
  ASSUME NEW rows, NEW new, RowsGrow(rows, new), Returns(rows), NEW r \in DOMAIN rows,
         rows[r].state = "published"
  PROVE  /\ Home(new, r) = Home(rows, r) /\ Home(rows, r) \in DOMAIN rows
         /\ new[Home(rows, r)].steps = rows[Home(rows, r)].steps
<1>1. new[r].kind = rows[r].kind /\ Place(new[r].resume) = Place(rows[r].resume)
  BY DEF RowsGrow
<1>2. Home(new, r) = Home(rows, r)
  BY <1>1 DEF Home, Place
<1>3. Home(rows, r) \in DOMAIN rows /\ rows[Home(rows, r)].state = "published"
  BY DEF Returns, ReturnFits, Home
<1>. QED  BY <1>2, <1>3 DEF RowsGrow

LEMMA ReturnStepGrows ==
  ASSUME NEW rows, NEW new, RowsGrow(rows, new), Returns(rows), NEW r \in DOMAIN rows,
         rows[r].kind = "rework"
  PROVE  ReturnStep(new, new[r]) = ReturnStep(rows, rows[r])
<1>1. /\ new[r].resume.route = rows[r].resume.route /\ new[r].resume.index = rows[r].resume.index
  BY DEF RowsGrow, Place
<1>2. rows[r].resume.route \in DOMAIN rows /\ rows[rows[r].resume.route].state = "published"
  BY DEF Returns, ReturnFits
<1>3. new[rows[r].resume.route].steps = rows[rows[r].resume.route].steps
  BY <1>2 DEF RowsGrow
<1>. QED  BY <1>1, <1>3 DEF ReturnStep

LEMMA RowGrows ==
  ASSUME NEW rows, IsTable(rows), NEW new, RowsGrow(rows, new), NEW lots, NEW made, LotsGrow(lots, made),
         NEW r \in DOMAIN rows, new[r] = rows[r], RowFits(rows, lots, r)
  PROVE  RowFits(new, made, r)
<1>1. rows[r].source \in 0..Len(made)
  BY DEF RowFits, LotsGrow
<1>2. ASSUME rows[r].kind = "rework"
      PROVE  /\ rows[r].source # 0
             /\ rows[r].serials = <<made[rows[r].source].serial>> \/ made[rows[r].source].shared
             /\ ReturnFits(new, rows[r])
             /\ rows[r].parent # 0 =>
                  /\ new[rows[r].parent].kind = "rework" /\ new[rows[r].parent].state = "published"
                  /\ Place(rows[r].resume) = Place(new[rows[r].parent].resume)
  <2>1. /\ rows[r].source # 0 /\ rows[r].source \in 0..Len(lots)
        /\ rows[r].serials = <<lots[rows[r].source].serial>> \/ lots[rows[r].source].shared
        /\ ReturnFits(rows, rows[r])
        /\ rows[r].parent \in 0..(r - 1)
        /\ rows[r].parent # 0 =>
             /\ rows[rows[r].parent].kind = "rework" /\ rows[rows[r].parent].state = "published"
             /\ Place(rows[r].resume) = Place(rows[rows[r].parent].resume)
    BY <1>2 DEF RowFits
  <2>2. rows[r].source \in 1..Len(lots)
    BY <2>1 DEF LotsGrow
  <2>3. /\ made[rows[r].source].serial = lots[rows[r].source].serial
        /\ made[rows[r].source].shared = lots[rows[r].source].shared
    BY <2>2 DEF LotsGrow
  <2>4. rows[r].parent # 0 =>
          /\ new[rows[r].parent].kind = "rework" /\ new[rows[r].parent].state = "published"
          /\ Place(rows[r].resume) = Place(new[rows[r].parent].resume)
    <3>. SUFFICES ASSUME rows[r].parent # 0
                  PROVE  /\ new[rows[r].parent].kind = "rework" /\ new[rows[r].parent].state = "published"
                         /\ Place(rows[r].resume) = Place(new[rows[r].parent].resume)
      OBVIOUS
    <3>1. rows[r].parent \in DOMAIN rows
      BY <2>1, TableShape
    <3>. QED  BY <2>1, <3>1 DEF RowsGrow
  <2>. QED  BY <2>1, <2>3, <2>4, ReturnGrows
<1>. QED  BY <1>1, <1>2 DEF RowFits

LEMMA CursorGrows ==
  ASSUME NEW rows, NEW new, RowsGrow(rows, new), Returns(rows), NEW x, x.route \in DOMAIN rows, CursorFits(rows, x)
  PROVE  CursorFits(new, x)
<1> DEFINE r == x.route
<1>1. rows[r].state = "published"
  BY DEF CursorFits
<1>2. /\ new[r].state = "published" /\ new[r].serials = rows[r].serials /\ new[r].steps = rows[r].steps
      /\ new[r].kind = rows[r].kind
  BY <1>1 DEF RowsGrow
<1>3. SerialIn(new[r], x.serial) = SerialIn(rows[r], x.serial)
  BY <1>2, SerialKept
<1>4. rows[r].kind = "rework" => ReturnStep(new, new[r]) = ReturnStep(rows, rows[r])
  BY ReturnStepGrows
<1>. QED  BY <1>2, <1>3, <1>4 DEF CursorFits

LEMMA GroupGrows ==
  ASSUME NEW rows, NEW new, RowsGrow(rows, new), Returns(rows), NEW x, x.route \in DOMAIN rows,
         rows[x.route].state = "published", GroupFits(rows, x)
  PROVE  GroupFits(new, x)
<1> DEFINE h == Home(rows, x.route)
<1>1. Home(new, x.route) = h /\ new[h].steps = rows[h].steps
  BY HomeGrows
<1> HIDE DEF h
<1>2. ASSUME NEW s \in DOMAIN x.group.members
      PROVE  LET row == new[x.group.members[s]]
                 own == new[Home(new, x.route)]
             IN
             /\ x.group.members[s] \in DOMAIN new /\ row.kind = "normal" /\ row.state = "published"
             /\ \A j \in 1..x.group.split :
                  /\ j \in DOMAIN row.steps /\ j \in DOMAIN own.steps
                  /\ row.steps[j].members = {} /\ row.steps[j].team = own.steps[j].team
                  /\ row.steps[j].task = own.steps[j].task
  <2> DEFINE m == x.group.members[s]
  <2>1. /\ m \in DOMAIN rows /\ rows[m].kind = "normal" /\ rows[m].state = "published"
        /\ \A j \in 1..x.group.split :
             /\ j \in DOMAIN rows[m].steps /\ j \in DOMAIN rows[h].steps
             /\ rows[m].steps[j].members = {} /\ rows[m].steps[j].team = rows[h].steps[j].team
             /\ rows[m].steps[j].task = rows[h].steps[j].task
    BY DEF GroupFits, h
  <2>2. m \in DOMAIN new /\ new[m].kind = "normal" /\ new[m].state = "published" /\ new[m].steps = rows[m].steps
    BY <2>1 DEF RowsGrow
  <2>. QED  BY <1>1, <2>1, <2>2
<1>. QED  BY <1>2 DEF GroupFits

LEMMA GroupSame ==
  ASSUME NEW rows, NEW x, NEW y, y.group = x.group, y.route # 0,
         Home(rows, y.route) = Home(rows, x.route), GroupFits(rows, x)
  PROVE  GroupFits(rows, y)
BY SMTT(30) DEF GroupFits

\* A lot that nobody changes stays as it should be, whatever is written, as long
\* as what is drawn on it is there and its rework is not published.
LEMMA LotGrows ==
  ASSUME NEW rows, IsTable(rows), NEW new, IsTable(new), Len(rows) <= Len(new), RowsGrow(rows, new), Returns(rows),
         NEW lots, NEW made, NEW l, made[l] = lots[l],
         LotFits(rows, lots, l), Given(made, l) <= lots[l].q,
         lots[l].rework # 0 => /\ new[lots[l].rework].state = rows[lots[l].rework].state
                               /\ rows[lots[l].rework].state = "draft" =>
                                    \A c \in DOMAIN made : ~Draws(made[c], l)
  PROVE  LotFits(new, made, l)
<1> DEFINE x == lots[l]
<1>1. /\ DOMAIN rows = 1..Len(rows) /\ DOMAIN new = 1..Len(new) /\ Len(rows) \in Nat /\ Len(new) \in Nat
  BY TableShape
<1>2. x.route \in 0..Len(rows) /\ x.rework \in 0..Len(rows)
  BY DEF LotFits
<1>3. x.route \in 0..Len(new) /\ x.rework \in 0..Len(new)
  BY <1>1, <1>2
<1>4. x.route # 0 => CursorFits(new, x)
  <2>. SUFFICES ASSUME x.route # 0 PROVE CursorFits(new, x)
    OBVIOUS
  <2>1. CursorFits(rows, x) /\ x.route \in DOMAIN rows
    BY <1>1, <1>2 DEF LotFits
  <2> HIDE DEF x
  <2>. QED  BY <2>1, CursorGrows
<1>5. x.rework # 0 => ReworkFits(new, made, l)
  <2>. SUFFICES ASSUME x.rework # 0 PROVE ReworkFits(new, made, l)
    OBVIOUS
  <2>1. ReworkFits(rows, lots, l) /\ x.rework \in DOMAIN rows
    BY <1>1, <1>2 DEF LotFits
  <2>4. x.route # 0
    BY <2>1 DEF ReworkFits
  <2>2. x.route # 0 /\ x.route \in DOMAIN rows
    BY <1>1, <1>2, <2>4
  <2>3. /\ new[x.rework].kind = rows[x.rework].kind /\ new[x.rework].source = rows[x.rework].source
        /\ new[x.rework].state = rows[x.rework].state
        /\ Place(new[x.rework].resume) = Place(rows[x.rework].resume)
        /\ new[x.route].kind = rows[x.route].kind
    BY <2>1, <2>2 DEF RowsGrow
  <2>. QED  BY <2>1, <2>3 DEF ReworkFits
<1>6. x.shared => GroupFits(new, x)
  <2>. SUFFICES ASSUME x.shared PROVE GroupFits(new, x)
    OBVIOUS
  <2>1. GroupFits(rows, x)
    BY DEF LotFits
  <2>4. x.route # 0
    <3> HIDE DEF x
    <3>. QED  BY <2>1 DEF GroupFits
  <2>2. x.route # 0 /\ x.route \in DOMAIN rows
    BY <1>1, <1>2, <2>4
  <2>3. rows[x.route].state = "published"
    BY <2>2 DEF LotFits, CursorFits
  <2> HIDE DEF x
  <2>. QED  BY <2>1, <2>2, <2>3, GroupGrows
<1>. QED  BY <1>3, <1>4, <1>5, <1>6 DEF LotFits

-----------------------------------------------------------------------------
(* Lots that are added and changed.                                         *)

AllFit(rows, lots) == \A l \in DOMAIN lots : LotFits(rows, lots, l)

\* What is asked of a lot but for what is drawn on it.
Standing(rows, x, n) ==
    /\ DOMAIN x = DOMAIN NewLot(NoSerial, 0, 1) /\ x.shared \in BOOLEAN
    /\ x.status \in {"pending", "received", "gone", "voided"}
    /\ x.source \in 0..(n - 1) /\ x.team \in {Warehouse, Outside} \union Production
    /\ x.q \in Nat \ {0}
    /\ x.route \in 0..Len(rows) /\ x.rework \in 0..Len(rows)
    /\ x.route # 0 => CursorFits(rows, x)
    /\ x.rework # 0 =>
         /\ x.route # 0 /\ rows[x.rework].kind = "rework"
         /\ rows[x.rework].state = "published" => x.route = x.rework
         /\ rows[x.rework].state = "draft" =>
              /\ rows[x.route].kind = "normal" /\ rows[x.rework].source = n
              /\ Place(rows[x.rework].resume) = Place(x) /\ x.waiting
    /\ x.shared => GroupFits(rows, x)

IsPending(rows, x) == x.rework # 0 /\ rows[x.rework].state = "draft"

LEMMA LotFitsIs ==
  ASSUME NEW rows, NEW lots, NEW l
  PROVE  LotFits(rows, lots, l) <=>
           /\ Standing(rows, lots[l], l)
           /\ Given(lots, l) <= lots[l].q
           /\ IsPending(rows, lots[l]) => \A c \in DOMAIN lots : ~Draws(lots[c], l)
BY DEF LotFits, Standing, ReworkFits, IsPending

LEMMA LotsWeigh ==
  ASSUME NEW rows, NEW lots, AllFit(rows, lots)
  PROVE  Weighs(lots)
BY DEF AllFit, LotFits, Weighs

LEMMA RowsGrowSelf == ASSUME NEW rows PROVE RowsGrow(rows, rows)
BY DEF RowsGrow

\* Rows are written, and the lots are as they were.
LEMMA LotsOverRows ==
  ASSUME NEW rows, IsTable(rows), NEW new, IsTable(new), Len(rows) <= Len(new), RowsGrow(rows, new), Returns(rows),
         NEW lots, AllFit(rows, lots),
         \A l \in DOMAIN lots : lots[l].rework # 0 =>
           new[lots[l].rework].state = rows[lots[l].rework].state
  PROVE  AllFit(new, lots)
<1>. SUFFICES ASSUME NEW l \in DOMAIN lots PROVE LotFits(new, lots, l)
  BY DEF AllFit
<1>1. LotFits(rows, lots, l)
  BY DEF AllFit
<1>2. Given(lots, l) <= lots[l].q
  BY <1>1, LotFitsIs
<1>3. lots[l].rework # 0 /\ rows[lots[l].rework].state = "draft" =>
        \A c \in DOMAIN lots : ~Draws(lots[c], l)
  BY <1>1, LotFitsIs DEF IsPending
<1>. QED  BY <1>1, <1>2, <1>3, LotGrows

LEMMA LotAdded ==
  ASSUME NEW rows, IsTable(rows), NEW lots, IsTable(lots), AllFit(rows, lots),
         NEW x, Standing(rows, x, Len(lots) + 1),
         x.source # 0 => /\ x.q <= lots[x.source].q - Given(lots, x.source)
                         /\ ~IsPending(rows, lots[x.source])
  PROVE  /\ IsTable(Append(lots, x)) /\ AllFit(rows, Append(lots, x))
         /\ LotsGrow(lots, Append(lots, x))
<1> DEFINE new == Append(lots, x)
           n == Len(lots)
<1>1. /\ IsTable(new) /\ Len(new) = n + 1 /\ DOMAIN new = 1 .. (n + 1)
      /\ n \in Nat /\ DOMAIN lots = 1 .. n
      /\ \A k \in DOMAIN lots : new[k] = lots[k]
      /\ new[n + 1] = x
  BY TableShape, TableAppend
<1>2. Weighs(lots) /\ x.q \in Nat /\ x.source \in 0..n
  BY <1>1, LotsWeigh DEF Standing
<1>3. /\ Weighs(new)
      /\ \A l : Given(new, l) = Given(lots, l) + When(Draws(x, l), x.q)
  BY <1>2, GivenAppend
<1> HIDE DEF new
<1>4. LotsGrow(lots, new)
  BY <1>1 DEF LotsGrow
<1>5. ASSUME NEW l \in DOMAIN lots PROVE LotFits(rows, new, l)
  <2>1. LotFits(rows, lots, l)
    BY DEF AllFit
  <2>2. Given(lots, l) <= lots[l].q /\ lots[l].q \in Nat /\ Given(lots, l) \in Nat
    BY <1>2, <2>1, LotFitsIs, GivenNat DEF Weighs
  <2>3. Draws(x, l) => /\ x.q <= lots[l].q - Given(lots, l) /\ ~IsPending(rows, lots[l])
    <3>1. l # 0
      BY <1>1
    <3>. QED  BY <3>1 DEF Draws
  <2>4. Given(new, l) <= lots[l].q
    <3>1. CASE Draws(x, l)
      <4>1. Given(new, l) = Given(lots, l) + x.q
        BY <1>3, <3>1 DEF When
      <4>. QED  BY <1>2, <2>2, <2>3, <3>1, <4>1
    <3>2. CASE ~Draws(x, l)
      <4>1. Given(new, l) = Given(lots, l) + 0
        BY <1>3, <3>2 DEF When
      <4>. QED  BY <2>2, <4>1
    <3>. QED  BY <3>1, <3>2
  <2>5. IsPending(rows, lots[l]) => \A c \in DOMAIN new : ~Draws(new[c], l)
    <3>. SUFFICES ASSUME IsPending(rows, lots[l]), NEW c \in DOMAIN new PROVE ~Draws(new[c], l)
      OBVIOUS
    <3>1. CASE c = n + 1
      BY <1>1, <2>3, <3>1
    <3>2. CASE c # n + 1
      <4>1. c \in DOMAIN lots
        BY <1>1, <3>2
      <4>2. ~Draws(lots[c], l)
        BY <2>1, <4>1, LotFitsIs
      <4>. QED  BY <1>1, <4>1, <4>2
    <3>. QED  BY <3>1, <3>2
  <2>6. Standing(rows, new[l], l) /\ new[l] = lots[l]
    BY <1>1, <2>1, LotFitsIs
  <2>. QED  BY <2>4, <2>5, <2>6, LotFitsIs
<1>6. LotFits(rows, new, n + 1)
  <2>1. \A c \in DOMAIN new : ~Draws(new[c], n + 1)
    <3>. SUFFICES ASSUME NEW c \in DOMAIN new PROVE new[c].source # n + 1
      BY DEF Draws
    <3>1. CASE c = n + 1
      BY <1>1, <1>2, <3>1
    <3>2. CASE c # n + 1
      <4>1. c \in DOMAIN lots
        BY <1>1, <3>2
      <4>2. lots[c].source \in 0..(c - 1)
        BY <4>1 DEF AllFit, LotFits
      <4>. QED  BY <1>1, <4>1, <4>2
    <3>. QED  BY <3>1, <3>2
  <2>2. Given(new, n + 1) = 0
    BY <1>1, <1>3, <2>1, GivenNone
  <2>. QED  BY <1>1, <1>2, <2>1, <2>2, LotFitsIs
<1>7. AllFit(rows, new)
  <2>1. \A l \in DOMAIN new : l \in DOMAIN lots \/ l = n + 1
    BY <1>1
  <2>. QED  BY <1>5, <1>6, <2>1 DEF AllFit
<1>. QED  BY <1>1, <1>4, <1>7 DEF new

\* One lot is changed, maybe with the row of its rework: it keeps its pieces, or
\* is voided.
LEMMA LotChanged ==
  ASSUME NEW rows, IsTable(rows), NEW new, IsTable(new), Len(rows) <= Len(new), RowsGrow(rows, new), Returns(rows),
         NEW lots, IsTable(lots), AllFit(rows, lots),
         NEW k \in DOMAIN lots, NEW y, Standing(new, y, k),
         y.source = lots[k].source, y.q = lots[k].q, y.serial = lots[k].serial, y.shared = lots[k].shared,
         y.status = lots[k].status \/ lots[k].status # "voided",
         IsPending(new, y) => IsPending(rows, lots[k]),
         \A l \in DOMAIN lots : l # k /\ lots[l].rework # 0 =>
           new[lots[l].rework].state = rows[lots[l].rework].state
  PROVE  /\ IsTable([lots EXCEPT ![k] = y]) /\ AllFit(new, [lots EXCEPT ![k] = y])
         /\ LotsGrow(lots, [lots EXCEPT ![k] = y])
<1> DEFINE made == [lots EXCEPT ![k] = y]
           n == Len(lots)
<1>1. /\ IsTable(made) /\ Len(made) = n /\ DOMAIN made = DOMAIN lots
      /\ n \in Nat /\ DOMAIN lots = 1 .. n
      /\ \A i \in DOMAIN lots : made[i] = IF i = k THEN y ELSE lots[i]
  BY TableShape, TableChange
<1>2. \A l : Draws(y, l) => Draws(lots[k], l)
  BY DEF Draws
<1>3. Weighs(lots)
  BY LotsWeigh
<1>4. \A l : Given(made, l) <= Given(lots, l)
  BY <1>2, <1>3, GivenChange
<1> HIDE DEF made
<1>5. LotsGrow(lots, made)
  BY <1>1 DEF LotsGrow
<1>6. Weighs(made)
  BY <1>1, <1>3 DEF Weighs
<1>7. ASSUME NEW l \in DOMAIN lots
      PROVE  /\ Given(made, l) <= lots[l].q
             /\ IsPending(rows, lots[l]) => \A c \in DOMAIN made : ~Draws(made[c], l)
  <2>1. LotFits(rows, lots, l)
    BY DEF AllFit
  <2>2. Given(lots, l) <= lots[l].q /\ lots[l].q \in Nat /\ Given(lots, l) \in Nat /\ Given(made, l) \in Nat
    BY <1>1, <1>3, <1>6, <2>1, LotFitsIs, GivenNat DEF Weighs
  <2>3. Given(made, l) <= Given(lots, l)
    BY <1>4
  <2>4. IsPending(rows, lots[l]) => \A c \in DOMAIN lots : ~Draws(lots[c], l)
    BY <2>1, LotFitsIs
  <2>5. \A c \in DOMAIN made : Draws(made[c], l) => Draws(lots[c], l)
    BY <1>1, <1>2
  <2>. QED  BY <1>1, <2>2, <2>3, <2>4, <2>5
<1>8. ASSUME NEW l \in DOMAIN lots, l # k PROVE LotFits(new, made, l)
  <2>1. LotFits(rows, lots, l) /\ made[l] = lots[l]
    BY <1>1, <1>8 DEF AllFit
  <2>2. lots[l].rework # 0 => /\ new[lots[l].rework].state = rows[lots[l].rework].state
                              /\ rows[lots[l].rework].state = "draft" =>
                                   \A c \in DOMAIN made : ~Draws(made[c], l)
    BY <1>7, <1>8 DEF IsPending
  <2>. QED  BY <1>7, <2>1, <2>2, LotGrows
<1>9. LotFits(new, made, k)
  <2>1. Given(made, k) <= y.q
    BY <1>7
  <2>2. IsPending(new, y) => \A c \in DOMAIN made : ~Draws(made[c], k)
    BY <1>7
  <2>3. made[k] = y
    BY <1>1
  <2>. QED  BY <2>1, <2>2, <2>3, LotFitsIs
<1>10. AllFit(new, made)
  BY <1>1, <1>8, <1>9 DEF AllFit
<1>. QED  BY <1>1, <1>5, <1>10 DEF made

-----------------------------------------------------------------------------
(* Steps and moves.                                                         *)

\* The tables of one state fit.
Settled ==
    /\ IsTable(route) /\ IsTable(lot)
    /\ \A r \in DOMAIN route : RowFits(route, lot, r)
    /\ AllFit(route, lot)

LEMMA SettledReturns == ASSUME Settled PROVE Returns(route)
BY DEF Settled, Returns, RowFits

\* The step is meant for the serial.
IsFor(r, i, s, shared) ==
    /\ i \in DOMAIN Steps(r)
    /\ Steps(r)[i].members # {} => SerialIn(route[r], s) \in Steps(r)[i].members /\ ~shared

\* Material in a rework: its step to go back to is meant for it.
Returning(r, s, shared) ==
    IF shared THEN ReturnStep(route, route[r]).members = {} ELSE s = route[r].serials[1]

LEMMA RouteSteps ==
  ASSUME Settled, NEW r \in DOMAIN route
  PROVE  /\ Len(Steps(r)) \in Nat /\ DOMAIN Steps(r) = 1 .. Len(Steps(r))
         /\ Published(r) =>
              /\ Len(Steps(r)) > 0
              /\ \A i \in DOMAIN Steps(r) : /\ Steps(r)[i].team \in {Warehouse} \union Production
                                            /\ Steps(r)[i].members \subseteq Range(route[r].serials)
              /\ route[r].kind = "normal" => Steps(r)[1].team = Warehouse /\ Steps(r)[1].members = {}
<1>1. IsTable(Steps(r)) /\ (Published(r) => ValidSteps(route[r]))
  BY DEF Settled, RowFits, Steps, Published
<1>2. Len(Steps(r)) \in Nat /\ DOMAIN Steps(r) = 1 .. Len(Steps(r))
  BY <1>1, TableShape
<1>3. ASSUME Published(r)
      PROVE  /\ Len(Steps(r)) > 0
             /\ \A i \in 1 .. Len(Steps(r)) : ValidStep(route[r], Steps(r)[i])
             /\ route[r].kind = "normal" => Steps(r)[1].team = Warehouse /\ Steps(r)[1].members = {}
  BY <1>1, <1>3 DEF ValidSteps, Steps
<1>. QED  BY <1>2, <1>3 DEF ValidStep

LEMMA NextStepFits ==
  ASSUME Settled, NEW r \in DOMAIN route, NEW i \in DOMAIN Steps(r), NEW s, NEW shared \in BOOLEAN
  PROVE  LET n == NextIndex(r, i, s, shared) IN
         n \in {0, Unclear} \/ (n > i /\ IsFor(r, n, s, shared))
<1> DEFINE n == NextIndex(r, i, s, shared)
           k == Len(Steps(r))
<1>1. k \in Nat /\ DOMAIN Steps(r) = 1 .. k /\ i \in 1 .. k
  BY RouteSteps
<1>2. CASE shared
  <2>1. n = IF i = k THEN 0 ELSE IF Steps(r)[i + 1].members = {} THEN i + 1 ELSE Unclear
    BY <1>2 DEF NextIndex, NextIn, Steps
  <2>2. i # k => i + 1 \in 1 .. k /\ i + 1 > i
    BY <1>1
  <2>. QED  BY <1>1, <2>1, <2>2 DEF IsFor
<1>3. CASE ~shared
  <2> DEFINE e == SerialIn(route[r], s)
             later == {j \in PathOf(r, e) : j > i}
  <2>1. n = IF e = NoSerial THEN Unclear ELSE First(later)
    BY <1>3 DEF NextIndex, NextIn, PathOf
  <2>2. CASE later = {}
    BY <2>1, <2>2 DEF First
  <2>3. CASE later # {} /\ e # NoSerial
    <3>1. \A j \in later : j \in Nat
      BY <1>1 DEF PathOf, PathIn, Steps
    <3>2. First(later) \in later
      BY <2>3, <3>1, FirstIsThere
    <3>3. \A j \in later : j > i /\ IsFor(r, j, s, shared)
      BY <1>3 DEF PathOf, PathIn, Steps, IsFor
    <3>. QED  BY <2>1, <2>3, <3>2, <3>3
  <2>. QED  BY <2>1, <2>2, <2>3
<1>. QED  BY <1>2, <1>3

\* A lot on a route, and the step the material is at.
LEMMA LotOnRoute ==
  ASSUME Settled, NEW l \in DOMAIN lot, lot[l].route # 0
  PROVE  LET x == lot[l] IN
         /\ x.route \in DOMAIN route /\ Published(x.route)
         /\ x.shared \in BOOLEAN
         /\ IsFor(x.route, x.index, x.serial, x.shared)
         /\ x.status \in {"pending", "received"} =>
              \/ Steps(x.route)[x.index].team = x.team
              \/ route[x.route].kind = "rework" /\ x.index = 1 /\ ~x.complete
         /\ route[x.route].kind = "rework" =>
              x.rework = x.route /\ Returning(x.route, x.serial, x.shared)
<1>1. LotFits(route, lot, l)
  BY DEF Settled, AllFit
<1>2. lot[l].route \in DOMAIN route
  BY <1>1, TableShape DEF Settled, LotFits
<1>3. CursorFits(route, lot[l])
  BY <1>1 DEF LotFits
<1>4. lot[l].shared \in BOOLEAN
  BY <1>1 DEF LotFits
<1>. QED  BY <1>2, <1>3, <1>4 DEF CursorFits, IsFor, Steps, Published, Returning

LEMMA StepAtFits ==
  ASSUME Settled, NEW l \in DOMAIN lot, lot[l].route # 0, StepAt(l) # Unclear
  PROVE  IsFor(lot[l].route, StepAt(l), lot[l].serial, lot[l].shared)
<1> DEFINE x == lot[l]
           next == NextIndex(x.route, x.index, x.serial, x.shared)
<1>1. x.route \in DOMAIN route /\ x.shared \in BOOLEAN /\ IsFor(x.route, x.index, x.serial, x.shared)
  BY LotOnRoute
<1>2. next \in {0, Unclear} \/ (next > x.index /\ IsFor(x.route, next, x.serial, x.shared))
  BY <1>1, NextStepFits DEF IsFor
<1>3. StepAt(l) = IF ~x.complete THEN x.index
                  ELSE IF next > 0 /\ Steps(x.route)[next].team = x.team THEN next ELSE Unclear
  BY DEF StepAt, NextStep
<1> HIDE DEF next
<1>. QED  BY <1>1, <1>2, <1>3 DEF Unclear

\* A move leads to a step of a published route that is meant for the material.
MoveFits(x, move) ==
    /\ move.route \in DOMAIN route /\ Published(move.route)
    /\ IsFor(move.route, move.index, x.serial, x.shared)
    /\ move.target = Outside \/ move.target = Steps(move.route)[move.index].team
    /\ move.rework = IF route[move.route].kind = "rework" THEN move.route ELSE 0
    /\ move.rework # 0 => Returning(move.route, x.serial, x.shared)
    /\ x.shared => Home(route, move.route) = Home(route, x.route)

LEMMA RouteMovesFit ==
  ASSUME Settled, NEW x, x.route \in DOMAIN route, Published(x.route), route[x.route].kind = "normal",
         IsFor(x.route, x.index, x.serial, x.shared), x.shared \in BOOLEAN, NEW move \in RouteMoves(x)
  PROVE  MoveFits(x, move)
<1> DEFINE r == x.route
           i == NextIndex(r, x.index, x.serial, x.shared)
<1>1. i \in {0, Unclear} \/ (i > x.index /\ IsFor(r, i, x.serial, x.shared))
  BY NextStepFits DEF IsFor
<1>2. \/ move = Move(Steps(r)[x.index].team, r, x.index, x.complete, 0)
      \/ move = Move(Outside, r, x.index, TRUE, 0)
      \/ i \notin {0, Unclear} /\ move = Move(Steps(r)[i].team, r, i, Steps(r)[i].team = Warehouse, 0)
  BY DEF RouteMoves
<1> HIDE DEF i
<1>3. CASE move = Move(Steps(r)[x.index].team, r, x.index, x.complete, 0)
  BY <1>3 DEF MoveFits, Move
<1>4. CASE move = Move(Outside, r, x.index, TRUE, 0)
  BY <1>4 DEF MoveFits, Move
<1>5. CASE i \notin {0, Unclear} /\ move = Move(Steps(r)[i].team, r, i, Steps(r)[i].team = Warehouse, 0)
  BY <1>1, <1>5 DEF MoveFits, Move
<1>. QED  BY <1>2, <1>3, <1>4, <1>5

LEMMA ReworkReturns ==
  ASSUME Settled, NEW r \in DOMAIN route, Published(r), route[r].kind = "rework"
  PROVE  LET back == route[r].resume IN
         /\ back.route \in DOMAIN route /\ Published(back.route) /\ route[back.route].kind = "normal"
         /\ back.team = Steps(back.route)[back.index].team
         /\ IsFor(back.route, back.index, route[r].serials[1], FALSE)
<1>1. ReturnFits(route, route[r]) /\ route[r].state = "published"
  BY DEF Settled, RowFits, Published
<1>. QED  BY <1>1 DEF ReturnFits, Published, IsFor, Steps

LEMMA ReworkReturnsTo ==
  ASSUME Settled, NEW r \in DOMAIN route, Published(r), route[r].kind = "rework",
         NEW s, NEW shared \in BOOLEAN, Returning(r, s, shared)
  PROVE  LET back == route[r].resume IN
         IsFor(back.route, back.index, s, shared) /\ Home(route, back.route) = Home(route, r)
<1>1. /\ IsFor(route[r].resume.route, route[r].resume.index, route[r].serials[1], FALSE)
      /\ route[route[r].resume.route].kind = "normal"
  BY ReworkReturns
<1>2. IsFor(route[r].resume.route, route[r].resume.index, s, shared)
  BY <1>1 DEF IsFor, Returning, ReturnStep, Steps
<1>. QED  BY <1>1, <1>2 DEF Home

LEMMA ReworkMovesFit ==
  ASSUME Settled, NEW l \in DOMAIN lot, Active(l), NEW move \in ReworkMoves(l)
  PROVE  MoveFits(lot[l], move)
<1> DEFINE x == lot[l]
           r == x.route
           i == IF Here(l).team = x.team THEN NextStep(l) ELSE x.index
<1>1. /\ r \in DOMAIN route /\ Published(r) /\ route[r].kind = "rework"
      /\ IsFor(r, x.index, x.serial, x.shared)
      /\ Returning(r, x.serial, x.shared) /\ x.shared \in BOOLEAN
  BY LotOnRoute DEF Active
<1>2. NextStep(l) \in {0, Unclear} \/ IsFor(r, NextStep(l), x.serial, x.shared)
  BY <1>1, NextStepFits DEF NextStep, IsFor
<1>3. i \in {0, Unclear} \/ IsFor(r, i, x.serial, x.shared)
  BY <1>1, <1>2
<1>4. \/ i = 0 /\ move = ResumeFields(r, route[r].resume.team)
      \/ i \notin {0, Unclear} /\ move = Move(Steps(r)[i].team, r, i, FALSE, r)
  BY DEF ReworkMoves
<1> HIDE DEF i
<1>5. CASE i = 0 /\ move = ResumeFields(r, route[r].resume.team)
  <2> DEFINE back == route[r].resume
  <2>1. /\ back.route \in DOMAIN route /\ Published(back.route) /\ route[back.route].kind = "normal"
        /\ back.team = Steps(back.route)[back.index].team
        /\ IsFor(back.route, back.index, x.serial, x.shared)
        /\ Home(route, back.route) = Home(route, r)
    BY <1>1, ReworkReturns, ReworkReturnsTo
  <2>2. /\ move.target = back.team /\ move.route = back.route /\ move.index = back.index /\ move.rework = 0
    BY <1>5 DEF ResumeFields, Move
  <2>. QED  BY <1>1, <2>1, <2>2 DEF MoveFits
<1>6. CASE i \notin {0, Unclear} /\ move = Move(Steps(r)[i].team, r, i, FALSE, r)
  <2>1. /\ move.target = Steps(r)[i].team /\ move.route = r /\ move.index = i /\ move.rework = r
    BY <1>6 DEF Move
  <2>. QED  BY <1>1, <1>3, <1>6, <2>1 DEF MoveFits
<1>. QED  BY <1>4, <1>5, <1>6

LEMMA MovesFit ==
  ASSUME Settled, NEW l \in DOMAIN lot, NEW move \in Moves(l)
  PROVE  MoveFits(lot[l], move) /\ lot[l].route # 0 /\ ~Pending(l) /\ lot[l].role # "scrap"
<1>1. lot[l].route # 0 /\ ~Pending(l) /\ lot[l].role # "scrap"
  BY DEF Moves
<1>2. CASE Active(l)
  <2>1. move \in ReworkMoves(l)
    BY <1>1, <1>2 DEF Moves
  <2>2. MoveFits(lot[l], move)
    BY <1>2, <2>1, ReworkMovesFit
  <2>. QED  BY <1>1, <2>2
<1>3. CASE ~Active(l)
  <2>1. /\ lot[l].route \in DOMAIN route /\ Published(lot[l].route) /\ lot[l].shared \in BOOLEAN
        /\ IsFor(lot[l].route, lot[l].index, lot[l].serial, lot[l].shared)
    BY <1>1, LotOnRoute
  <2>2. route[lot[l].route].kind = "normal"
    BY <1>1, <1>3, <2>1 DEF Settled, RowFits, Active
  <2>3. move \in RouteMoves(lot[l])
    BY <1>1, <1>3 DEF Moves
  <2>4. MoveFits(lot[l], move)
    BY <2>1, <2>2, <2>3, RouteMovesFit
  <2>. QED  BY <1>1, <2>4
<1>. QED  BY <1>2, <1>3

-----------------------------------------------------------------------------
(* The root of a family.                                                    *)

\* Every row's parent is an earlier row, or none.
Parents(rows) == \A r \in DOMAIN rows : rows[r].parent \in 0..(r - 1)

\* One unfolding of the recursion of RootIn.
Climbed(rows, n, g) == [s \in 1 .. n |-> IF rows[s].parent = 0 THEN s ELSE g[rows[s].parent]]

LEMMA RootsExist ==
  ASSUME NEW rows, IsTable(rows), Parents(rows)
  PROVE  \E g : g = Climbed(rows, Len(rows), g)
<1> DEFINE N == Len(rows)
           S == {n \in Nat : n <= N => \E g : g = Climbed(rows, n, g)}
<1>1. N \in Nat /\ DOMAIN rows = 1 .. N
  BY TableShape
<1>2. \A r \in 1 .. N : rows[r].parent \in Nat /\ rows[r].parent < r
  BY <1>1 DEF Parents
<1>3. 0 \in S
  <2>1. DOMAIN Climbed(rows, 0, <<>>) = {}
    BY DEF Climbed
  <2>2. Climbed(rows, 0, <<>>) = Climbed(rows, 0, Climbed(rows, 0, <<>>))
    BY DEF Climbed
  <2>. QED  BY <2>2
<1>4. ASSUME NEW n \in Nat, n \in S PROVE n + 1 \in S
  <2>1. SUFFICES ASSUME n + 1 <= N PROVE \E h : h = Climbed(rows, n + 1, h)
    OBVIOUS
  <2>2. PICK g : g = Climbed(rows, n, g)
    BY <1>1, <1>4, <2>1
  <2>3. \A s \in 1 .. n : g[s] = IF rows[s].parent = 0 THEN s ELSE g[rows[s].parent]
    BY <2>2 DEF Climbed
  <2> DEFINE p == rows[n + 1].parent
             h == [s \in 1 .. (n + 1) |-> IF s = n + 1 THEN IF p = 0 THEN s ELSE g[p] ELSE g[s]]
  <2>4. p \in Nat /\ p < n + 1
    BY <1>1, <1>2, <2>1
  <2>5. ASSUME NEW s \in 1 .. (n + 1)
        PROVE  h[s] = IF rows[s].parent = 0 THEN s ELSE h[rows[s].parent]
    <3>1. rows[s].parent \in Nat /\ rows[s].parent < s
      BY <1>1, <1>2, <2>1
    <3>2. CASE s = n + 1
      <4>1. p # 0 => h[p] = g[p]
        BY <2>4
      <4>. QED  BY <3>2, <4>1
    <3>3. CASE s # n + 1
      <4>1. s \in 1 .. n
        BY <3>3
      <4>2. h[s] = IF rows[s].parent = 0 THEN s ELSE g[rows[s].parent]
        BY <2>3, <3>3, <4>1
      <4>3. rows[s].parent # 0 => h[rows[s].parent] = g[rows[s].parent]
        BY <3>1, <4>1
      <4>. QED  BY <4>2, <4>3
    <3>. QED  BY <3>2, <3>3
  <2>6. h = [s \in 1 .. (n + 1) |-> h[s]]
    OBVIOUS
  <2> HIDE DEF h
  <2>7. h = Climbed(rows, n + 1, h)
    BY <2>5, <2>6, Zenon DEF Climbed
  <2>. QED  BY <2>7
<1> HIDE DEF S
<1>5. S = Nat
  <2>1. S \in SUBSET Nat
    BY DEF S
  <2>. QED  BY <1>3, <1>4, <2>1, SetInduction
<1>. QED  BY <1>1, <1>5 DEF S

LEMMA RootUnfolds ==
  ASSUME NEW rows, IsTable(rows), Parents(rows), NEW r \in DOMAIN rows
  PROVE  RootIn(rows, r) = IF rows[r].parent = 0 THEN r ELSE RootIn(rows, rows[r].parent)
<1> DEFINE R == CHOOSE g : g = [s \in DOMAIN rows |-> IF rows[s].parent = 0 THEN s ELSE g[rows[s].parent]]
<1>1. DOMAIN rows = 1 .. Len(rows)
  BY TableShape
<1>2. \E g : g = [s \in DOMAIN rows |-> IF rows[s].parent = 0 THEN s ELSE g[rows[s].parent]]
  BY <1>1, RootsExist DEF Climbed
<1>3. R = [s \in DOMAIN rows |-> IF rows[s].parent = 0 THEN s ELSE R[rows[s].parent]]
  BY <1>2
<1>4. \A s : RootIn(rows, s) = R[s]
  BY DEF RootIn
<1> HIDE DEF R
<1>. QED  BY <1>3, <1>4

\* The root is an earlier row, or the row itself, and has no parent.
LEMMA RootIsThere ==
  ASSUME NEW rows, IsTable(rows), Parents(rows), NEW r \in DOMAIN rows
  PROVE  RootIn(rows, r) \in DOMAIN rows /\ rows[RootIn(rows, r)].parent = 0
<1> DEFINE Good(s) == RootIn(rows, s) \in DOMAIN rows /\ rows[RootIn(rows, s)].parent = 0
           S == {n \in Nat : \A s \in DOMAIN rows : s <= n => Good(s)}
<1>1. DOMAIN rows = 1 .. Len(rows) /\ Len(rows) \in Nat
  BY TableShape
<1>2. 0 \in S
  BY <1>1
<1>3. ASSUME NEW n \in Nat, n \in S PROVE n + 1 \in S
  <2>. SUFFICES ASSUME NEW s \in DOMAIN rows, s <= n + 1 PROVE Good(s)
    OBVIOUS
  <2>1. rows[s].parent \in Nat /\ rows[s].parent < s /\ s \in Nat /\ s <= Len(rows)
    BY <1>1 DEF Parents
  <2>2. RootIn(rows, s) = IF rows[s].parent = 0 THEN s ELSE RootIn(rows, rows[s].parent)
    BY RootUnfolds
  <2>3. rows[s].parent # 0 => rows[s].parent \in DOMAIN rows /\ rows[s].parent <= n
    BY <1>1, <2>1
  <2>4. rows[s].parent # 0 => Good(rows[s].parent)
    BY <1>3, <2>3
  <2>. QED  BY <2>2, <2>4
<1> HIDE DEF S
<1>4. S = Nat
  <2>1. S \in SUBSET Nat
    BY DEF S
  <2>. QED  BY <1>2, <1>3, <2>1, SetInduction
<1>5. r \in S
  BY <1>1, <1>4
<1>. QED  BY <1>5 DEF S

\* Rows that are added or written leave the families as they are.
LEMMA RootStays ==
  ASSUME NEW rows, IsTable(rows), Parents(rows), NEW new, IsTable(new), Parents(new),
         \A r \in DOMAIN rows : r \in DOMAIN new /\ new[r].parent = rows[r].parent,
         NEW r \in DOMAIN rows
  PROVE  RootIn(new, r) = RootIn(rows, r)
<1> DEFINE Good(s) == RootIn(new, s) = RootIn(rows, s)
           S == {n \in Nat : \A s \in DOMAIN rows : s <= n => Good(s)}
<1>1. DOMAIN rows = 1 .. Len(rows) /\ Len(rows) \in Nat
  BY TableShape
<1>2. 0 \in S
  BY <1>1
<1>3. ASSUME NEW n \in Nat, n \in S PROVE n + 1 \in S
  <2>. SUFFICES ASSUME NEW s \in DOMAIN rows, s <= n + 1 PROVE Good(s)
    OBVIOUS
  <2>1. rows[s].parent \in Nat /\ rows[s].parent < s /\ s \in Nat /\ s <= Len(rows)
    BY <1>1 DEF Parents
  <2>2. RootIn(rows, s) = IF rows[s].parent = 0 THEN s ELSE RootIn(rows, rows[s].parent)
    BY RootUnfolds
  <2>3. RootIn(new, s) = IF rows[s].parent = 0 THEN s ELSE RootIn(new, rows[s].parent)
    BY RootUnfolds
  <2>4. rows[s].parent # 0 => rows[s].parent \in DOMAIN rows /\ rows[s].parent <= n
    BY <1>1, <2>1
  <2>5. rows[s].parent # 0 => Good(rows[s].parent)
    BY <1>3, <2>4
  <2>. QED  BY <2>2, <2>3, <2>5
<1> HIDE DEF S
<1>4. S = Nat
  <2>1. S \in SUBSET Nat
    BY DEF S
  <2>. QED  BY <1>2, <1>3, <2>1, SetInduction
<1>5. r \in S
  BY <1>1, <1>4
<1>. QED  BY <1>5 DEF S

-----------------------------------------------------------------------------
(* The lots that the handlers write.                                        *)

LotColumns == DOMAIN NewLot(NoSerial, 0, 1)

\* y left l as q pieces along a move of x.
SentAlong(y, l, x, move, q) ==
    /\ DOMAIN y = LotColumns
    /\ y.source = l /\ y.q = q /\ y.serial = x.serial /\ y.shared = x.shared
    /\ y.team = move.target /\ y.status = IF move.target = Outside THEN "gone" ELSE "pending"
    /\ y.route = move.route /\ y.index = move.index /\ y.complete = move.complete
    /\ y.rework = move.rework

LEMMA SentFields ==
  ASSUME NEW x, DOMAIN x = LotColumns, NEW l, NEW move, NEW q
  PROVE  /\ SentAlong(Sent(l, x, move, q), l, x, move, q)
         /\ Sent(l, x, move, q).group = x.group
BY DEF Sent, SentAlong, LotColumns, NewLot

LEMMA SentStands ==
  ASSUME Settled, NEW n \in Nat, NEW l \in 0..(n - 1), NEW q \in Nat \ {0}, NEW x, x.shared \in BOOLEAN,
         NEW move, MoveFits(x, move), NEW y, SentAlong(y, l, x, move, q), y.shared => GroupFits(route, y)
  PROVE  Standing(route, y, n)
<1> DEFINE r == y.route
           step == Steps(r)[y.index]
<1>1. /\ r \in DOMAIN route /\ Published(r) /\ IsFor(r, y.index, y.serial, y.shared)
      /\ y.team = Outside \/ y.team = step.team
      /\ y.rework = IF route[r].kind = "rework" THEN r ELSE 0
      /\ y.rework # 0 => Returning(r, y.serial, y.shared)
  BY DEF MoveFits, SentAlong
<1>2. y.status \in {"gone", "pending"} /\ (y.status = "pending" => y.team # Outside)
  BY DEF SentAlong
<1>3. r \in 1..Len(route) /\ Len(route) \in Nat
  BY <1>1, TableShape DEF Settled
<1>4. step.team \in {Warehouse} \union Production
  BY <1>1, RouteSteps DEF IsFor
<1>5. CursorFits(route, y)
  <2>1. route[r].state = "published" /\ y.index \in DOMAIN route[r].steps
    BY <1>1 DEF IsFor, Published, Steps
  <2>2. route[r].steps[y.index].members # {} =>
          SerialIn(route[r], y.serial) \in route[r].steps[y.index].members /\ ~y.shared
    BY <1>1 DEF IsFor, Steps
  <2>3. y.status \in {"pending", "received"} => route[r].steps[y.index].team = y.team
    BY <1>1, <1>2 DEF Steps
  <2>4. route[r].kind = "rework" => y.rework = r /\ Returning(r, y.serial, y.shared)
    BY <1>1, <1>3
  <2>. QED  BY <2>1, <2>2, <2>3, <2>4 DEF CursorFits, Returning
<1>6. /\ DOMAIN y = LotColumns /\ y.shared \in BOOLEAN
      /\ y.source \in 0..(n - 1) /\ y.q \in Nat \ {0}
  BY DEF SentAlong
<1>7. y.team \in {Warehouse, Outside} \union Production
  BY <1>1, <1>4
<1>8. y.route \in 0..Len(route) /\ y.rework \in 0..Len(route) /\ y.route # 0
  BY <1>1, <1>3
<1>9. y.rework # 0 => /\ route[y.rework].kind = "rework" /\ y.route = y.rework
                      /\ route[y.rework].state = "published"
  BY <1>1 DEF Published
<1>. QED  BY <1>2, <1>5, <1>6, <1>7, <1>8, <1>9 DEF Standing, LotColumns

\* Material of the warehouse that is given a route.
LEMMA ReadyFits ==
  ASSUME Settled, NEW r \in DOMAIN route, Ready(r), NEW s, NEW shared
  PROVE  /\ IsFor(r, 1, s, shared) /\ Published(r) /\ route[r].kind = "normal"
         /\ Steps(r)[1].team = Warehouse
<1>1. Published(r) /\ route[r].kind = "normal"
  BY DEF Ready
<1>2. 1 \in DOMAIN Steps(r)
  BY <1>1, RouteSteps
<1>3. Steps(r)[1].team = Warehouse /\ Steps(r)[1].members = {}
  BY <1>1, RouteSteps
<1>. QED  BY <1>1, <1>2, <1>3 DEF IsFor

\* A lot whose rework is nobody's to wait for.
LEMMA WholeStanding ==
  ASSUME NEW rows, NEW x, NEW n, x.rework = 0,
         DOMAIN x = LotColumns, x.shared \in BOOLEAN,
         x.status \in {"pending", "received", "gone", "voided"},
         x.source \in 0..(n - 1), x.team \in {Warehouse, Outside} \union Production,
         x.q \in Nat \ {0}, x.route \in 0..Len(rows), 0 \in 0..Len(rows),
         x.route # 0 => CursorFits(rows, x), x.shared => GroupFits(rows, x)
  PROVE  Standing(rows, x, n)
BY DEF Standing, LotColumns

LEMMA ReceivedStands ==
  ASSUME Settled, NEW s, NEW r, r # 0 => r \in DOMAIN route /\ Ready(r), NEW q \in Nat \ {0}, NEW n \in Nat \ {0}
  PROVE  Standing(route, NewLot(s, r, q), n)
<1> DEFINE x == NewLot(s, r, q)
<1>1. /\ DOMAIN x = LotColumns /\ x.shared = FALSE /\ x.status = "received" /\ x.source = 0
      /\ x.team = Warehouse /\ x.q = q /\ x.route = r /\ x.rework = 0 /\ x.serial = s
      /\ r # 0 => x.index = 1
  BY DEF NewLot, LotColumns
<1> HIDE DEF x
<1>2. Len(route) \in Nat /\ DOMAIN route = 1 .. Len(route)
  BY TableShape DEF Settled
<1>3. ASSUME r # 0 PROVE CursorFits(route, x)
  <2>1. /\ IsFor(r, 1, s, FALSE) /\ Published(r) /\ route[r].kind = "normal"
        /\ Steps(r)[1].team = Warehouse
    BY <1>3, ReadyFits
  <2>. QED  BY <1>1, <1>3, <2>1 DEF CursorFits, IsFor, Published, Steps
<1>4. Standing(route, x, n)
  <2>1. r \in 0..Len(route) /\ 0 \in 0..Len(route) /\ 0 \in 0..(n - 1)
    BY <1>2
  <2>. QED  BY <1>1, <1>3, <2>1, WholeStanding
<1>. QED  BY <1>4 DEF x

LEMMA BoundStands ==
  ASSUME Settled, NEW l \in DOMAIN lot, lot[l].route = 0, lot[l].team = Warehouse,
         NEW r \in DOMAIN route, Ready(r)
  PROVE  /\ Standing(route, Bound(l, r), l)
         /\ Bound(l, r).source = lot[l].source /\ Bound(l, r).q = lot[l].q
         /\ Bound(l, r).serial = lot[l].serial /\ Bound(l, r).shared = lot[l].shared
         /\ Bound(l, r).status = lot[l].status /\ Bound(l, r).rework = 0
         /\ Bound(l, r).route = r /\ Bound(l, r).index = 1 /\ ~Bound(l, r).shared
         /\ DOMAIN Bound(l, r) = LotColumns
<1> DEFINE x == lot[l]
           y == Bound(l, r)
<1>1. LotFits(route, lot, l)
  BY DEF Settled, AllFit
<1>2. DOMAIN x = LotColumns /\ x.rework = 0 /\ x.shared = FALSE
  BY <1>1 DEF LotFits, ReworkFits, GroupFits, LotColumns
<1>3. /\ DOMAIN y = LotColumns /\ y.route = r /\ y.index = 1
      /\ y.status = x.status /\ y.source = x.source /\ y.q = x.q /\ y.team = x.team
      /\ y.serial = x.serial /\ y.shared = x.shared /\ y.rework = x.rework
  BY <1>2 DEF Bound, NewLot, LotColumns
<1> HIDE DEF y
<1>4. CursorFits(route, y)
  <2>1. /\ IsFor(r, 1, y.serial, y.shared) /\ Published(r) /\ route[r].kind = "normal"
        /\ Steps(r)[1].team = Warehouse
    BY ReadyFits
  <2>. QED  BY <1>3, <2>1 DEF CursorFits, IsFor, Published, Steps
<1>5. Standing(route, y, l)
  <2>1. Len(route) \in Nat /\ r \in 0..Len(route) /\ 0 \in 0..Len(route)
    BY TableShape DEF Settled
  <2>2. /\ x.status \in {"pending", "received", "gone", "voided"}
        /\ x.source \in 0..(l - 1) /\ x.team \in {Warehouse, Outside} \union Production
        /\ x.q \in Nat \ {0}
    BY <1>1 DEF LotFits
  <2>. QED  BY <1>2, <1>3, <1>4, <2>1, <2>2, WholeStanding
<1>. QED  BY <1>2, <1>3, <1>5 DEF y

LEMMA SettledStands ==
  ASSUME Settled, NEW l \in DOMAIN lot, lot[l].status = "pending", NEW status \in {"received", "voided"}
  PROVE  LET y == [lot[l] EXCEPT !.status = status] IN
         /\ Standing(route, y, l)
         /\ y.source = lot[l].source /\ y.q = lot[l].q /\ y.serial = lot[l].serial
         /\ y.shared = lot[l].shared /\ y.rework = lot[l].rework /\ y.status = status
<1> DEFINE x == lot[l]
           y == [x EXCEPT !.status = status]
<1>1. Standing(route, x, l)
  BY LotFitsIs DEF Settled, AllFit
<1>2. /\ DOMAIN y = LotColumns /\ y.status = status
      /\ y.source = x.source /\ y.q = x.q /\ y.team = x.team /\ y.route = x.route /\ y.index = x.index
      /\ y.serial = x.serial /\ y.shared = x.shared /\ y.rework = x.rework /\ y.group = x.group
      /\ y.complete = x.complete /\ y.waiting = x.waiting
  BY <1>1 DEF Standing, LotColumns, NewLot
<1> HIDE DEF y
<1>3. x.route # 0 => CursorFits(route, y)
  BY <1>1, <1>2 DEF Standing, CursorFits
<1>4. x.shared => GroupFits(route, y)
  <2>1. x.shared => GroupFits(route, x)
    BY <1>1 DEF Standing
  <2>2. x.shared => y.route # 0
    BY <1>2, <2>1 DEF GroupFits
  <2>. QED  BY <1>2, <2>1, <2>2, GroupSame
<1>5. Standing(route, y, l)
  BY <1>1, <1>2, <1>3, <1>4 DEF Standing, LotColumns, Place
<1>. QED  BY <1>2, <1>5 DEF y

-----------------------------------------------------------------------------
(* The lots that work writes.                                               *)

\* Where a lot that may be worked on stands.
LEMMA WorkedFits ==
  ASSUME Settled, NEW l \in DOMAIN lot, MayWork(l)
  PROVE  LET x == lot[l]
             i == StepAt(l)
         IN /\ x.route # 0 /\ x.route \in DOMAIN route /\ Published(x.route) /\ x.shared \in BOOLEAN
            /\ IsFor(x.route, i, x.serial, x.shared) /\ Steps(x.route)[i].team = x.team
            /\ x.status = "received" /\ Standing(route, x, l)
            /\ x.rework # 0 => /\ x.rework = x.route /\ route[x.rework].kind = "rework"
                               /\ route[x.rework].state = "published"
<1>1. /\ lot[l].route # 0 /\ ~Pending(l) /\ StepAt(l) # Unclear /\ lot[l].status = "received"
      /\ Steps(lot[l].route)[StepAt(l)].team = lot[l].team
  BY DEF MayWork, TeamMayWork, IsLot
<1>2. Standing(route, lot[l], l)
  BY LotFitsIs DEF Settled, AllFit
<1>3. /\ lot[l].route \in DOMAIN route /\ Published(lot[l].route) /\ lot[l].shared \in BOOLEAN
  BY <1>1, LotOnRoute
<1>4. IsFor(lot[l].route, StepAt(l), lot[l].serial, lot[l].shared)
  BY <1>1, StepAtFits
<1>5. lot[l].rework # 0 => /\ lot[l].rework = lot[l].route /\ route[lot[l].rework].kind = "rework"
                           /\ route[lot[l].rework].state = "published"
  BY <1>1, <1>2 DEF Standing, Pending, Published
<1>. QED  BY <1>1, <1>2, <1>3, <1>4, <1>5

\* A lot that stands at its step, or as its source stood, on the route it was on.
LEMMA SameRouteStands ==
  ASSUME Settled, NEW l \in DOMAIN lot, MayWork(l), NEW n \in Nat, NEW source \in 0..(n - 1),
         NEW y, DOMAIN y = LotColumns, y.status = "received", y.source = source, y.q \in Nat \ {0},
         y.team = lot[l].team, y.route = lot[l].route, y.rework = lot[l].rework,
         y.serial = lot[l].serial, y.shared = lot[l].shared, y.group = lot[l].group,
         y.index = StepAt(l) \/ (y.index = lot[l].index /\ y.complete = lot[l].complete)
  PROVE  Standing(route, y, n)
<1> DEFINE x == lot[l]
           r == x.route
<1>1. /\ r # 0 /\ r \in DOMAIN route /\ Published(r) /\ x.shared \in BOOLEAN
      /\ IsFor(r, StepAt(l), x.serial, x.shared) /\ Steps(r)[StepAt(l)].team = x.team
      /\ x.status = "received" /\ Standing(route, x, l)
      /\ x.rework # 0 => /\ x.rework = r /\ route[x.rework].kind = "rework"
                         /\ route[x.rework].state = "published"
  BY WorkedFits
<1>2. /\ IsFor(r, x.index, x.serial, x.shared)
      /\ \/ Steps(r)[x.index].team = x.team
         \/ route[r].kind = "rework" /\ x.index = 1 /\ ~x.complete
      /\ route[r].kind = "rework" => x.rework = r /\ Returning(r, x.serial, x.shared)
  BY <1>1, LotOnRoute
<1>3. /\ IsFor(r, y.index, x.serial, x.shared)
      /\ \/ Steps(r)[y.index].team = x.team
         \/ route[r].kind = "rework" /\ y.index = 1 /\ ~y.complete
  BY <1>1, <1>2
<1>4. CursorFits(route, y)
  <2>1. y.route = r /\ route[r].state = "published" /\ y.index \in DOMAIN route[r].steps
    BY <1>1, <1>3 DEF IsFor, Published, Steps
  <2>2. route[r].steps[y.index].members # {} =>
          SerialIn(route[r], y.serial) \in route[r].steps[y.index].members /\ ~y.shared
    BY <1>3 DEF IsFor, Steps
  <2>3. \/ route[r].steps[y.index].team = y.team
        \/ route[r].kind = "rework" /\ y.index = 1 /\ ~y.complete
    BY <1>3 DEF Steps
  <2>4. route[r].kind = "rework" => y.rework = r /\ Returning(r, y.serial, y.shared)
    BY <1>2
  <2>. QED  BY <2>1, <2>2, <2>3, <2>4 DEF CursorFits, Returning
<1>5. y.shared => GroupFits(route, y)
  <2>1. x.shared => GroupFits(route, x)
    BY <1>1 DEF Standing
  <2>. QED  BY <1>1, <2>1, GroupSame
<1>6. /\ y.team \in {Warehouse, Outside} \union Production
      /\ y.route \in 0..Len(route) /\ y.rework \in 0..Len(route)
  BY <1>1 DEF Standing
<1>. QED  BY <1>1, <1>4, <1>5, <1>6 DEF Standing, LotColumns

\* What a step makes of a lot stands on a step of its own route.
LEMMA OutputStands ==
  ASSUME Settled, NEW l \in DOMAIN lot, MayWork(l), NEW role \in {"produced", "scrap", "remaining"}, NEW s,
         lot[l].shared /\ IsSplitStep(l, StepAt(l)) => s \in DOMAIN lot[l].group.members,
         ~(Active(l) /\ lot[l].shared /\ role = "produced" /\ IsSplitStep(l, StepAt(l))),
         NEW q \in Nat \ {0}, NEW n \in Nat, l \in 0..(n - 1)
  PROVE  LET y == Output(l, role, s, q) IN
         /\ Standing(route, y, n)
         /\ y.source = l /\ y.q = q /\ y.status = "received"
<1> DEFINE x == lot[l]
           i == StepAt(l)
           own == x.shared /\ role = "produced" /\ IsSplitStep(l, i)
           y == Output(l, role, s, q)
<1>1. /\ x.route # 0 /\ x.route \in DOMAIN route /\ Published(x.route) /\ x.shared \in BOOLEAN
      /\ IsFor(x.route, i, x.serial, x.shared) /\ Steps(x.route)[i].team = x.team
      /\ x.status = "received" /\ Standing(route, x, l)
      /\ x.rework # 0 => /\ x.rework = x.route /\ route[x.rework].kind = "rework"
                         /\ route[x.rework].state = "published"
  BY WorkedFits
<1>2. DOMAIN x = LotColumns
  BY <1>1 DEF Standing, LotColumns
<1>3. /\ DOMAIN y = LotColumns /\ y.source = l /\ y.q = q /\ y.status = x.status /\ y.team = x.team
      /\ y.rework = x.rework /\ y.group = x.group
      /\ y.serial = (IF own THEN s ELSE x.serial) /\ y.shared = (x.shared /\ ~own)
      /\ y.route = (IF own THEN x.group.members[s] ELSE x.route)
      /\ y.index = (IF role = "remaining" THEN x.index ELSE i)
      /\ role = "remaining" => y.complete = x.complete
  BY <1>2, ZenonT(30) DEF Output, LotColumns, NewLot
<1> HIDE DEF y
<1>4. CASE ~own
  <2>1. y.serial = x.serial /\ y.shared = x.shared /\ y.route = x.route
    BY <1>1, <1>3, <1>4
  <2>2. y.index = i \/ (y.index = x.index /\ y.complete = x.complete)
    BY <1>3
  <2>3. Standing(route, y, n)
    BY <1>1, <1>3, <2>1, <2>2, SameRouteStands
  <2>. QED  BY <1>1, <1>3, <2>1, <2>3 DEF y
<1>5. CASE own
  <2> DEFINE r == x.group.members[s]
  <2>1. y.serial = s /\ y.shared = FALSE /\ y.route = r /\ y.index = i /\ x.shared
    BY <1>3, <1>5
  <2>2. x.group.split \in Nat \ {0} /\ GroupFits(route, x)
    BY <1>1, <2>1 DEF Standing, GroupFits
  <2>3. i \in 1 .. x.group.split
    <3>1. i \in DOMAIN Steps(x.route) /\ i <= x.group.split
      BY <1>1, <1>5, <2>2 DEF IsFor, IsSplitStep
    <3>2. i \in Nat /\ i >= 1
      BY <1>1, <3>1, RouteSteps
    <3>. QED  BY <2>2, <3>1, <3>2
  <2>10. ~Active(l)
    BY <1>5
  <2>11. Home(route, x.route) = x.route
    BY <1>1, <2>10 DEF Home, Active
  <2>4. /\ r \in DOMAIN route /\ route[r].kind = "normal" /\ route[r].state = "published"
        /\ i \in DOMAIN route[r].steps /\ route[r].steps[i].members = {}
        /\ route[r].steps[i].team = route[x.route].steps[i].team
    BY <1>5, <2>2, <2>3, <2>11 DEF GroupFits
  <2>5. CursorFits(route, y)
    <3>1. route[r].steps[i].team = y.team
      BY <1>1, <1>3, <2>4 DEF Steps
    <3>. QED  BY <2>1, <2>4, <3>1 DEF CursorFits
  <2>6. x.rework = 0
    BY <1>1, <2>10 DEF Active
  <2>7. r \in 0..Len(route) /\ 0 \in 0..Len(route)
    BY <2>4, TableShape DEF Settled
  <2>8. y.team \in {Warehouse, Outside} \union Production
    BY <1>1, <1>3 DEF Standing
  <2>9. Standing(route, y, n)
    BY <1>1, <1>3, <2>1, <2>5, <2>6, <2>7, <2>8, WholeStanding
  <2>. QED  BY <1>1, <1>3, <2>1, <2>9 DEF y
<1>. QED  BY <1>4, <1>5

LEMMA ResumedStands ==
  ASSUME Settled, NEW l \in DOMAIN lot, MayResume(l)
  PROVE  LET x == lot[l]
             back == route[x.route].resume
             y == [x EXCEPT !.route = back.route, !.index = back.index, !.complete = back.complete,
                            !.rework = 0, !.waiting = FALSE, !.redone = <<>>]
         IN /\ Standing(route, y, l)
            /\ y.source = x.source /\ y.q = x.q /\ y.serial = x.serial /\ y.shared = x.shared
            /\ y.status = x.status /\ y.rework = 0
<1> DEFINE x == lot[l]
           back == route[x.route].resume
           y == [x EXCEPT !.route = back.route, !.index = back.index, !.complete = back.complete,
                          !.rework = 0, !.waiting = FALSE, !.redone = <<>>]
<1>1. Active(l) /\ x.team = back.team /\ x.route # 0 /\ route[x.route].kind = "rework"
  BY DEF MayResume, Active
<1>2. /\ x.route \in DOMAIN route /\ Published(x.route) /\ x.shared \in BOOLEAN
      /\ Returning(x.route, x.serial, x.shared)
  BY <1>1, LotOnRoute
<1>3. /\ back.route \in DOMAIN route /\ Published(back.route) /\ route[back.route].kind = "normal"
      /\ back.team = Steps(back.route)[back.index].team
      /\ IsFor(back.route, back.index, x.serial, x.shared)
      /\ Home(route, back.route) = Home(route, x.route)
  BY <1>1, <1>2, ReworkReturns, ReworkReturnsTo
<1>4. Standing(route, x, l)
  BY LotFitsIs DEF Settled, AllFit
<1>5. /\ DOMAIN y = LotColumns /\ y.status = x.status /\ y.source = x.source /\ y.q = x.q
      /\ y.team = x.team /\ y.route = back.route /\ y.index = back.index /\ y.rework = 0
      /\ y.serial = x.serial /\ y.shared = x.shared /\ y.group = x.group
  BY <1>4 DEF Standing, LotColumns, NewLot
<1> HIDE DEF y
<1>6. CursorFits(route, y)
  <2> HIDE DEF back
  <2>. QED  BY <1>1, <1>2, <1>3, <1>5 DEF CursorFits, IsFor, Published, Steps
<1>7. back.route \in 0..Len(route) /\ 0 \in 0..Len(route)
  BY <1>3, TableShape DEF Settled
<1>8. Standing(route, y, l)
  <2> HIDE DEF back
  <2>1. /\ x.status \in {"pending", "received", "gone", "voided"}
        /\ x.source \in 0..(l - 1) /\ x.team \in {Warehouse, Outside} \union Production
        /\ x.q \in Nat \ {0}
    BY <1>4 DEF Standing
  <2>2. y.shared => GroupFits(route, y)
    <3>1. x.shared => GroupFits(route, x)
      BY <1>4 DEF Standing
    <3>2. back.route # 0
      BY <1>3, TableShape DEF Settled
    <3>. QED  BY <1>3, <1>5, <3>1, <3>2, GroupSame
  <2>. QED  BY <1>2, <1>5, <1>6, <1>7, <2>1, <2>2, WholeStanding
<1>. QED  BY <1>5, <1>8 DEF y

-----------------------------------------------------------------------------
(* The inductive invariant.                                                 *)

WorkFits ==
    /\ IsTable(work)
    /\ \A r \in DOMAIN route : route[r].of \in 0..Len(work)
    /\ \A w \in DOMAIN work : work[w].lot \in DOMAIN lot /\ work[w].outputs \subseteq DOMAIN lot

PathFits == path = UNION {PathRows(r) : r \in {s \in DOMAIN route : Published(s)}}

\* The keys of a published route belong to its family.
ReservedFits ==
    \A r \in DOMAIN route : Published(r) =>
      \A k \in Keys(route[r]) : k \in DOMAIN reserved /\ reserved[k] = Root(r)

FitInv == Settled /\ WorkFits /\ PathFits /\ ReservedFits /\ BudgetFits(route, left)

LEMMA SpendKeeps ==
  ASSUME NEW rows, BudgetFits(rows, left), NEW k \in Kinds, Spend(k)
  PROVE  BudgetFits(rows, left')
<1>1. /\ DOMAIN left = Kinds \union {"pieces", "contents", "shares"}
      /\ \A j \in Kinds : left[j] \in Nat
  BY DEF BudgetFits
<1>2. left[k] > 0 /\ left' = [left EXCEPT ![k] = left[k] - 1]
  BY DEF Spend
<1>3. /\ DOMAIN left' = DOMAIN left
      /\ \A j \in DOMAIN left : left'[j] = IF j = k THEN left[k] - 1 ELSE left[j]
  BY <1>2
<1>4. \A j \in Kinds : left'[j] \in Nat
  BY <1>1, <1>2, <1>3
<1>5. /\ left'.pieces = left.pieces /\ left'.contents = left.contents /\ left'.shares = left.shares
  <2>1. k \notin {"pieces", "contents", "shares"}
    BY DEF Kinds
  <2>. QED  BY <1>1, <1>3, <2>1
<1>. QED  BY <1>1, <1>3, <1>4, <1>5 DEF BudgetFits

\* The work that is registered with the lots.
WorkKept ==
    \/ work' = work
    \/ \E row : work' = Append(work, row) /\ row.lot \in DOMAIN lot' /\ row.outputs \subseteq DOMAIN lot'

LEMMA WorkStays ==
  ASSUME WorkFits, Len(lot) \in Nat, Len(lot') \in Nat, Len(lot) <= Len(lot'),
         DOMAIN lot = 1..Len(lot), DOMAIN lot' = 1..Len(lot'), WorkKept,
         \A r \in DOMAIN route' : r \in DOMAIN route /\ route'[r].of = route[r].of
  PROVE  WorkFits'
<1>1. Len(work) \in Nat /\ DOMAIN work = 1..Len(work) /\ IsTable(work)
  BY TableShape DEF WorkFits
<1>2. \A w \in DOMAIN work : work[w].lot \in DOMAIN lot' /\ work[w].outputs \subseteq DOMAIN lot'
  <2>1. DOMAIN lot \subseteq DOMAIN lot'
    OBVIOUS
  <2>. QED  BY <2>1 DEF WorkFits
<1>3. CASE work' = work
  BY <1>2, <1>3 DEF WorkFits
<1>4. CASE \E row : /\ work' = Append(work, row)
                    /\ row.lot \in DOMAIN lot' /\ row.outputs \subseteq DOMAIN lot'
  <2>1. PICK row : work' = Append(work, row) /\ row.lot \in DOMAIN lot' /\ row.outputs \subseteq DOMAIN lot'
    BY <1>4
  <2>2. /\ IsTable(work') /\ Len(work') = Len(work) + 1 /\ DOMAIN work' = 1..(Len(work) + 1)
        /\ \A w \in DOMAIN work : work'[w] = work[w]
        /\ work'[Len(work) + 1] = row
    BY <1>1, <2>1, TableAppend
  <2>3. \A r \in DOMAIN route' : route'[r].of \in 0..Len(work')
    BY <1>1, <2>2 DEF WorkFits
  <2>4. ASSUME NEW w \in DOMAIN work'
        PROVE  work'[w].lot \in DOMAIN lot' /\ work'[w].outputs \subseteq DOMAIN lot'
    <3>1. CASE w = Len(work) + 1
      BY <2>1, <2>2, <3>1
    <3>2. CASE w # Len(work) + 1
      <4>1. w \in DOMAIN work
        BY <1>1, <2>2, <3>2
      <4>. QED  BY <1>2, <2>2, <4>1
    <3>. QED  BY <3>1, <3>2
  <2>. QED  BY <2>2, <2>3, <2>4 DEF WorkFits
<1>. QED  BY <1>3, <1>4 DEF WorkKept

\* Who writes lots alone leaves the rest as it was.
LEMMA LotsWritten ==
  ASSUME FitInv, UNCHANGED files, IsTable(lot'), AllFit(route, lot'), LotsGrow(lot, lot'), WorkKept,
         NEW k \in Kinds, Spend(k)
  PROVE  FitInv'
<1>1. route' = route /\ path' = path /\ reserved' = reserved
  BY DEF files
<1>2. BudgetFits(route, left')
  BY SpendKeeps DEF FitInv
<1>4. \A r \in DOMAIN route : RowFits(route, lot', r)
  BY RowsGrowSelf, RowGrows DEF FitInv, Settled
<1>5. Settled'
  BY <1>1, <1>4 DEF FitInv, Settled, AllFit
<1>6. WorkFits'
  <2>1. /\ Len(lot) \in Nat /\ Len(lot') \in Nat /\ Len(lot) <= Len(lot')
        /\ DOMAIN lot = 1..Len(lot) /\ DOMAIN lot' = 1..Len(lot')
    BY TableShape DEF LotsGrow, FitInv, Settled
  <2>. QED  BY <1>1, <2>1, WorkStays DEF FitInv
<1>7. PathFits'
  BY <1>1 DEF FitInv, PathFits, PathRows, Published, Steps
<1>8. ReservedFits'
  BY <1>1 DEF FitInv, ReservedFits, Published, Root
<1>9. BudgetFits(route, left)'
  BY <1>1, <1>2
<1>. QED  BY <1>5, <1>6, <1>7, <1>8, <1>9 DEF FitInv

LEMMA OneLotAdded ==
  ASSUME FitInv, UNCHANGED files, UNCHANGED work, NEW k \in Kinds, Spend(k), NEW x, lot' = Append(lot, x),
         Standing(route, x, Len(lot) + 1),
         x.source # 0 => x.q <= OnHand(x.source) /\ ~IsPending(route, lot[x.source])
  PROVE  FitInv'
<1>1. IsTable(lot') /\ AllFit(route, lot') /\ LotsGrow(lot, lot')
  BY LotAdded DEF FitInv, Settled, OnHand
<1>2. WorkKept
  BY DEF WorkKept
<1>. QED  BY <1>1, <1>2, LotsWritten

LEMMA OneLotChanged ==
  ASSUME FitInv, UNCHANGED files, WorkKept, NEW k \in Kinds, Spend(k), NEW l \in DOMAIN lot, NEW y,
         lot' = [lot EXCEPT ![l] = y], Standing(route, y, l),
         y.source = lot[l].source, y.q = lot[l].q, y.serial = lot[l].serial, y.shared = lot[l].shared,
         y.status = lot[l].status \/ lot[l].status # "voided",
         IsPending(route, y) => IsPending(route, lot[l])
  PROVE  FitInv'
<1>1. IsTable(lot') /\ AllFit(route, lot') /\ LotsGrow(lot, lot')
  <2>1. Len(route) <= Len(route)
    BY TableShape DEF FitInv, Settled
  <2>. QED  BY <2>1, RowsGrowSelf, SettledReturns, LotChanged DEF FitInv, Settled
<1>. QED  BY <1>1, LotsWritten

-----------------------------------------------------------------------------
(* Material is received, bound, sent and settled.                           *)

LEMMA OnHandIs ==
  ASSUME Settled, NEW l \in DOMAIN lot
  PROVE  /\ OnHand(l) \in Nat /\ OnHand(l) <= lot[l].q /\ OnHand(l) = lot[l].q - Given(lot, l)
         /\ Given(lot, l) \in Nat /\ lot[l].q \in Nat \ {0}
         /\ l \in Nat \ {0} /\ Len(lot) \in Nat /\ l \in 0 .. Len(lot)
<1>1. LotFits(route, lot, l)
  BY DEF Settled, AllFit
<1>2. Given(lot, l) \in Nat
  BY GivenNat, LotsWeigh DEF Settled
<1>3. Len(lot) \in Nat /\ DOMAIN lot = 1 .. Len(lot)
  BY TableShape DEF Settled
<1>. QED  BY <1>1, <1>2, <1>3 DEF LotFits, OnHand

LEMMA FitOfReceive ==
  ASSUME FitInv, NEW s, NEW r \in {0} \union DOMAIN route, NEW q \in Nat \ {0}, Receive(s, r, q)
  PROVE  FitInv'
<1> DEFINE x == NewLot(s, r, q)
<1>1. /\ UNCHANGED files /\ UNCHANGED work /\ Spend("receive") /\ lot' = Append(lot, x)
      /\ r # 0 => Ready(r)
  BY DEF Receive
<1>2. x.source = 0 /\ x.shared = FALSE
  BY DEF NewLot
<1>3. Len(lot) + 1 \in Nat \ {0}
  BY TableShape DEF FitInv, Settled
<1>4. Standing(route, x, Len(lot) + 1)
  BY <1>1, <1>3, ReceivedStands DEF FitInv
<1>5. "receive" \in Kinds
  BY DEF Kinds
<1> HIDE DEF x
<1>. QED  BY <1>1, <1>2, <1>4, <1>5, OneLotAdded

LEMMA FitOfBind ==
  ASSUME FitInv, NEW l \in DOMAIN lot, NEW r \in DOMAIN route, Bind(l, r)
  PROVE  FitInv'
<1>1. /\ UNCHANGED files /\ UNCHANGED work /\ Spend("bind") /\ lot' = [lot EXCEPT ![l] = Bound(l, r)]
      /\ lot[l].route = 0 /\ lot[l].team = Warehouse /\ Ready(r)
  BY DEF Bind, MayBind
<1>2. /\ Standing(route, Bound(l, r), l)
      /\ Bound(l, r).source = lot[l].source /\ Bound(l, r).q = lot[l].q
      /\ Bound(l, r).serial = lot[l].serial /\ Bound(l, r).shared = lot[l].shared
      /\ Bound(l, r).status = lot[l].status /\ Bound(l, r).rework = 0
  BY <1>1, BoundStands DEF FitInv
<1>3. ~IsPending(route, Bound(l, r))
  BY <1>2 DEF IsPending
<1>4. "bind" \in Kinds /\ WorkKept
  BY <1>1 DEF Kinds, WorkKept
<1>. QED  BY <1>1, <1>2, <1>3, <1>4, OneLotChanged

LEMMA FitOfSettle ==
  ASSUME FitInv, NEW c \in DOMAIN lot, Confirm(c) \/ Void(c)
  PROVE  FitInv'
<1>1. PICK status \in {"received", "voided"} : lot' = [lot EXCEPT ![c].status = status]
  BY DEF Confirm, Void
<1> DEFINE y == [lot[c] EXCEPT !.status = status]
<1>2. /\ UNCHANGED files /\ UNCHANGED work /\ Spend("settle") /\ lot[c].status = "pending"
      /\ lot' = [lot EXCEPT ![c] = y]
  BY <1>1 DEF Confirm, Void
<1>3. /\ Standing(route, y, c)
      /\ y.source = lot[c].source /\ y.q = lot[c].q /\ y.serial = lot[c].serial
      /\ y.shared = lot[c].shared /\ y.rework = lot[c].rework /\ y.status = status
  BY <1>2, SettledStands DEF FitInv
<1> HIDE DEF y
<1>4. IsPending(route, y) => IsPending(route, lot[c])
  BY <1>3 DEF IsPending
<1>5. "settle" \in Kinds /\ WorkKept
  BY <1>2 DEF Kinds, WorkKept
<1>. QED  BY <1>2, <1>3, <1>4, <1>5, OneLotChanged

\* Pieces leave a lot along a move; the lot is as it was.
LEMMA FitOfSend ==
  ASSUME FitInv, UNCHANGED files, UNCHANGED work, NEW k \in Kinds, Spend(k),
         NEW l \in DOMAIN lot, NEW q \in Nat \ {0}, q <= OnHand(l), ~Pending(l),
         NEW x, x.shared \in BOOLEAN,
         NEW move, MoveFits(x, move),
         NEW y, SentAlong(y, l, x, move, q), y.shared => GroupFits(route, y), lot' = Append(lot, y)
  PROVE  FitInv'
<1>1. Len(lot) + 1 \in Nat /\ l \in 0 .. ((Len(lot) + 1) - 1)
  BY OnHandIs DEF FitInv
<1>2. Standing(route, y, Len(lot) + 1)
  BY <1>1, SentStands DEF FitInv
<1>3. y.source = l /\ y.q = q
  BY DEF SentAlong
<1>4. ~IsPending(route, lot[l])
  BY DEF IsPending, Pending, Published
<1>. QED  BY <1>2, <1>3, <1>4, OneLotAdded

\* Stock that is bound as it leaves.
LEMMA FitOfBoundSend ==
  ASSUME FitInv, UNCHANGED files, UNCHANGED work, Spend("dispatch"),
         NEW l \in DOMAIN lot, NEW q \in Nat \ {0}, q <= OnHand(l),
         NEW b, Standing(route, b, l), b.source = lot[l].source, b.q = lot[l].q, b.serial = lot[l].serial,
         b.shared = lot[l].shared, b.status = lot[l].status, ~IsPending(route, b),
         NEW move, MoveFits(b, move),
         lot' = Append([lot EXCEPT ![l] = b], Sent(l, b, move, q))
  PROVE  FitInv'
<1> DEFINE lots == [lot EXCEPT ![l] = b]
           y == Sent(l, b, move, q)
           n == Len(lot)
<1>1. /\ IsTable(lots) /\ Len(lots) = n /\ DOMAIN lots = DOMAIN lot
      /\ n \in Nat /\ DOMAIN lot = 1 .. n
      /\ \A i \in DOMAIN lot : lots[i] = IF i = l THEN b ELSE lot[i]
  BY TableChange, TableShape DEF FitInv, Settled
<1>2. AllFit(route, lots) /\ LotsGrow(lot, lots)
  <2>1. Len(route) <= Len(route)
    BY TableShape DEF FitInv, Settled
  <2>. QED  BY <2>1, RowsGrowSelf, SettledReturns, LotChanged DEF FitInv, Settled
<1>3. Given(lots, l) <= Given(lot, l) /\ Given(lots, l) \in Nat
  <2>1. Draws(b, l) => Draws(lot[l], l)
    BY DEF Draws
  <2>2. Weighs(lot)
    BY LotsWeigh DEF FitInv, Settled
  <2>3. Weighs(lots) /\ Given(lots, l) <= Given(lot, l)
    BY <2>1, <2>2, GivenChange DEF FitInv, Settled
  <2>. HIDE DEF lots
  <2>. QED  BY <1>1, <2>3, GivenNat
<1>4. q <= b.q - Given(lots, l)
  BY <1>3, OnHandIs DEF FitInv
<1> HIDE DEF lots
<1>5. /\ DOMAIN b = LotColumns /\ b.shared \in BOOLEAN /\ (b.shared => GroupFits(route, b))
  BY DEF Standing, LotColumns
<1>6. /\ SentAlong(y, l, b, move, q) /\ y.group = b.group
  BY <1>5, SentFields
<1> HIDE DEF y
<1>7. y.shared => GroupFits(route, y)
  <2>1. /\ y.shared = b.shared /\ y.route = move.route /\ move.route \in DOMAIN route
        /\ b.shared => Home(route, move.route) = Home(route, b.route)
    BY <1>6 DEF SentAlong, MoveFits
  <2>2. y.route # 0
    BY <2>1, TableShape DEF FitInv, Settled
  <2>. QED  BY <1>5, <1>6, <2>1, <2>2, GroupSame
<1>8. Standing(route, y, n + 1)
  <2>1. n + 1 \in Nat /\ l \in 0 .. ((n + 1) - 1)
    BY <1>1
  <2>. QED  BY <1>5, <1>6, <1>7, <2>1, SentStands DEF FitInv
<1>9. y.source = l /\ y.q = q
  BY <1>6 DEF SentAlong
<1>10. lots[l] = b
  BY <1>1
<1>11. /\ IsTable(Append(lots, y)) /\ AllFit(route, Append(lots, y))
       /\ LotsGrow(lots, Append(lots, y))
  BY <1>1, <1>2, <1>4, <1>8, <1>9, <1>10, LotAdded DEF FitInv, Settled
<1>12. lot' = Append(lots, y)
  BY DEF lots, y
<1>13. LotsGrow(lot, lot')
  BY <1>1, <1>2, <1>11, <1>12 DEF LotsGrow
<1>14. "dispatch" \in Kinds /\ WorkKept
  BY DEF Kinds, WorkKept
<1>. QED  BY <1>11, <1>12, <1>13, <1>14, LotsWritten

\* The orders' routes are routes.
PlannedFits == \A p \in planned : p[2] \in DOMAIN route

LEMMA ChosenIsThere ==
  ASSUME Settled, PlannedFits, NEW l \in DOMAIN lot, NEW s, NEW r \in {0} \union DOMAIN route,
         NEW chosen, chosen = (IF r # 0 THEN r ELSE IF lot[l].route # 0 THEN lot[l].route ELSE Resolved(s)),
         chosen # 0
  PROVE  chosen \in DOMAIN route
<1>1. lot[l].route # 0 => lot[l].route \in DOMAIN route
  BY LotOnRoute
<1>2. Resolved(s) # 0 => Resolved(s) \in DOMAIN route
  <2> DEFINE plans == {p[2] : p \in {q \in planned : q[1] = s}}
             named == {t \in DOMAIN route :
                         /\ route[t].kind = "normal" /\ Published(t)
                         /\ \E row \in path : row.route = t /\ row.serial = s
                         /\ Successors(t) = {}}
             found == IF plans # {} THEN plans ELSE named
  <2>1. plans \subseteq DOMAIN route /\ named \subseteq DOMAIN route
    BY DEF PlannedFits
  <2>2. found \subseteq DOMAIN route
    BY <2>1
  <2>3. found \in SUBSET Nat
    <3>1. DOMAIN route \subseteq Nat
      BY TableShape DEF Settled
    <3> HIDE DEF found
    <3>. QED  BY <2>2, <3>1
  <2>4. Resolved(s) = IF Cardinality(found) = 1 THEN First(found) ELSE 0
    BY DEF Resolved
  <2> HIDE DEF found
  <2>5. found # {} => First(found) \in found
    BY <2>3, FirstIsThere
  <2>6. found = {} => First(found) = 0
    BY DEF First
  <2>. QED  BY <2>2, <2>4, <2>5, <2>6
<1>. QED  BY <1>1, <1>2

LEMMA FitOfDispatch ==
  ASSUME FitInv, PlannedFits, NEW l \in DOMAIN lot, NEW s, NEW r \in {0} \union DOMAIN route,
         NEW q \in 1..OnHand(l), Dispatch(l, s, r, q)
  PROVE  FitInv'
<1> DEFINE x == lot[l]
           chosen == IF r # 0 THEN r ELSE IF x.route # 0 THEN x.route ELSE Resolved(s)
           anonymous == x.serial = NoSerial /\ ~x.shared
           portion == [Bound(l, chosen) EXCEPT !.serial = s]
           b == IF x.route = 0 THEN Bound(l, chosen) ELSE x
<1>1. /\ UNCHANGED files /\ UNCHANGED work /\ Spend("dispatch") /\ ~Pending(l) /\ chosen # 0
      /\ \/ /\ anonymous /\ x.team = Warehouse /\ x.route = 0 /\ Ready(chosen)
            /\ \E move \in RouteMoves(portion) : lot' = Append(lot, Sent(l, portion, move, q))
         \/ /\ MayBind(l, chosen)
            /\ \E move \in RouteMoves(b) : lot' = Append([lot EXCEPT ![l] = b], Sent(l, b, move, q))
         \/ \E move \in Moves(l) : lot' = Append(lot, Sent(l, x, move, q))
  BY DEF Dispatch
<1>2. q \in Nat \ {0} /\ q <= OnHand(l) /\ "dispatch" \in Kinds
  <2>1. OnHand(l) \in Nat
    BY OnHandIs DEF FitInv
  <2>. QED  BY <2>1 DEF Kinds
<1>3. chosen \in DOMAIN route
  BY <1>1, ChosenIsThere DEF FitInv
<1>4. Standing(route, x, l)
  BY LotFitsIs DEF FitInv, Settled, AllFit
<1>5. /\ DOMAIN x = LotColumns /\ x.shared \in BOOLEAN /\ (x.shared => GroupFits(route, x))
  BY <1>4 DEF Standing, LotColumns
<1> HIDE DEF chosen, b
<1>6. ASSUME anonymous, x.team = Warehouse, x.route = 0, Ready(chosen),
             NEW move \in RouteMoves(portion), lot' = Append(lot, Sent(l, portion, move, q))
      PROVE  FitInv'
  <2>1. /\ DOMAIN portion = LotColumns /\ portion.shared = FALSE /\ portion.serial = s
        /\ portion.route = chosen /\ portion.index = 1
    BY <1>5, <1>6 DEF Bound, LotColumns, NewLot
  <2> HIDE DEF portion
  <2>2. MoveFits(portion, move)
    <3>1. /\ IsFor(chosen, 1, s, FALSE) /\ Published(chosen) /\ route[chosen].kind = "normal"
      BY <1>3, <1>6, ReadyFits DEF FitInv
    <3>. QED  BY <1>3, <1>6, <2>1, <3>1, RouteMovesFit DEF FitInv
  <2>3. SentAlong(Sent(l, portion, move, q), l, portion, move, q)
    BY <2>1, SentFields
  <2> DEFINE y == Sent(l, portion, move, q)
  <2>4. y.shared = FALSE /\ SentAlong(y, l, portion, move, q) /\ lot' = Append(lot, y)
    BY <1>6, <2>1, <2>3 DEF SentAlong
  <2> HIDE DEF y
  <2>5. UNCHANGED files /\ UNCHANGED work /\ Spend("dispatch") /\ ~Pending(l)
    BY <1>1
  <2>6. (y.shared => GroupFits(route, y)) /\ portion.shared \in BOOLEAN
    BY <2>1, <2>4
  <2>. QED  BY <1>2, <2>2, <2>4, <2>5, <2>6, FitOfSend
<1>7. ASSUME MayBind(l, chosen), NEW move \in RouteMoves(b),
             lot' = Append([lot EXCEPT ![l] = b], Sent(l, b, move, q))
      PROVE  FitInv'
  <2>1. /\ Standing(route, b, l) /\ b.source = x.source /\ b.q = x.q /\ b.serial = x.serial
        /\ b.shared = x.shared /\ b.status = x.status /\ ~IsPending(route, b)
        /\ b.route = chosen /\ IsFor(chosen, b.index, b.serial, b.shared)
        /\ Published(chosen) /\ route[chosen].kind = "normal"
    <3>1. Ready(chosen) /\ x.team = Warehouse /\ x.route \in {0, chosen}
      BY <1>7 DEF MayBind
    <3>2. CASE x.route = 0
      <4> DEFINE y == Bound(l, chosen)
      <4>1. b = y
        BY <3>2 DEF b
      <4>2. /\ Standing(route, y, l) /\ y.source = x.source /\ y.q = x.q /\ y.serial = x.serial
            /\ y.shared = x.shared /\ y.status = x.status /\ y.rework = 0
            /\ y.route = chosen /\ y.index = 1
        BY <1>3, <3>1, <3>2, BoundStands DEF FitInv
      <4>3. /\ IsFor(chosen, 1, y.serial, y.shared) /\ Published(chosen) /\ route[chosen].kind = "normal"
        BY <1>3, <3>1, ReadyFits DEF FitInv
      <4> HIDE DEF y
      <4>. QED  BY <4>1, <4>2, <4>3 DEF IsPending
    <3>3. CASE x.route # 0
      <4>1. b = x /\ x.route = chosen
        BY <3>1, <3>3 DEF b
      <4>2. IsFor(chosen, x.index, x.serial, x.shared)
        BY <3>3, <4>1, LotOnRoute DEF FitInv
      <4>3. Published(chosen) /\ route[chosen].kind = "normal"
        BY <1>3, <3>1, ReadyFits DEF FitInv
      <4>4. ~IsPending(route, x)
        BY <1>1 DEF IsPending, Pending, Published
      <4>. QED  BY <1>4, <4>1, <4>2, <4>3, <4>4
    <3>. QED  BY <3>2, <3>3
  <2>2. MoveFits(b, move)
    BY <1>3, <1>5, <1>7, <2>1, RouteMovesFit DEF FitInv
  <2>. QED  BY <1>1, <1>2, <1>7, <2>1, <2>2, FitOfBoundSend
<1>8. ASSUME NEW move \in Moves(l), lot' = Append(lot, Sent(l, x, move, q))
      PROVE  FitInv'
  <2> DEFINE y == Sent(l, x, move, q)
  <2>1. MoveFits(x, move)
    BY MovesFit DEF FitInv
  <2>2. SentAlong(y, l, x, move, q) /\ y.group = x.group
    BY <1>5, SentFields
  <2> HIDE DEF y
  <2>3. y.shared => GroupFits(route, y)
    <3>1. /\ y.shared => x.shared /\ Home(route, y.route) = Home(route, x.route)
          /\ y.route \in DOMAIN route /\ y.group = x.group
      BY <2>1, <2>2 DEF SentAlong, MoveFits
    <3>2. y.route # 0
      BY <3>1, TableShape DEF FitInv, Settled
    <3>3. x.shared => GroupFits(route, x)
      BY <1>5
    <3>. QED  BY <3>1, <3>2, <3>3, GroupSame
  <2>4. lot' = Append(lot, y)
    BY <1>8 DEF y
  <2>. QED  BY <1>1, <1>2, <1>5, <2>1, <2>2, <2>3, <2>4, FitOfSend
<1>. QED  BY <1>1, <1>6, <1>7, <1>8

\* Up to the cut the routes of a shared batch are one.
LEMMA CommonSplitFits ==
  ASSUME Settled, NEW members, Range(members) \subseteq DOMAIN route, CommonSplit(members) # 0,
         NEW s \in DOMAIN members, NEW first \in Range(members)
  PROVE  LET r == members[s] IN
         /\ CommonSplit(members) \in Nat \ {0}
         /\ \A j \in 1..CommonSplit(members) :
              /\ j \in DOMAIN Steps(r) /\ j \in DOMAIN Steps(first)
              /\ Steps(r)[j].members = {} /\ Steps(r)[j].team = Steps(first)[j].team
              /\ Steps(r)[j].task = Steps(first)[j].task
<1> DEFINE all == {members[t] : t \in DOMAIN members}
           agree(i) == \A r, q \in all : /\ i \in DOMAIN Steps(r) /\ i \in DOMAIN Steps(q)
                                         /\ Steps(r)[i].members = {}
                                         /\ Steps(r)[i].team = Steps(q)[i].team
                                         /\ Steps(r)[i].task = Steps(q)[i].task
           one == CHOOSE r \in all : TRUE
           cuts == {i \in 2..Len(Steps(one)) :
                      (\A j \in 1..i : agree(j)) /\ Steps(one)[i].team \in Splitting}
           c == CommonSplit(members)
<1>1. members[s] \in all /\ first \in all /\ all = Range(members)
  BY DEF Range
<1>2. one \in all
  BY <1>1
<1>3. Len(Steps(one)) \in Nat
  BY <1>1, <1>2, RouteSteps
<1>4. c = IF cuts = {} THEN 0 ELSE CHOOSE i \in cuts : \A j \in cuts : j <= i
  BY DEF CommonSplit
<1>5. cuts \in SUBSET (1 .. Len(Steps(one)))
  BY <1>3
<1>6. c \in cuts
  <2>1. cuts # {}
    BY <1>4
  <2> HIDE DEF cuts, c
  <2>2. \E i \in cuts : \A j \in cuts : j <= i
    BY <1>3, <1>5, <2>1, LastIsThere
  <2>. QED  BY <1>4, <2>1, <2>2
<1>7. c \in Nat \ {0} /\ \A j \in 1..c : agree(j)
  <2> HIDE DEF agree, c
  <2>. QED  BY <1>3, <1>6
<1>8. \A j \in 1..c : /\ j \in DOMAIN Steps(members[s]) /\ j \in DOMAIN Steps(first)
                      /\ Steps(members[s])[j].members = {}
                      /\ Steps(members[s])[j].team = Steps(first)[j].team
                      /\ Steps(members[s])[j].task = Steps(first)[j].task
  <2> HIDE DEF c
  <2>1. SUFFICES ASSUME NEW j \in 1..c
                 PROVE  /\ j \in DOMAIN Steps(members[s]) /\ j \in DOMAIN Steps(first)
                        /\ Steps(members[s])[j].members = {}
                        /\ Steps(members[s])[j].team = Steps(first)[j].team
                        /\ Steps(members[s])[j].task = Steps(first)[j].task
    OBVIOUS
  <2>2. agree(j)
    BY <1>7
  <2> HIDE DEF all
  <2>. QED  BY <1>1, <2>2
<1>. QED  BY <1>7, <1>8

LEMMA FitOfDispatchShared ==
  ASSUME FitInv, NEW l \in DOMAIN lot, NEW members \in left.shares, NEW first \in Range(members),
         NEW q \in 1..OnHand(l), DispatchShared(l, members, first, q)
  PROVE  FitInv'
<1> DEFINE x == lot[l]
           split == CommonSplit(members)
           portion == [Bound(l, first) EXCEPT !.shared = TRUE, !.serial = SharedSerial]
           sent(move) == [Sent(l, portion, move, q) EXCEPT !.group = [members |-> members, split |-> split]]
<1>1. /\ UNCHANGED files /\ UNCHANGED work /\ Spend("share") /\ x.rework = 0 /\ split # 0
      /\ \A s \in DOMAIN members : Ready(members[s])
      /\ \E move \in RouteMoves(portion) : lot' = Append(lot, sent(move))
  BY DEF DispatchShared
<1>2. q \in Nat \ {0} /\ q <= OnHand(l) /\ "share" \in Kinds /\ ~Pending(l)
  <2>1. OnHand(l) \in Nat
    BY OnHandIs DEF FitInv
  <2>. QED  BY <1>1, <2>1 DEF Kinds, Pending
<1>3. Range(members) \subseteq DOMAIN route
  BY DEF FitInv, BudgetFits
<1>4. first \in DOMAIN route /\ Ready(first)
  BY <1>1, <1>3 DEF Range
<1>5. DOMAIN x = LotColumns
  BY LotFitsIs DEF FitInv, Settled, AllFit, Standing, LotColumns
<1>6. /\ DOMAIN portion = LotColumns /\ portion.shared = TRUE
      /\ portion.route = first /\ portion.index = 1
  BY <1>5 DEF Bound, LotColumns, NewLot
<1>7. PICK move \in RouteMoves(portion) : lot' = Append(lot, sent(move))
  BY <1>1
<1> DEFINE y == sent(move)
<1>8. /\ SentAlong(y, l, portion, move, q) /\ y.group.members = members /\ y.group.split = split
  BY <1>6 DEF Sent, SentAlong, LotColumns, NewLot
<1> HIDE DEF portion
<1>9. MoveFits(portion, move)
  <2>1. IsFor(first, 1, portion.serial, TRUE) /\ Published(first) /\ route[first].kind = "normal"
    BY <1>4, ReadyFits DEF FitInv
  <2>2. portion.shared \in BOOLEAN
    BY <1>6
  <2>. QED  BY <1>4, <1>6, <2>1, <2>2, RouteMovesFit DEF FitInv
<1> HIDE DEF sent, y
<1>10. GroupFits(route, y)
  <2>1. y.route = first /\ first # 0
    <3>1. DOMAIN route = 1 .. Len(route)
      BY TableShape DEF FitInv, Settled
    <3>2. move.route = portion.route
      BY DEF RouteMoves, Move
    <3>3. y.route = move.route
      BY <1>8 DEF SentAlong
    <3>. QED  BY <1>4, <1>6, <3>1, <3>2, <3>3
  <2>2. ASSUME NEW s \in DOMAIN members
        PROVE  /\ members[s] \in DOMAIN route /\ route[members[s]].kind = "normal"
               /\ route[members[s]].state = "published"
               /\ \A j \in 1..split :
                    /\ j \in DOMAIN route[members[s]].steps /\ j \in DOMAIN route[first].steps
                    /\ route[members[s]].steps[j].members = {}
                    /\ route[members[s]].steps[j].team = route[first].steps[j].team
                    /\ route[members[s]].steps[j].task = route[first].steps[j].task
    <3>1. members[s] \in DOMAIN route /\ Ready(members[s])
      BY <1>1, <1>3 DEF Range
    <3>2. \A j \in 1..split :
            /\ j \in DOMAIN Steps(members[s]) /\ j \in DOMAIN Steps(first)
            /\ Steps(members[s])[j].members = {} /\ Steps(members[s])[j].team = Steps(first)[j].team
            /\ Steps(members[s])[j].task = Steps(first)[j].task
      BY <1>1, <1>3, CommonSplitFits DEF FitInv
    <3>. QED  BY <3>1, <3>2 DEF Ready, Published, Steps
  <2>3. split \in Nat \ {0}
    <3>1. PICK s \in DOMAIN members : TRUE
      BY DEF Range
    <3>. QED  BY <1>1, <1>3, <3>1, CommonSplitFits DEF FitInv
  <2>4. Home(route, y.route) = first
    BY <1>4, <2>1 DEF Ready, Home
  <2> HIDE DEF split
  <2>. QED  BY <1>8, <2>1, <2>2, <2>3, <2>4 DEF GroupFits
<1>11. lot' = Append(lot, y)
  BY <1>7 DEF y
<1>12. portion.shared \in BOOLEAN /\ UNCHANGED files /\ UNCHANGED work /\ Spend("share")
  BY <1>1, <1>6
<1>. QED  BY <1>2, <1>8, <1>9, <1>10, <1>11, <1>12, FitOfSend

LEMMA FitOfMaterial ==
  ASSUME FitInv, PlannedFits, MoveMaterial
  PROVE  FitInv'
<1>1. ASSUME NEW s, NEW r \in {0} \union DOMAIN route, Receive(s, r, left.pieces) PROVE FitInv'
  <2>1. left.pieces \in Nat \ {0}
    BY DEF FitInv, BudgetFits
  <2>. QED  BY <1>1, <2>1, FitOfReceive
<1>2. ASSUME NEW s, NEW r, Plan(s, r) PROVE FitInv'
  <2>1. /\ UNCHANGED files /\ UNCHANGED <<lot, work>> /\ Spend("plan") /\ "plan" \in Kinds
    BY <1>2 DEF Plan, Kinds
  <2>2. IsTable(lot') /\ AllFit(route, lot') /\ LotsGrow(lot, lot') /\ WorkKept
    <3>1. LotsGrow(lot, lot)
      BY TableShape DEF FitInv, Settled, LotsGrow
    <3>. QED  BY <2>1, <3>1 DEF FitInv, Settled, WorkKept
  <2>. QED  BY <2>1, <2>2, LotsWritten
<1>3. \A l \in DOMAIN lot, r \in DOMAIN route : Bind(l, r) => FitInv'
  BY FitOfBind
<1>4. ASSUME NEW l \in DOMAIN lot, NEW s, NEW r \in {0} \union DOMAIN route, NEW q \in 1..OnHand(l),
             Dispatch(l, s, r, q)
      PROVE  FitInv'
  BY <1>4, FitOfDispatch
<1>5. ASSUME NEW l \in DOMAIN lot, NEW members \in left.shares, NEW first \in Range(members),
             NEW q \in 1..OnHand(l), DispatchShared(l, members, first, q)
      PROVE  FitInv'
  BY <1>5, FitOfDispatchShared
<1>6. \A c \in DOMAIN lot : Confirm(c) \/ Void(c) => FitInv'
  BY FitOfSettle
<1>. QED  BY <1>1, <1>2, <1>3, <1>4, <1>5, <1>6 DEF MoveMaterial

-----------------------------------------------------------------------------
(* Material is worked on and resumed.                                       *)

\* The lines of a result, one or both of the last two of which may be missing.
Joined(s, a, b, c) ==
    /\ s \o (<<a>> \o <<>> \o <<>>) = Append(s, a)
    /\ s \o (<<a>> \o <<b>> \o <<>>) = Append(Append(s, a), b)
    /\ s \o (<<a>> \o <<>> \o <<c>>) = Append(Append(s, a), c)
    /\ s \o (<<a>> \o <<b>> \o <<c>>) = Append(Append(Append(s, a), b), c)

LEMMA TableLines ==
  ASSUME NEW s, IsTable(s), NEW a, NEW b, NEW c
  PROVE  Joined(s, a, b, c)
<1> DEFINE T == {s[i] : i \in DOMAIN s} \union {a, b, c}
<1>1. s \in Seq(T)
  BY DEF IsTable
<1>2. a \in T /\ b \in T /\ c \in T
  OBVIOUS
<1> HIDE DEF T
<1>3. <<a>> \in Seq(T) /\ <<b>> \in Seq(T) /\ <<c>> \in Seq(T) /\ <<>> \in Seq(T)
  BY <1>2
<1>4. ASSUME NEW t \in Seq(T), NEW d \in T PROVE t \o <<d>> = Append(t, d) /\ Append(t, d) \in Seq(T)
  BY AppendIsConcat, AppendProperties
<1>5. ASSUME NEW t \in Seq(T) PROVE t \o <<>> = t
  BY ConcatEmptySeq
<1>6. ASSUME NEW t \in Seq(T), NEW u \in Seq(T), NEW v \in Seq(T)
      PROVE  (t \o u) \o v = t \o (u \o v) /\ t \o u \in Seq(T)
  BY ConcatAssociative, ConcatProperties
<1>7. s \o (<<a>> \o <<>> \o <<>>) = Append(s, a)
  BY <1>1, <1>2, <1>3, <1>4, <1>5
<1>8. \A d \in T : s \o (<<a>> \o <<d>>) = Append(Append(s, a), d)
  <2>. TAKE d \in T
  <2>1. <<d>> \in Seq(T)
    OBVIOUS
  <2>2. s \o (<<a>> \o <<d>>) = (s \o <<a>>) \o <<d>>
    BY <1>1, <1>3, <1>6, <2>1
  <2>. QED  BY <1>1, <1>2, <1>4, <2>2
<1>9. s \o (<<a>> \o <<b>> \o <<>>) = Append(Append(s, a), b)
  <2>1. <<a>> \o <<b>> \o <<>> = <<a>> \o <<b>>
    BY <1>3, <1>5, <1>6
  <2>. QED  BY <1>2, <1>8, <2>1
<1>10. s \o (<<a>> \o <<>> \o <<c>>) = Append(Append(s, a), c)
  <2>1. <<a>> \o <<>> = <<a>>
    BY <1>3, <1>5
  <2>. QED  BY <1>2, <1>8, <2>1
<1>11. s \o (<<a>> \o <<b>> \o <<c>>) = Append(Append(Append(s, a), b), c)
  <2>1. <<a>> \o <<b>> \in Seq(T)
    BY <1>3, <1>6
  <2>2. s \o (<<a>> \o <<b>> \o <<c>>) = (s \o (<<a>> \o <<b>>)) \o <<c>>
    BY <1>1, <1>3, <1>6, <2>1
  <2>3. Append(Append(s, a), b) \in Seq(T)
    BY <1>1, <1>2, <1>4
  <2>. QED  BY <1>2, <1>4, <1>8, <2>2, <2>3
<1>. QED  BY <1>7, <1>9, <1>10, <1>11 DEF Joined

\* The lots with what was already made of l, g pieces of which are given away.
Grown(l, lots, g) ==
    /\ IsTable(lots) /\ AllFit(route, lots) /\ LotsGrow(lot, lots)
    /\ l \in DOMAIN lots /\ lots[l] = lot[l] /\ Given(lots, l) = g

LEMMA GrownAtFirst ==
  ASSUME Settled, NEW l \in DOMAIN lot
  PROVE  Grown(l, lot, Given(lot, l))
BY TableShape DEF Settled, Grown, LotsGrow

LEMMA GrownOnce ==
  ASSUME Settled, NEW l \in DOMAIN lot, ~IsPending(route, lot[l]), NEW g \in Nat, NEW lots, Grown(l, lots, g),
         NEW y, Standing(route, y, Len(lots) + 1), y.source = l, y.status = "received",
         y.q <= lot[l].q - g
  PROVE  Grown(l, Append(lots, y), g + y.q) /\ Len(Append(lots, y)) = Len(lots) + 1
<1> DEFINE new == Append(lots, y)
           n == Len(lots)
<1>1. /\ IsTable(lots) /\ AllFit(route, lots) /\ LotsGrow(lot, lots)
      /\ l \in DOMAIN lots /\ lots[l] = lot[l] /\ Given(lots, l) = g
  BY DEF Grown
<1>2. /\ Len(new) = n + 1 /\ DOMAIN new = 1 .. (n + 1)
      /\ n \in Nat /\ DOMAIN lots = 1 .. n
      /\ \A k \in DOMAIN lots : new[k] = lots[k]
      /\ new[n + 1] = y
  BY <1>1, TableShape, TableAppend
<1>3. /\ IsTable(new) /\ AllFit(route, new) /\ LotsGrow(lots, new)
  BY <1>1, LotAdded DEF Settled
<1>4. LotsGrow(lot, new)
  BY <1>1, <1>3 DEF LotsGrow
<1>5. Given(new, l) = g + y.q
  <2>1. y.q \in Nat /\ Weighs(lots)
    BY <1>1, LotsWeigh DEF Standing
  <2>2. Given(new, l) = g + When(Draws(y, l), y.q)
    BY <1>1, <2>1, GivenAppend
  <2>. QED  BY <2>2 DEF Draws, When
<1> HIDE DEF new
<1>6. l \in DOMAIN new /\ new[l] = lot[l]
  BY <1>1, <1>2
<1>. QED  BY <1>2, <1>3, <1>4, <1>5, <1>6 DEF Grown, new

\* Where nothing is misallocated no serial is cut out of a rework.
LEMMA WellAllocated ==
  ASSUME Settled, NEW l \in DOMAIN lot, NEW s, NEW made \in 1..OnHand(l), NEW scrap \in 0..1,
         Process(l, s, made, scrap), ~Misallocates
  PROVE  ~(Active(l) /\ lot[l].shared /\ IsSplitStep(l, StepAt(l)))
<1> DEFINE rest == OnHand(l) - made - scrap
           n == Len(lot)
           A == Output(l, "produced", s, made)
           B == Output(l, "scrap", s, scrap)
           C == Output(l, "remaining", s, rest)
<1>. SUFFICES ASSUME Active(l), lot[l].shared, IsSplitStep(l, StepAt(l)) PROVE FALSE
  OBVIOUS
<1>1. lot' = lot \o (<<A>> \o (IF scrap > 0 THEN <<B>> ELSE <<>>) \o (IF rest > 0 THEN <<C>> ELSE <<>>))
  BY DEF Process
<1>2. DOMAIN lot[l] = LotColumns
  BY LotFitsIs DEF Settled, AllFit, Standing, LotColumns
<1>3. A.source = l /\ A.shared = FALSE
  BY <1>2, ZenonT(30) DEF Output, LotColumns, NewLot
<1>4. IsTable(lot) /\ n \in Nat /\ DOMAIN lot = 1 .. n /\ l # 0
  <2>1. IsTable(lot)
    BY DEF Settled
  <2>. QED  BY <2>1, TableShape
<1> HIDE DEF A, B, C, n
<1>5. Joined(lot, A, B, C)
  BY <1>4, TableLines
<1>6. \/ lot' = Append(lot, A)
      \/ lot' = Append(Append(lot, A), B)
      \/ lot' = Append(Append(lot, A), C)
      \/ lot' = Append(Append(Append(lot, A), B), C)
  BY <1>1, <1>5 DEF Joined
<1>7. n + 1 \in DOMAIN lot' /\ lot'[n + 1] = A
  <2>1. /\ IsTable(Append(lot, A)) /\ Len(Append(lot, A)) = n + 1
        /\ n + 1 \in DOMAIN Append(lot, A) /\ Append(lot, A)[n + 1] = A
    BY <1>4, TableAppend DEF n
  <2>2. ASSUME NEW t, IsTable(t), n + 1 \in DOMAIN t, t[n + 1] = A, NEW d
        PROVE  IsTable(Append(t, d)) /\ n + 1 \in DOMAIN Append(t, d) /\ Append(t, d)[n + 1] = A
    <3>1. /\ IsTable(Append(t, d)) /\ Len(t) \in Nat /\ DOMAIN t = 1 .. Len(t)
          /\ DOMAIN Append(t, d) = 1 .. (Len(t) + 1) /\ \A k \in DOMAIN t : Append(t, d)[k] = t[k]
      BY <2>2, TableAppend, TableShape
    <3>. QED  BY <2>2, <3>1
  <2>. QED  BY <1>6, <2>1, <2>2
<1>8. n + 1 \notin DOMAIN lot
  BY <1>4
<1>. QED  BY <1>3, <1>4, <1>7, <1>8 DEF Misallocates

LEMMA FitOfProcess ==
  ASSUME FitInv, NEW l \in DOMAIN lot, NEW s, NEW made \in 1..OnHand(l), NEW scrap \in 0..1,
         Process(l, s, made, scrap), ~Misallocates
  PROVE  FitInv'
<1> DEFINE x == lot[l]
           rest == OnHand(l) - made - scrap
           n == Len(lot)
           g == Given(lot, l)
           A == Output(l, "produced", s, made)
           B == Output(l, "scrap", s, scrap)
           C == Output(l, "remaining", s, rest)
           row == [lot |-> l, team |-> lot[l].team, kind |-> IF Active(l) THEN "rework" ELSE "normal",
                   route |-> lot[l].route, index |-> StepAt(l), outputs |-> {n + 1}, completed |-> made]
<1>1. /\ UNCHANGED files /\ Spend("work") /\ MayWork(l) /\ rest >= 0
      /\ x.shared /\ IsSplitStep(l, StepAt(l)) => s \in DOMAIN x.group.members
      /\ lot' = lot \o (<<A>> \o (IF scrap > 0 THEN <<B>> ELSE <<>>) \o (IF rest > 0 THEN <<C>> ELSE <<>>))
      /\ work' = Append(work, row)
  BY DEF Process, Registered
<1>2. /\ made \in Nat \ {0} /\ scrap \in Nat /\ rest \in Nat /\ made + scrap + rest = x.q - g
      /\ g \in Nat /\ x.q \in Nat /\ n \in Nat /\ l \in Nat \ {0} /\ l <= n /\ IsTable(lot)
  <2>1. /\ OnHand(l) \in Nat /\ OnHand(l) = x.q - g /\ g \in Nat /\ x.q \in Nat
        /\ l \in Nat \ {0} /\ n \in Nat /\ l \in 0 .. n
    BY OnHandIs DEF FitInv
  <2>2. rest = OnHand(l) - made - scrap /\ rest >= 0 /\ IsTable(lot)
    BY <1>1 DEF FitInv, Settled
  <2> HIDE DEF g, n, rest
  <2>3. made \in Nat \ {0} /\ scrap \in Nat
    BY <2>1
  <2>. QED  BY <2>1, <2>2, <2>3
<1>3. ~IsPending(route, x)
  BY <1>1, WorkedFits DEF FitInv, IsPending
<1>4. ASSUME NEW role \in {"produced", "scrap", "remaining"}, NEW q \in Nat \ {0},
             NEW k \in Nat, l <= k
      PROVE  LET y == Output(l, role, s, q) IN
             /\ Standing(route, y, k + 1)
             /\ y.source = l /\ y.q = q /\ y.status = "received"
  <2>1. k + 1 \in Nat /\ l \in 0 .. ((k + 1) - 1)
    BY <1>2, <1>4
  <2>2. /\ Settled /\ MayWork(l)
        /\ lot[l].shared /\ IsSplitStep(l, StepAt(l)) => s \in DOMAIN lot[l].group.members
    BY <1>1 DEF FitInv
  <2>4. ~(Active(l) /\ lot[l].shared /\ IsSplitStep(l, StepAt(l)))
    BY <2>2, WellAllocated
  <2> HIDE DEF x
  <2>3. /\ Standing(route, Output(l, role, s, q), k + 1)
        /\ Output(l, role, s, q).source = l /\ Output(l, role, s, q).q = q
        /\ Output(l, role, s, q).status = "received"
    BY <1>4, <2>1, <2>2, <2>4, OutputStands
  <2>. QED  BY <2>3 DEF x
<1> DEFINE one == Append(lot, A)
<1>5. Grown(l, one, g + made) /\ Len(one) = n + 1
  <2>1. /\ Standing(route, A, n + 1)
        /\ A.source = l /\ A.q = made /\ A.status = "received"
    BY <1>2, <1>4
  <2>2. Grown(l, lot, g)
    BY GrownAtFirst DEF FitInv
  <2> HIDE DEF A, g, n
  <2>3. made <= x.q - g
    BY <1>2
  <2>4. Grown(l, Append(lot, A), g + A.q) /\ Len(Append(lot, A)) = Len(lot) + 1
    BY <1>2, <1>3, <2>1, <2>2, <2>3, GrownOnce DEF FitInv, n
  <2>. QED  BY <2>1, <2>4 DEF n
<1> HIDE DEF one, g, rest
<1>6. ASSUME NEW lots, NEW h \in Nat, Grown(l, lots, h), Len(lots) \in Nat, l <= Len(lots),
             NEW role \in {"scrap", "remaining"}, NEW q \in Nat \ {0}, q <= x.q - h
      PROVE  /\ Grown(l, Append(lots, Output(l, role, s, q)), h + q)
             /\ Len(Append(lots, Output(l, role, s, q))) = Len(lots) + 1
  <2> DEFINE y == Output(l, role, s, q)
  <2>1. /\ Standing(route, y, Len(lots) + 1)
        /\ y.source = l /\ y.q = q /\ y.status = "received"
    BY <1>4, <1>6
  <2> HIDE DEF y
  <2>2. Grown(l, Append(lots, y), h + y.q) /\ Len(Append(lots, y)) = Len(lots) + 1
    BY <1>3, <1>6, <2>1, GrownOnce DEF FitInv
  <2>. QED  BY <2>1, <2>2 DEF y
<1> DEFINE two == IF scrap > 0 THEN Append(one, B) ELSE one
<1>7. Grown(l, two, g + made + scrap) /\ Len(two) \in Nat /\ l <= Len(two)
  <2>1. CASE scrap = 0
    BY <1>2, <1>5, <2>1
  <2>2. CASE scrap # 0
    <3>1. Grown(l, Append(one, B), g + made + scrap) /\ Len(Append(one, B)) = Len(one) + 1
      BY <1>2, <1>5, <1>6, <2>2
    <3> HIDE DEF B
    <3>. QED  BY <1>2, <1>5, <2>2, <3>1
  <2>. QED  BY <2>1, <2>2
<1> HIDE DEF two
<1> DEFINE three == IF rest > 0 THEN Append(two, C) ELSE two
<1>8. \E h \in Nat : Grown(l, three, h)
  <2>1. CASE rest = 0
    <3>1. g + made + scrap \in Nat
      BY <1>2
    <3>. QED  BY <1>7, <2>1, <3>1
  <2>2. CASE rest # 0
    <3>1. /\ rest \in Nat \ {0} /\ g + made + scrap \in Nat /\ rest <= x.q - (g + made + scrap)
          /\ (g + made + scrap) + rest \in Nat /\ rest > 0
      BY <1>2, <2>2
    <3>2. Grown(l, Append(two, C), (g + made + scrap) + rest)
      BY <1>6, <1>7, <3>1
    <3> HIDE DEF C
    <3>. QED  BY <3>1, <3>2
  <2>. QED  BY <2>1, <2>2
<1>9. lot' = three
  <2> HIDE DEF A, B, C
  <2>1. Joined(lot, A, B, C)
    BY <1>2, TableLines
  <2>. QED  BY <1>1, <2>1 DEF one, two, Joined
<1>10. n + 1 \in DOMAIN lot' /\ l \in DOMAIN lot'
  <2>1. PICK h : Grown(l, three, h)
    BY <1>8
  <2>2. IsTable(three) /\ l \in DOMAIN three
    BY <2>1 DEF Grown
  <2>3. Len(three) \in Nat /\ DOMAIN three = 1..Len(three)
    BY <2>2, TableShape
  <2>4. n + 1 <= Len(three)
    <3>1. IsTable(one) /\ IsTable(two)
      BY <1>5, <1>7 DEF Grown
    <3>2. Len(two) >= n + 1
      BY <1>2, <1>5, <3>1, TableAppend DEF two
    <3>3. three = two \/ Len(three) = Len(two) + 1
      BY <3>1, TableAppend
    <3>. QED  BY <1>2, <1>7, <3>2, <3>3
  <2> HIDE DEF three, n
  <2>. QED  BY <1>2, <1>9, <2>2, <2>3, <2>4
<1>11. WorkKept
  <2>1. row.lot = l /\ row.outputs = {n + 1}
    OBVIOUS
  <2> HIDE DEF row
  <2>. QED  BY <1>1, <1>10, <2>1 DEF WorkKept
<1>12. /\ IsTable(lot') /\ AllFit(route, lot') /\ LotsGrow(lot, lot')
  BY <1>8, <1>9 DEF Grown
<1>13. "work" \in Kinds /\ UNCHANGED files /\ Spend("work")
  BY <1>1 DEF Kinds
<1>. QED  BY <1>11, <1>12, <1>13, LotsWritten

LEMMA FitOfInPlace ==
  ASSUME FitInv, NEW l \in DOMAIN lot, ProcessInPlace(l)
  PROVE  FitInv'
<1> DEFINE x == lot[l]
           i == StepAt(l)
           what == <<x.team, Steps(x.route)[i].task>>
           y == [x EXCEPT !.index = i, !.complete = TRUE, !.waiting = FALSE,
                          !.rounds = IF ~Active(l) THEN @
                                     ELSE 1 + (IF EndsAt(x, i) THEN route[x.route].round ELSE @),
                          !.done = IF Active(l) THEN @ ELSE Append(@, what),
                          !.redone = IF Active(l) THEN Append(@, what) ELSE @]
           row == [lot |-> l, team |-> lot[l].team, kind |-> IF Active(l) THEN "rework" ELSE "normal",
                   route |-> lot[l].route, index |-> StepAt(l), outputs |-> {}, completed |-> OnHand(l)]
<1>1. /\ UNCHANGED files /\ Spend("inplace") /\ MayWork(l)
      /\ lot' = [lot EXCEPT ![l] = y] /\ work' = Append(work, row)
  BY DEF ProcessInPlace, Registered
<1>2. /\ x.status = "received" /\ Standing(route, x, l)
      /\ x.rework # 0 => route[x.rework].state = "published"
  BY <1>1, WorkedFits DEF FitInv
<1>3. /\ DOMAIN y = LotColumns /\ y.status = x.status /\ y.source = x.source /\ y.q = x.q
      /\ y.team = x.team /\ y.route = x.route /\ y.rework = x.rework
      /\ y.serial = x.serial /\ y.shared = x.shared /\ y.group = x.group /\ y.index = i
  BY <1>2 DEF Standing, LotColumns, NewLot
<1> HIDE DEF y
<1>4. Standing(route, y, l)
  <2>1. /\ x.q \in Nat \ {0} /\ l \in Nat /\ x.source \in 0 .. (l - 1)
    BY <1>2, OnHandIs DEF FitInv, Standing
  <2>. QED  BY <1>1, <1>2, <1>3, <2>1, SameRouteStands DEF FitInv
<1>5. ~IsPending(route, y)
  BY <1>2, <1>3 DEF IsPending
<1>6. WorkKept
  <2>1. DOMAIN lot' = DOMAIN lot
    BY <1>1, TableChange DEF FitInv, Settled
  <2>. QED  BY <1>1, <2>1 DEF WorkKept
<1>7. "inplace" \in Kinds
  BY DEF Kinds
<1>. QED  BY <1>1, <1>3, <1>4, <1>5, <1>6, <1>7, OneLotChanged

LEMMA FitOfResume ==
  ASSUME FitInv, NEW l \in DOMAIN lot, Resume(l)
  PROVE  FitInv'
<1> DEFINE x == lot[l]
           back == route[x.route].resume
           y == [x EXCEPT !.route = back.route, !.index = back.index, !.complete = back.complete,
                          !.rework = 0, !.waiting = FALSE, !.redone = <<>>]
<1>1. /\ UNCHANGED files /\ UNCHANGED work /\ Spend("resume") /\ MayResume(l)
      /\ lot' = [lot EXCEPT ![l] = y]
  BY DEF Resume
<1>2. /\ Standing(route, y, l)
      /\ y.source = x.source /\ y.q = x.q /\ y.serial = x.serial /\ y.shared = x.shared
      /\ y.status = x.status /\ y.rework = 0
  BY <1>1, ResumedStands DEF FitInv
<1> HIDE DEF y
<1>3. ~IsPending(route, y)
  BY <1>2 DEF IsPending
<1>4. "resume" \in Kinds /\ WorkKept
  BY <1>1 DEF Kinds, WorkKept
<1>. QED  BY <1>1, <1>2, <1>3, <1>4, OneLotChanged

-----------------------------------------------------------------------------
(* Rows are written.                                                        *)

LEMMA ParentsFit ==
  ASSUME NEW rows, NEW lots, \A r \in DOMAIN rows : RowFits(rows, lots, r)
  PROVE  Parents(rows)
BY DEF RowFits, Parents

\* The rest of the tables when some rows are written, but for what is published.
LEMMA RowsWritten ==
  ASSUME FitInv, IsTable(route'), Len(route) <= Len(route'), RowsGrow(route, route'),
         IsTable(lot'), AllFit(route', lot'), LotsGrow(lot, lot'), UNCHANGED work,
         BudgetFits(route, left'),
         \A r \in DOMAIN route' : \/ r \in DOMAIN route /\ route'[r] = route[r]
                                  \/ RowFits(route', lot', r) /\ route'[r].of \in 0..Len(work)
  PROVE  /\ Settled' /\ WorkFits' /\ BudgetFits(route, left)'
         /\ \A r \in DOMAIN route : RootIn(route', r) = RootIn(route, r)
<1>1. \A r \in DOMAIN route' : RowFits(route', lot', r) /\ route'[r].of \in 0..Len(work)
  <2>. SUFFICES ASSUME NEW r \in DOMAIN route', r \in DOMAIN route, route'[r] = route[r]
                PROVE  RowFits(route', lot', r) /\ route'[r].of \in 0..Len(work)
    OBVIOUS
  <2>1. RowFits(route', lot', r)
    BY RowGrows DEF FitInv, Settled
  <2>. QED  BY <2>1 DEF FitInv, WorkFits
<1>2. Settled'
  BY <1>1 DEF Settled
<1>3. WorkFits'
  <2>1. DOMAIN lot \subseteq DOMAIN lot'
    BY TableShape DEF LotsGrow, FitInv, Settled
  <2>. QED  BY <1>1, <2>1 DEF FitInv, WorkFits
<1>4. BudgetFits(route, left)'
  BY DEF BudgetFits, RowsGrow
<1>5. \A r \in DOMAIN route : RootIn(route', r) = RootIn(route, r)
  <2>1. Parents(route) /\ Parents(route')
    BY <1>1, ParentsFit DEF FitInv, Settled
  <2>2. IsTable(route) /\ IsTable(route')
    BY DEF FitInv, Settled
  <2>3. \A r \in DOMAIN route : r \in DOMAIN route' /\ route'[r].parent = route[r].parent
    BY DEF RowsGrow
  <2>. QED  BY <2>1, <2>2, <2>3, RootStays
<1>. QED  BY <1>2, <1>3, <1>4, <1>5

LEMMA PathRowsStay ==
  ASSUME NEW r, route'[r].serials = route[r].serials, route'[r].steps = route[r].steps
  PROVE  PathRows(r)' = PathRows(r)
BY DEF PathRows, Steps

\* Reservations are added, none is changed.
ReservedGrows == \A k \in DOMAIN reserved : k \in DOMAIN reserved' /\ reserved'[k] = reserved[k]

LEMMA ReserveAdds ==
  ASSUME NEW row, NEW root, Free(row, root), Reserve(row, root)
  PROVE  /\ ReservedGrows
         /\ \A k \in Keys(row) : k \in DOMAIN reserved' /\ reserved'[k] = root
BY DEF Free, Reserve, ReservedGrows

\* Nothing is published: the paths and the reservations stay.
LEMMA DraftsWritten ==
  ASSUME FitInv, IsTable(route'), Len(route) <= Len(route'), RowsGrow(route, route'),
         IsTable(lot'), AllFit(route', lot'), LotsGrow(lot, lot'), UNCHANGED work, UNCHANGED path,
         NEW k \in Kinds, Spend(k),
         \A r \in DOMAIN route' : \/ r \in DOMAIN route /\ route'[r] = route[r]
                                  \/ RowFits(route', lot', r) /\ route'[r].of \in 0..Len(work),
         \A r \in DOMAIN route' : route'[r].state = "published" => r \in DOMAIN route /\ Published(r),
         ReservedGrows
  PROVE  FitInv'
<1>1. BudgetFits(route, left')
  BY SpendKeeps DEF FitInv
<1>3. /\ Settled' /\ WorkFits' /\ BudgetFits(route, left)'
      /\ \A r \in DOMAIN route : RootIn(route', r) = RootIn(route, r)
  BY <1>1, RowsWritten
<1>4. \A r \in DOMAIN route : Published(r) =>
        /\ r \in DOMAIN route' /\ Published(r)' /\ route'[r].kind = route[r].kind
        /\ route'[r].serials = route[r].serials /\ route'[r].steps = route[r].steps
  BY DEF RowsGrow, Published
<1>5. \A r \in DOMAIN route' : Published(r)' => r \in DOMAIN route /\ Published(r)
  BY DEF Published
<1>6. PathFits'
  <2>1. {s \in DOMAIN route' : Published(s)'} = {s \in DOMAIN route : Published(s)}
    BY <1>4, <1>5
  <2>2. \A r \in {s \in DOMAIN route : Published(s)} : PathRows(r)' = PathRows(r)
    BY <1>4, PathRowsStay
  <2>3. {PathRows(r)' : r \in {s \in DOMAIN route' : Published(s)'}}
          = {PathRows(r) : r \in {s \in DOMAIN route : Published(s)}}
    BY <2>1, <2>2
  <2>. QED  BY <2>3 DEF FitInv, PathFits
<1>7. ReservedFits'
  <2>. SUFFICES ASSUME NEW r \in DOMAIN route', Published(r)', NEW key \in Keys(route'[r])
                PROVE  key \in DOMAIN reserved' /\ reserved'[key] = RootIn(route', r)
    BY DEF ReservedFits, Root
  <2>1. r \in DOMAIN route /\ Published(r)
    BY <1>5
  <2>2. key \in Keys(route[r])
    BY <1>4, <2>1 DEF Keys
  <2>3. key \in DOMAIN reserved /\ reserved[key] = RootIn(route, r)
    BY <2>1, <2>2 DEF FitInv, ReservedFits, Root
  <2>. QED  BY <1>3, <2>1, <2>3 DEF ReservedGrows
<1>. QED  BY <1>3, <1>6, <1>7 DEF FitInv

\* What is asked of a row.
RowStands(rows, lots, row, r) ==
    /\ DOMAIN row = Columns
    /\ DOMAIN row.resume = {"route", "index", "complete", "team"}
    /\ IsTable(row.serials) /\ IsTable(row.steps)
    /\ row.kind \in {"normal", "rework"} /\ row.state \in {"draft", "published"}
    /\ row.parent \in 0..(r - 1) /\ row.version \in Nat \ {0}
    /\ row.drawings \subseteq Drawings /\ Cardinality(row.drawings) <= MaxDrawings
    /\ row.source \in 0..Len(lots)
    /\ row.state = "published" => ValidSteps(row)
    /\ row.kind = "rework" =>
         /\ row.source # 0
         /\ row.serials = <<lots[row.source].serial>> \/ lots[row.source].shared
         /\ ReturnFits(rows, row)
         /\ row.parent # 0 => /\ rows[row.parent].kind = "rework" /\ rows[row.parent].state = "published"
                              /\ Place(row.resume) = Place(rows[row.parent].resume)

LEMMA RowFitsIs ==
  ASSUME NEW rows, NEW lots, NEW r
  PROVE  RowFits(rows, lots, r) <=> RowStands(rows, lots, rows[r], r)
BY DEF RowFits, RowStands, Columns

\* A draft that was given other contents, or is a revision of a route.
LEMMA DraftStands ==
  ASSUME NEW rows, NEW lots, NEW old, NEW r, RowStands(rows, lots, old, r),
         NEW row, DOMAIN row = Columns, row.state = "draft", row.kind = old.kind,
         row.source = old.source, row.resume = old.resume,
         NEW n \in Nat, row.parent \in 0..(n - 1), row.version \in Nat \ {0},
         IsTable(row.serials), IsTable(row.steps), old.kind = "rework" => row.serials = old.serials,
         row.drawings \subseteq Drawings, Cardinality(row.drawings) <= MaxDrawings,
         row.parent = old.parent \/ (row.parent = r /\ old = rows[r] /\ old.state = "published")
  PROVE  RowStands(rows, lots, row, n)
<1>1. old.kind = "rework" => ReturnFits(rows, row)
  BY DEF RowStands, ReturnFits
<1>2. row.kind = "rework" /\ row.parent # 0 =>
        /\ rows[row.parent].kind = "rework" /\ rows[row.parent].state = "published"
        /\ Place(row.resume) = Place(rows[row.parent].resume)
  BY DEF RowStands
<1>. QED  BY <1>1, <1>2 DEF RowStands

LEMMA RowStandsGrow ==
  ASSUME NEW rows, NEW new, RowsGrow(rows, new), NEW lots, NEW row, NEW r, RowStands(rows, lots, row, r),
         row.parent \in {0} \union DOMAIN rows
  PROVE  RowStands(new, lots, row, r)
<1>1. row.kind = "rework" => ReturnFits(new, row)
  BY ReturnGrows DEF RowStands
<1>2. row.kind = "rework" /\ row.parent # 0 =>
        /\ new[row.parent].kind = "rework" /\ new[row.parent].state = "published"
        /\ Place(row.resume) = Place(new[row.parent].resume)
  BY DEF RowStands, RowsGrow
<1>. QED  BY <1>1, <1>2 DEF RowStands

LEMMA ReworkIsThere ==
  ASSUME Settled, NEW l \in DOMAIN lot, lot[l].rework # 0
  PROVE  lot[l].rework \in DOMAIN route
<1>1. lot[l].rework \in 0..Len(route)
  BY DEF Settled, AllFit, LotFits
<1>. QED  BY <1>1, TableShape DEF Settled

LEMMA FitOfInsert ==
  ASSUME FitInv, NEW k \in Kinds, Spend(k), NEW row, route' = Append(route, row),
         UNCHANGED <<lot, work, path>>, ReservedGrows,
         RowStands(route, lot, row, Len(route) + 1), row.of \in 0..Len(work), row.state = "draft"
  PROVE  FitInv'
<1> DEFINE n == Len(route)
<1>1. /\ IsTable(route') /\ Len(route') = n + 1 /\ DOMAIN route' = 1 .. (n + 1)
      /\ n \in Nat /\ DOMAIN route = 1 .. n
      /\ \A r \in DOMAIN route : route'[r] = route[r]
      /\ route'[n + 1] = row
  BY TableAppend, TableShape DEF FitInv, Settled
<1>2. \A r \in DOMAIN route' : r \in DOMAIN route \/ r = n + 1
  BY <1>1
<1>3. RowsGrow(route, route') /\ Len(route) <= Len(route')
  BY <1>1 DEF RowsGrow
<1>4. RowFits(route', lot', n + 1)
  <2>2. row.parent \in {0} \union DOMAIN route
    BY <1>1 DEF RowStands
  <2>1. RowStands(route', lot', row, n + 1)
    BY <1>3, <2>2, RowStandsGrow
  <2>. QED  BY <1>1, <2>1, RowFitsIs
<1>5. AllFit(route', lot')
  <2>1. \A l \in DOMAIN lot : lot[l].rework # 0 => route'[lot[l].rework].state = route[lot[l].rework].state
    BY <1>1, ReworkIsThere DEF FitInv
  <2>2. IsTable(route) /\ AllFit(route, lot) /\ IsTable(route') /\ Returns(route)
    BY <1>1, SettledReturns DEF FitInv, Settled
  <2>3. AllFit(route', lot)
    BY ONLY <1>3, <2>1, <2>2, LotsOverRows
  <2>. QED  BY <2>3
<1>6. IsTable(lot') /\ LotsGrow(lot, lot')
  BY TableShape DEF FitInv, Settled, LotsGrow
<1>7. \A r \in DOMAIN route' : \/ r \in DOMAIN route /\ route'[r] = route[r]
                               \/ RowFits(route', lot', r) /\ route'[r].of \in 0..Len(work)
  BY <1>1, <1>2, <1>4
<1>8. \A r \in DOMAIN route' : route'[r].state = "published" => r \in DOMAIN route /\ Published(r)
  BY <1>1, <1>2 DEF Published
<1>. QED  BY <1>1, <1>3, <1>5, <1>6, <1>7, <1>8, DraftsWritten

LEMMA FitOfChange ==
  ASSUME FitInv, NEW k \in Kinds, Spend(k), NEW r \in DOMAIN route, route[r].state = "draft",
         NEW row, route' = [route EXCEPT ![r] = row],
         UNCHANGED <<lot, work, path>>, ReservedGrows,
         RowStands(route, lot, row, r), row.of = route[r].of, row.state = "draft",
         row.kind = route[r].kind, row.parent = route[r].parent, row.source = route[r].source,
         Place(row.resume) = Place(route[r].resume)
  PROVE  FitInv'
<1>1. /\ IsTable(route') /\ Len(route') = Len(route) /\ DOMAIN route' = DOMAIN route
      /\ Len(route) \in Nat
      /\ \A q \in DOMAIN route : route'[q] = IF q = r THEN row ELSE route[q]
  BY TableChange, TableShape DEF FitInv, Settled
<1>3. RowsGrow(route, route') /\ Len(route) <= Len(route')
  BY <1>1 DEF RowsGrow
<1>4. RowFits(route', lot', r)
  <2>2. row.parent \in {0} \union DOMAIN route
    BY TableShape DEF RowStands, FitInv, Settled
  <2>1. RowStands(route', lot', row, r)
    BY <1>3, <2>2, RowStandsGrow
  <2>. QED  BY <1>1, <2>1, RowFitsIs
<1>5. AllFit(route', lot')
  <2>1. \A l \in DOMAIN lot : lot[l].rework # 0 => route'[lot[l].rework].state = route[lot[l].rework].state
    BY <1>1, ReworkIsThere DEF FitInv
  <2>2. IsTable(route) /\ AllFit(route, lot) /\ IsTable(route') /\ Returns(route)
    BY <1>1, SettledReturns DEF FitInv, Settled
  <2>3. AllFit(route', lot)
    BY ONLY <1>3, <2>1, <2>2, LotsOverRows
  <2>. QED  BY <2>3
<1>6. IsTable(lot') /\ LotsGrow(lot, lot')
  BY TableShape DEF FitInv, Settled, LotsGrow
<1>7. \A q \in DOMAIN route' : \/ q \in DOMAIN route /\ route'[q] = route[q]
                               \/ RowFits(route', lot', q) /\ route'[q].of \in 0..Len(work)
  BY <1>1, <1>4 DEF FitInv, WorkFits
<1>8. \A q \in DOMAIN route' : route'[q].state = "published" => q \in DOMAIN route /\ Published(q)
  BY <1>1 DEF Published
<1>. QED  BY <1>1, <1>3, <1>5, <1>6, <1>7, <1>8, DraftsWritten

\* An edit from a screen: the row's new contents and its new version.
LEMMA FitOfWrite ==
  ASSUME ReviewInv, FitInv, NEW k \in Kinds, Spend(k), NEW p \in People, MayEdit(p), NEW row, Write(p, row),
         ReservedGrows,
         DOMAIN row = Columns, row.state = "draft", row.kind = route[screen[p].route].kind,
         row.source = route[screen[p].route].source, row.resume = route[screen[p].route].resume,
         row.parent = route[screen[p].route].parent, row.of = route[screen[p].route].of,
         row.version = route[screen[p].route].version,
         IsTable(row.serials), IsTable(row.steps),
         row.kind = "rework" => row.serials = route[screen[p].route].serials,
         row.drawings \subseteq Drawings, Cardinality(row.drawings) <= MaxDrawings
  PROVE  FitInv'
<1> DEFINE r == screen[p].route
           old == route[r]
           new == [row EXCEPT !.version = @ + 1]
<1>1. r \in DOMAIN route /\ old.state = "draft"
  BY DEF MayEdit, Editable, ReviewInv, ScreenFits
<1>2. /\ route' = [route EXCEPT ![r] = new] /\ UNCHANGED <<lot, work, path>>
  BY DEF Write
<1>3. RowStands(route, lot, old, r)
  BY <1>1, RowFitsIs DEF FitInv, Settled
<1>4. /\ DOMAIN new = Columns /\ new.state = "draft" /\ new.kind = row.kind /\ new.source = row.source
      /\ new.resume = row.resume /\ new.parent = row.parent /\ new.of = row.of
      /\ new.version = row.version + 1 /\ new.serials = row.serials /\ new.steps = row.steps
      /\ new.drawings = row.drawings
  BY DEF Columns, NewRow
<1> HIDE DEF new
<1>5. r \in Nat /\ new.version \in Nat \ {0} /\ new.parent \in 0..(r - 1)
  <2>1. old.version \in Nat /\ old.parent \in 0..(r - 1)
    BY <1>3 DEF RowStands
  <2>2. r \in Nat
    BY DEF ReviewInv
  <2>. QED  BY <1>4, <2>1, <2>2
<1>6. RowStands(route, lot, new, r)
  BY <1>3, <1>4, <1>5, DraftStands
<1>7. Place(new.resume) = Place(old.resume)
  BY <1>4
<1>. QED  BY <1>1, <1>2, <1>4, <1>6, <1>7, FitOfChange

LEMMA FitOfStill ==
  ASSUME FitInv, UNCHANGED tables, UNCHANGED left \/ \E k \in Kinds : Spend(k)
  PROVE  FitInv'
<1>1. BudgetFits(route, left')
  <2>1. CASE UNCHANGED left
    BY <2>1 DEF FitInv
  <2>2. CASE \E k \in Kinds : Spend(k)
    BY <2>2, SpendKeeps DEF FitInv
  <2>. QED  BY <2>1, <2>2
<1>2. route' = route /\ lot' = lot /\ work' = work /\ path' = path /\ reserved' = reserved
  BY DEF tables
<1>3. Settled'
  BY <1>1, <1>2 DEF FitInv, Settled, AllFit
<1>4. WorkFits' /\ BudgetFits(route, left)'
  BY <1>1, <1>2 DEF FitInv, WorkFits
<1>5. PathFits'
  BY <1>2 DEF FitInv, PathFits, PathRows, Published, Steps
<1>6. ReservedFits'
  BY <1>2 DEF FitInv, ReservedFits, Published, Root
<1>. QED  BY <1>3, <1>4, <1>5, <1>6 DEF FitInv

\* What an edit finds on its screen.
LEMMA EditedFits ==
  ASSUME ReviewInv, FitInv, NEW p \in People, MayEdit(p)
  PROVE  LET r == screen[p].route
             old == route[r]
         IN /\ r \in DOMAIN route /\ old.state = "draft" /\ DOMAIN old = Columns
            /\ IsTable(old.serials) /\ IsTable(old.steps)
            /\ old.drawings \subseteq Drawings /\ Cardinality(old.drawings) <= MaxDrawings
            /\ IsFiniteSet(old.drawings)
<1> DEFINE r == screen[p].route
           old == route[r]
<1>1. r \in DOMAIN route /\ old.state = "draft"
  BY DEF MayEdit, Editable, ReviewInv, ScreenFits
<1>2. RowStands(route, lot, old, r)
  BY <1>1, RowFitsIs DEF FitInv, Settled
<1>3. IsFiniteSet(old.drawings)
  BY <1>2, FilesAssumption, FS_Subset DEF RowStands, FilesAssumption
<1>. QED  BY <1>1, <1>2, <1>3 DEF RowStands

LEMMA FitOfCreate ==
  ASSUME FitInv, NEW p \in People, NEW c \in left.contents, NEW drawn \in SUBSET Drawings,
         NEW named \in BOOLEAN, CreateDraft(p, c.serials, c.steps, drawn, named)
  PROVE  FitInv'
<1> DEFINE row == [NewRow("normal", 0, c.serials, c.steps) EXCEPT
                     !.word = 1, !.required = TRUE, !.drawings = drawn,
                     !.author = named, !.reviser = named]
           n == Len(route) + 1
<1>1. /\ Spend("create") /\ Cardinality(drawn) <= MaxDrawings
      /\ Free(row, n) /\ Reserve(row, n)
      /\ route' = Append(route, row) /\ UNCHANGED <<lot, work, path>>
  BY DEF CreateDraft, Insert
<1>2. ReservedGrows
  BY <1>1, ReserveAdds
<1>3. /\ DOMAIN row = Columns /\ DOMAIN row.resume = {"route", "index", "complete", "team"}
      /\ row.serials = c.serials /\ row.steps = c.steps /\ row.kind = "normal" /\ row.state = "draft"
      /\ row.parent = 0 /\ row.version = 1 /\ row.drawings = drawn /\ row.source = 0 /\ row.of = 0
  BY DEF Columns, NewRow
<1> HIDE DEF row
<1>4. IsTable(row.serials) /\ IsTable(row.steps)
  BY <1>3 DEF FitInv, BudgetFits
<1>5. /\ Len(route) \in Nat /\ Len(lot) \in Nat /\ Len(work) \in Nat
      /\ 0 \in 0..(n - 1) /\ 0 \in 0..Len(lot) /\ 0 \in 0..Len(work)
  BY TableShape DEF FitInv, Settled, WorkFits
<1>6. RowStands(route, lot, row, n)
  BY <1>1, <1>3, <1>4, <1>5 DEF RowStands
<1>7. "create" \in Kinds
  BY DEF Kinds
<1>. QED  BY <1>1, <1>2, <1>3, <1>5, <1>6, <1>7, FitOfInsert

LEMMA FitOfRevise ==
  ASSUME FitInv, NEW p \in People, NEW r \in DOMAIN route, Revise(p, r)
  PROVE  FitInv'
<1> DEFINE old == route[r]
           row == [old EXCEPT !.state = "draft", !.version = 1, !.parent = r, !.reviser = FALSE]
           n == Len(route) + 1
<1>1. /\ Spend("revise") /\ route' = Append(route, row) /\ UNCHANGED <<lot, work, path>>
      /\ UNCHANGED reserved /\ old.state = "published"
  BY DEF Revise, Insert, Published
<1>2. RowStands(route, lot, old, r)
  BY RowFitsIs DEF FitInv, Settled
<1>3. /\ DOMAIN row = Columns /\ row.state = "draft" /\ row.kind = old.kind /\ row.source = old.source
      /\ row.resume = old.resume /\ row.parent = r /\ row.version = 1 /\ row.of = old.of
      /\ row.serials = old.serials /\ row.steps = old.steps /\ row.drawings = old.drawings
  BY <1>2 DEF RowStands, Columns, NewRow
<1> HIDE DEF row
<1>4. n \in Nat /\ r \in 0..(n - 1)
  BY TableShape DEF FitInv, Settled
<1>5. RowStands(route, lot, row, n)
  <2>1. /\ IsTable(old.serials) /\ IsTable(old.steps)
        /\ old.drawings \subseteq Drawings /\ Cardinality(old.drawings) <= MaxDrawings
    BY <1>2 DEF RowStands
  <2>. QED  BY <1>1, <1>2, <1>3, <1>4, <2>1, DraftStands
<1>6. row.of \in 0..Len(work)
  BY <1>3 DEF FitInv, WorkFits
<1>7. ReservedGrows /\ "revise" \in Kinds
  BY <1>1 DEF ReservedGrows, Kinds
<1>. QED  BY <1>1, <1>3, <1>5, <1>6, <1>7, FitOfInsert

LEMMA FitOfSave ==
  ASSUME ReviewInv, FitInv, NEW p \in People, NEW c \in left.contents, NEW named \in BOOLEAN,
         SaveDraft(p, c.serials, c.steps, named)
  PROVE  FitInv'
<1> DEFINE r == screen[p].route
           old == route[r]
           new == [old EXCEPT !.serials = c.serials, !.steps = c.steps,
                              !.author = IF old.parent = 0 THEN named ELSE @,
                              !.reviser = named]
           row == [new EXCEPT !.confirmed = IF @ = Fingerprint(new) THEN @ ELSE <<>>]
<1>1. /\ Spend("save") /\ MayEdit(p)
      /\ old.kind = "rework" => c.serials = old.serials
      /\ Free(new, Root(r)) /\ Reserve(new, Root(r)) /\ Write(p, row)
  BY DEF SaveDraft
<1>2. /\ r \in DOMAIN route /\ old.state = "draft" /\ DOMAIN old = Columns
      /\ old.drawings \subseteq Drawings /\ Cardinality(old.drawings) <= MaxDrawings
  BY <1>1, EditedFits
<1>3. ReservedGrows
  BY <1>1, ReserveAdds
<1>4. /\ DOMAIN new = Columns /\ new.state = old.state /\ new.kind = old.kind /\ new.source = old.source
      /\ new.resume = old.resume /\ new.parent = old.parent /\ new.of = old.of /\ new.version = old.version
      /\ new.serials = c.serials /\ new.steps = c.steps /\ new.drawings = old.drawings
  BY <1>2 DEF Columns, NewRow
<1> HIDE DEF new
<1>5. /\ DOMAIN row = Columns /\ row.state = old.state /\ row.kind = old.kind /\ row.source = old.source
      /\ row.resume = old.resume /\ row.parent = old.parent /\ row.of = old.of /\ row.version = old.version
      /\ row.serials = c.serials /\ row.steps = c.steps /\ row.drawings = old.drawings
  BY <1>4 DEF Columns, NewRow
<1> HIDE DEF row
<1>6. IsTable(row.serials) /\ IsTable(row.steps)
  BY <1>5 DEF FitInv, BudgetFits
<1>7. "save" \in Kinds
  BY DEF Kinds
<1>. QED  BY <1>1, <1>2, <1>3, <1>5, <1>6, <1>7, FitOfWrite

LEMMA FitOfFile ==
  ASSUME ReviewInv, FitInv, NEW p \in People,
         AttachWord(p) \/ AttachOrder(p) \/ \E d \in Drawings : UploadDrawing(p, d) \/ RemoveDrawing(p, d)
  PROVE  FitInv'
<1> DEFINE r == screen[p].route
           old == route[r]
<1>1. Spend("file") /\ MayEdit(p) /\ UNCHANGED reserved
  BY DEF AttachWord, AttachOrder, UploadDrawing, RemoveDrawing
<1>2. /\ r \in DOMAIN route /\ old.state = "draft" /\ DOMAIN old = Columns
      /\ IsTable(old.serials) /\ IsTable(old.steps)
      /\ old.drawings \subseteq Drawings /\ Cardinality(old.drawings) <= MaxDrawings
      /\ IsFiniteSet(old.drawings)
  BY <1>1, EditedFits
<1>3. ReservedGrows /\ "file" \in Kinds
  BY <1>1 DEF ReservedGrows, Kinds
<1>4. ASSUME NEW row, Write(p, row), DOMAIN row = Columns, row.state = old.state, row.kind = old.kind,
             row.source = old.source, row.resume = old.resume, row.parent = old.parent, row.of = old.of,
             row.version = old.version, row.serials = old.serials, row.steps = old.steps,
             row.drawings \subseteq Drawings, Cardinality(row.drawings) <= MaxDrawings
      PROVE  FitInv'
  <2>1. IsTable(row.serials) /\ IsTable(row.steps) /\ row.state = "draft"
    BY <1>2, <1>4
  <2>. QED  BY <1>1, <1>3, <1>4, <2>1, FitOfWrite
<1>5. CASE AttachWord(p)
  <2> DEFINE row == [old EXCEPT !.word = @ + 1, !.required = TRUE, !.confirmed = <<>>]
  <2>1. Write(p, row)
    BY <1>5 DEF AttachWord
  <2>2. /\ DOMAIN row = Columns /\ row.state = old.state /\ row.kind = old.kind /\ row.source = old.source
        /\ row.resume = old.resume /\ row.parent = old.parent /\ row.of = old.of /\ row.version = old.version
        /\ row.serials = old.serials /\ row.steps = old.steps /\ row.drawings = old.drawings
    BY <1>2 DEF Columns, NewRow
  <2> HIDE DEF row
  <2>. QED  BY <1>2, <1>4, <2>1, <2>2
<1>6. CASE AttachOrder(p)
  <2> DEFINE row == [old EXCEPT !.order = @ + 1, !.required = TRUE, !.confirmed = <<>>]
  <2>1. Write(p, row)
    BY <1>6 DEF AttachOrder
  <2>2. /\ DOMAIN row = Columns /\ row.state = old.state /\ row.kind = old.kind /\ row.source = old.source
        /\ row.resume = old.resume /\ row.parent = old.parent /\ row.of = old.of /\ row.version = old.version
        /\ row.serials = old.serials /\ row.steps = old.steps /\ row.drawings = old.drawings
    BY <1>2 DEF Columns, NewRow
  <2> HIDE DEF row
  <2>. QED  BY <1>2, <1>4, <2>1, <2>2
<1>7. ASSUME NEW d \in Drawings, UploadDrawing(p, d) PROVE FitInv'
  <2> DEFINE row == [old EXCEPT !.drawings = @ \union {d}]
  <2>1. Write(p, row) /\ Cardinality(old.drawings) < MaxDrawings
    BY <1>7 DEF UploadDrawing
  <2>2. /\ DOMAIN row = Columns /\ row.state = old.state /\ row.kind = old.kind /\ row.source = old.source
        /\ row.resume = old.resume /\ row.parent = old.parent /\ row.of = old.of /\ row.version = old.version
        /\ row.serials = old.serials /\ row.steps = old.steps /\ row.drawings = old.drawings \union {d}
    BY <1>2 DEF Columns, NewRow
  <2> HIDE DEF row
  <2>3. Cardinality(old.drawings \union {d}) <= MaxDrawings
    <3>1. Cardinality(old.drawings) \in Nat
      BY <1>2, FS_CardinalityType
    <3>2. Cardinality(old.drawings \union {d}) \in {Cardinality(old.drawings), Cardinality(old.drawings) + 1}
      BY <1>2, FS_AddElement
    <3>. QED  BY <2>1, <3>1, <3>2, FilesAssumption DEF FilesAssumption
  <2>. QED  BY <1>2, <1>4, <2>1, <2>2, <2>3
<1>8. ASSUME NEW d \in Drawings, RemoveDrawing(p, d) PROVE FitInv'
  <2> DEFINE row == [old EXCEPT !.drawings = @ \ {d}]
  <2>1. Write(p, row)
    BY <1>8 DEF RemoveDrawing
  <2>2. /\ DOMAIN row = Columns /\ row.state = old.state /\ row.kind = old.kind /\ row.source = old.source
        /\ row.resume = old.resume /\ row.parent = old.parent /\ row.of = old.of /\ row.version = old.version
        /\ row.serials = old.serials /\ row.steps = old.steps /\ row.drawings = old.drawings \ {d}
    BY <1>2 DEF Columns, NewRow
  <2> HIDE DEF row
  <2>3. Cardinality(old.drawings \ {d}) <= MaxDrawings
    <3>1. Cardinality(old.drawings) \in Nat /\ Cardinality(old.drawings \ {d}) \in Nat
      BY <1>2, FS_CardinalityType, FS_RemoveElement
    <3>2. Cardinality(old.drawings \ {d}) <= Cardinality(old.drawings)
      BY <1>2, FS_Subset
    <3>. QED  BY <1>2, <3>1, <3>2, FilesAssumption DEF FilesAssumption
  <2>. QED  BY <1>2, <1>4, <2>1, <2>2, <2>3
<1>. QED  BY <1>5, <1>6, <1>7, <1>8

LEMMA FitOfEdit ==
  ASSUME ReviewInv, FitInv, EditRoutes
  PROVE  FitInv'
<1>1. PICK p \in People :
      \/ \E c \in left.contents, named \in BOOLEAN : SaveDraft(p, c.serials, c.steps, named)
      \/ \E c \in left.contents, drawn \in SUBSET Drawings, named \in BOOLEAN :
           CreateDraft(p, c.serials, c.steps, drawn, named)
      \/ \E r \in DOMAIN route : Open(p, r)
      \/ AttachWord(p) \/ AttachOrder(p)
      \/ \E d \in Drawings : UploadDrawing(p, d)
      \/ \E d \in Drawings : RemoveDrawing(p, d)
      \/ \E imports \in BOOLEAN : PublishReads(p, imports)
      \/ \E r \in DOMAIN route : Revise(p, r)
  BY DEF EditRoutes
<1>2. ASSUME NEW r \in DOMAIN route, Open(p, r) PROVE FitInv'
  <2>1. UNCHANGED tables /\ Spend("open") /\ "open" \in Kinds
    BY <1>2 DEF Open, Kinds
  <2>. QED  BY <2>1, FitOfStill
<1>3. ASSUME NEW imports \in BOOLEAN, PublishReads(p, imports) PROVE FitInv'
  <2>1. UNCHANGED tables /\ Spend("publish") /\ "publish" \in Kinds
    BY <1>3 DEF PublishReads, Kinds
  <2>. QED  BY <2>1, FitOfStill
<1>. QED  BY <1>1, <1>2, <1>3, FitOfSave, FitOfCreate, FitOfFile, FitOfRevise

-----------------------------------------------------------------------------
(* Rework is asked for.                                                     *)

LEMMA ShortTables ==
  ASSUME NEW e
  PROVE  IsTable(<<>>) /\ IsTable(<<e>>)
<1>1. <<>> \in Seq({<<>>[i] : i \in DOMAIN <<>>})
  BY EmptySeq
<1>2. <<e>> \in Seq({<<e>>[i] : i \in DOMAIN <<e>>})
  OBVIOUS
<1>. QED  BY <1>1, <1>2 DEF IsTable

LEMMA FitOfRework ==
  ASSUME FitInv, NEW l \in DOMAIN lot, NEW q \in 1..OnHand(l), NEW w \in DOMAIN work, RequestRework(l, q, w)
  PROVE  FitInv'
<1> DEFINE x == lot[l]
           n == Len(route)
           c == Len(lot) + 1
           names == IF x.shared THEN route[x.route].serials ELSE <<x.serial>>
           y == [x EXCEPT !.kind = "split", !.source = l, !.from = x.team, !.q = q,
                          !.waiting = TRUE, !.rework = n + 1]
           row == [NewRow("rework", 0, names, <<>>) EXCEPT
                     !.source = c, !.of = w, !.drawings = route[x.route].drawings,
                     !.resume = [route |-> x.route, index |-> x.index, complete |-> x.complete,
                                 team |-> x.team],
                     !.round = x.rounds + 1]
<1>1. /\ Spend("rework") /\ x.route # 0 /\ ~Pending(l) /\ ~Active(l) /\ x.status = "received"
      /\ lot' = Append(lot, y) /\ route' = Append(route, row)
      /\ UNCHANGED <<path, reserved, work>>
  BY DEF RequestRework, Available, IsLot
<1>2. "rework" \in Kinds
  BY DEF Kinds
<1>3. x.shared \in BOOLEAN
  BY <1>1, LotOnRoute DEF FitInv
<1>4. /\ Standing(route, x, l) /\ x.route \in DOMAIN route /\ route[x.route].kind = "normal"
      /\ Published(x.route) /\ x.index \in DOMAIN Steps(x.route)
  <2>1. Standing(route, x, l)
    BY LotFitsIs DEF FitInv, Settled, AllFit
  <2>2. x.route \in DOMAIN route /\ Published(x.route) /\ x.index \in DOMAIN Steps(x.route)
    BY <1>1, LotOnRoute DEF FitInv, IsFor
  <2>3. route[x.route].kind = "normal"
    BY <1>1, <2>2 DEF FitInv, Settled, RowFits, Active
  <2>. QED  BY <2>1, <2>2, <2>3
<1>5. /\ DOMAIN y = LotColumns /\ y.source = l /\ y.q = q /\ y.waiting = TRUE /\ y.rework = n + 1
      /\ y.status = x.status /\ y.team = x.team /\ y.route = x.route /\ y.index = x.index
      /\ y.complete = x.complete /\ y.serial = x.serial /\ y.shared = x.shared /\ y.group = x.group
  BY <1>4 DEF Standing, LotColumns, NewLot
<1> HIDE DEF y
<1>6. /\ DOMAIN row = Columns /\ DOMAIN row.resume = {"route", "index", "complete", "team"}
      /\ row.kind = "rework" /\ row.state = "draft" /\ row.parent = 0 /\ row.version = 1
      /\ row.serials = names /\ row.steps = <<>> /\ row.source = c /\ row.of = w
      /\ row.drawings = route[x.route].drawings
      /\ row.resume.route = x.route /\ row.resume.index = x.index
      /\ row.resume.complete = x.complete
  BY DEF Columns, NewRow
<1> HIDE DEF row
<1>7. /\ IsTable(route') /\ Len(route') = n + 1 /\ DOMAIN route' = 1 .. (n + 1)
      /\ n \in Nat /\ DOMAIN route = 1 .. n
      /\ \A r \in DOMAIN route : route'[r] = route[r]
      /\ route'[n + 1] = row
  BY <1>1, TableAppend, TableShape DEF FitInv, Settled
<1>8. /\ Len(lot') = c /\ DOMAIN lot' = 1 .. c
      /\ c \in Nat \ {0} /\ DOMAIN lot = 1 .. (c - 1) /\ Len(lot) = c - 1
      /\ \A k \in DOMAIN lot : lot'[k] = lot[k]
      /\ lot'[c] = y
  BY <1>1, TableAppend, TableShape DEF FitInv, Settled
<1> HIDE DEF n, c
<1>9. RowsGrow(route, route') /\ Len(route) <= Len(route')
  BY <1>7 DEF RowsGrow, n
<1>10. AllFit(route', lot)
  <2>1. \A j \in DOMAIN lot : lot[j].rework # 0 => route'[lot[j].rework].state = route[lot[j].rework].state
    BY <1>7, ReworkIsThere DEF FitInv
  <2>2. IsTable(route) /\ AllFit(route, lot) /\ IsTable(route') /\ Returns(route)
    BY <1>7, SettledReturns DEF FitInv, Settled
  <2>. QED  BY ONLY <1>9, <2>1, <2>2, LotsOverRows
<1>11. Standing(route', y, c)
  <2>1. CursorFits(route', y)
    <3>1. CursorFits(route', x)
      <4>1. CursorFits(route, x) /\ Returns(route)
        BY <1>1, <1>4, SettledReturns DEF Standing, FitInv
      <4>. QED  BY <1>4, <1>9, <4>1, CursorGrows
    <3>2. route'[x.route].kind = "normal"
      BY <1>4, <1>7
    <3>. QED  BY <1>5, <3>1, <3>2 DEF CursorFits
  <2>2. y.route \in 0..Len(route') /\ y.rework \in 0..Len(route') /\ y.route # 0
    BY <1>1, <1>4, <1>5, <1>7
  <2>3. /\ route'[y.rework].kind = "rework" /\ route'[y.rework].state = "draft"
        /\ route'[y.rework].source = c /\ route'[y.route].kind = "normal"
        /\ Place(route'[y.rework].resume) = Place(y)
    BY <1>4, <1>5, <1>6, <1>7 DEF Place
  <2>4. y.source \in 0..(c - 1) /\ y.q \in Nat \ {0}
    <3>1. OnHand(l) \in Nat
      BY OnHandIs DEF FitInv
    <3>. QED  BY <1>5, <1>8, <3>1
  <2>5. y.team \in {Warehouse, Outside} \union Production
    BY <1>4, <1>5 DEF Standing
  <2>6. y.status \in {"pending", "received", "gone", "voided"} /\ y.shared \in BOOLEAN /\ y.waiting = TRUE
    BY <1>1, <1>3, <1>5
  <2>7. ASSUME y.shared PROVE GroupFits(route', y)
    <3>1. GroupFits(route, x) /\ Returns(route)
      BY <1>4, <1>5, <2>7, SettledReturns DEF Standing, FitInv
    <3>2. GroupFits(route', x)
      BY <1>4, <1>9, <3>1, GroupGrows DEF Published
    <3>. QED  BY <1>5, <2>2, <3>2, GroupSame
  <2>. QED  BY <1>5, <2>1, <2>2, <2>3, <2>4, <2>5, <2>6, <2>7 DEF Standing, LotColumns
<1>12. IsTable(lot') /\ AllFit(route', lot') /\ LotsGrow(lot, lot')
  <2>1. y.q <= lot[l].q - Given(lot, l)
    <3>1. OnHand(l) = lot[l].q - Given(lot, l) /\ OnHand(l) \in Nat
      BY OnHandIs DEF FitInv
    <3>. QED  BY <1>5, <3>1
  <2>2. ~IsPending(route', lot[l])
    <3>1. ~IsPending(route, lot[l])
      BY <1>1 DEF IsPending, Pending, Published
    <3>. QED  BY <1>7, <3>1, ReworkIsThere DEF FitInv, IsPending
  <2>3. IsTable(lot)
    BY DEF FitInv, Settled
  <2>4. /\ IsTable(Append(lot, y)) /\ AllFit(route', Append(lot, y)) /\ LotsGrow(lot, Append(lot, y))
    BY <1>5, <1>7, <1>10, <1>11, <2>1, <2>2, <2>3, LotAdded DEF c
  <2>. QED  BY <1>1, <2>4
<1>13. RowFits(route', lot', n + 1) /\ row.of \in 0..Len(work)
  <2>1. IsTable(row.serials) /\ IsTable(row.steps)
    <3>1. IsTable(names)
      BY <1>4, ShortTables DEF FitInv, Settled, RowFits
    <3>. QED  BY <1>6, <3>1, ShortTables
  <2>2. row.drawings \subseteq Drawings /\ Cardinality(row.drawings) <= MaxDrawings
    BY <1>4, <1>6 DEF FitInv, Settled, RowFits
  <2>3. ReturnFits(route', row)
    <3>1. x.route \in DOMAIN route' /\ route'[x.route] = route[x.route]
      BY <1>4, <1>7
    <3>. QED  BY <1>4, <1>6, <3>1 DEF ReturnFits, Published, Steps
  <2>4. row.parent \in 0..((n + 1) - 1) /\ row.source \in 0..Len(lot') /\ row.source # 0
    BY <1>6, <1>7, <1>8
  <2>5. row.serials = <<lot'[row.source].serial>> \/ lot'[row.source].shared
    BY <1>3, <1>5, <1>6, <1>8
  <2>6. RowStands(route', lot', row, n + 1)
    BY <1>6, <2>1, <2>2, <2>3, <2>4, <2>5 DEF RowStands
  <2>7. row.of \in 0..Len(work)
    BY <1>6, TableShape DEF FitInv, WorkFits
  <2>. QED  BY <1>7, <2>6, <2>7, RowFitsIs
<1>14. \A r \in DOMAIN route' : r \in DOMAIN route \/ r = n + 1
  BY <1>7
<1>15. \A r \in DOMAIN route' : \/ r \in DOMAIN route /\ route'[r] = route[r]
                                \/ RowFits(route', lot', r) /\ route'[r].of \in 0..Len(work)
  BY <1>7, <1>13, <1>14
<1>16. \A r \in DOMAIN route' : route'[r].state = "published" => r \in DOMAIN route /\ Published(r)
  BY <1>6, <1>7, <1>14 DEF Published
<1>17. ReservedGrows
  BY <1>1 DEF ReservedGrows
<1>. QED  BY <1>1, <1>2, <1>7, <1>9, <1>12, <1>15, <1>16, <1>17, DraftsWritten

LEMMA FitOfWork ==
  ASSUME FitInv, WorkOnMaterial, ~Misallocates
  PROVE  FitInv'
<1>1. PICK l \in DOMAIN lot :
        \/ \E s \in Serials \union {SharedSerial}, made \in 1..OnHand(l), scrap \in 0..1 :
             Process(l, s, made, scrap)
        \/ ProcessInPlace(l)
        \/ \E q \in 1..OnHand(l), w \in DOMAIN work : RequestRework(l, q, w)
        \/ Resume(l)
  BY DEF WorkOnMaterial
<1>2. ASSUME NEW s, NEW made \in 1..OnHand(l), NEW scrap \in 0..1, Process(l, s, made, scrap) PROVE FitInv'
  BY <1>2, FitOfProcess
<1>3. ASSUME NEW q \in 1..OnHand(l), NEW w \in DOMAIN work, RequestRework(l, q, w) PROVE FitInv'
  BY <1>3, FitOfRework
<1>. QED  BY <1>1, <1>2, <1>3, FitOfInPlace, FitOfResume

-----------------------------------------------------------------------------
(* A route is published.                                                    *)

LEMMA ValidStepsSame ==
  ASSUME NEW row, NEW new, new.kind = row.kind, new.serials = row.serials, new.steps = row.steps,
         ValidSteps(row)
  PROVE  ValidSteps(new)
<1>1. \A step : ValidStep(new, step) <=> ValidStep(row, step)
  BY DEF ValidStep
<1>. QED  BY <1>1 DEF ValidSteps

\* A step of the one serial's route is meant for it.
LEMMA OneSerialFits ==
  ASSUME NEW row, NEW s, row.serials = <<s>>, ValidSteps(row)
  PROVE  /\ 1 \in 1..Len(row.steps)
         /\ row.steps[1].members # {} => SerialIn(row, s) \in row.steps[1].members
<1>1. Range(row.serials) = {s}
  <2>1. Range(<<s>>) = {s}
    BY DEF Range
  <2>. QED  BY <2>1
<1>2. SerialIn(row, s) = s
  BY <1>1 DEF SerialIn
<1>3. Len(row.steps) > 0 /\ \A i \in 1..Len(row.steps) : ValidStep(row, row.steps[i])
  BY DEF ValidSteps
<1>4. 1 \in 1..Len(row.steps)
  BY <1>3
<1>5. row.steps[1].members \subseteq {s}
  BY <1>1, <1>3, <1>4 DEF ValidStep
<1>. QED  BY <1>2, <1>4, <1>5

LEMMA RowsPublished ==
  ASSUME ReviewInv, FitInv, NEW e \in publishing, FinishPublish(e)
  PROVE  LET r == e.route
             old == route[r]
             new == route'[r]
             back == old.resume
         IN /\ r \in DOMAIN route /\ old.state = "draft" /\ RowStands(route, lot, old, r)
            /\ IsTable(route') /\ DOMAIN route' = DOMAIN route /\ Len(route') = Len(route)
            /\ \A q \in DOMAIN route : q # r => route'[q] = route[q]
            /\ DOMAIN new = Columns /\ DOMAIN new.resume = {"route", "index", "complete", "team"}
            /\ new.state = "published" /\ new.kind = old.kind /\ new.serials = old.serials
            /\ new.steps = old.steps /\ new.parent = old.parent /\ new.version = old.version
            /\ new.drawings = old.drawings /\ new.source = old.source /\ new.of = old.of
            /\ new.resume.route = back.route /\ new.resume.index = back.index
            /\ new.resume.complete = back.complete
            /\ back.route # 0 => new.resume.team = Steps(back.route)[back.index].team
            /\ ValidSteps(new) /\ RowsGrow(route, route')
<1> DEFINE r == e.route
           old == route[r]
           back == old.resume
           team == IF back.route # 0 THEN Steps(back.route)[back.index].team ELSE back.team
           new == [old EXCEPT !.state = "published",
                              !.confirmed = IF old.required THEN Fingerprint(old) ELSE @,
                              !.resume.team = team]
<1>1. route' = [route EXCEPT ![r] = new] /\ ValidSteps(old)
  BY DEF FinishPublish, Publishable
<1>2. r \in DOMAIN route /\ ~Published(r)
  BY DEF ReviewInv, PublicationsFit
<1>3. RowStands(route, lot, old, r)
  BY <1>2, RowFitsIs DEF FitInv, Settled
<1>4. old.state = "draft"
  BY <1>2, <1>3 DEF RowStands, Published
<1>5. /\ DOMAIN new = Columns /\ DOMAIN new.resume = {"route", "index", "complete", "team"}
      /\ new.state = "published" /\ new.kind = old.kind /\ new.serials = old.serials
      /\ new.steps = old.steps /\ new.parent = old.parent /\ new.version = old.version
      /\ new.drawings = old.drawings /\ new.source = old.source /\ new.of = old.of
      /\ new.resume.route = back.route /\ new.resume.index = back.index
      /\ new.resume.complete = back.complete
      /\ new.resume.team = team
  <2> HIDE DEF team
  <2>. QED  BY <1>3 DEF RowStands, Columns, NewRow
<1> HIDE DEF new
<1>6. /\ IsTable(route') /\ DOMAIN route' = DOMAIN route /\ Len(route') = Len(route)
      /\ \A q \in DOMAIN route : route'[q] = IF q = r THEN new ELSE route[q]
  BY <1>1, TableChange DEF FitInv, Settled
<1>7. route'[r] = new
  BY <1>2, <1>6
<1>8. ValidSteps(new)
  BY <1>1, <1>5, ValidStepsSame
<1>9. RowsGrow(route, route')
  BY <1>2, <1>4, <1>5, <1>6 DEF RowsGrow, Place
<1>. QED  BY <1>2, <1>3, <1>4, <1>5, <1>6, <1>7, <1>8, <1>9

\* Shared material that its rework may be put on waits, or is in the rework before it.
LEMMA SharedReturns ==
  ASSUME Settled, NEW r \in DOMAIN route, route[r].kind = "rework", route[r].state = "draft",
         NEW k \in DOMAIN lot, k = route[r].source, lot[k].shared,
         lot[k].rework = IF route[r].parent # 0 THEN route[r].parent ELSE r
  PROVE  /\ lot[k].route \in DOMAIN route /\ route[lot[k].route].state = "published"
         /\ ReturnStep(route, route[r]).members = {}
         /\ Home(route, lot[k].route) = route[r].resume.route
<1> DEFINE x == lot[k]
           old == route[r]
<1>1. Standing(route, x, k) /\ RowStands(route, lot, old, r) /\ r # 0
  BY LotFitsIs, RowFitsIs, TableShape DEF Settled, AllFit
<1>2. x.rework # 0 /\ x.route # 0
  BY <1>1 DEF Standing
<1>3. CursorFits(route, x) /\ x.route \in DOMAIN route
  BY <1>1, <1>2, TableShape DEF Standing, Settled
<1>4. route[x.route].state = "published" /\ route[x.route].steps[x.index].members = {}
  BY <1>3 DEF CursorFits
<1>5. CASE old.parent = 0
  <2>1. route[x.route].kind = "normal" /\ Place(old.resume) = Place(x)
    BY <1>1, <1>5 DEF Standing
  <2>. QED  BY <1>3, <1>4, <2>1 DEF Place, ReturnStep, Home
<1>6. CASE old.parent # 0
  <2>1. /\ route[old.parent].kind = "rework" /\ route[old.parent].state = "published"
        /\ Place(old.resume) = Place(route[old.parent].resume)
    BY <1>1, <1>6 DEF RowStands
  <2>2. x.route = old.parent
    BY <1>1, <1>6, <2>1 DEF Standing
  <2>3. ReturnStep(route, route[old.parent]).members = {}
    BY <1>3, <2>1, <2>2 DEF CursorFits
  <2>. QED  BY <1>3, <1>4, <2>1, <2>2, <2>3 DEF Place, ReturnStep, Home
<1>. QED  BY <1>5, <1>6

\* The material of a rework is put on its route.
LEMMA MaterialPublished ==
  ASSUME ReviewInv, FitInv, NEW e \in publishing, FinishPublish(e), route[e.route].kind = "rework",
         ~Misdirects
  PROVE  /\ IsTable(lot') /\ AllFit(route', lot') /\ LotsGrow(lot, lot') /\ Len(lot') = Len(lot)
         /\ RowFits(route', lot', e.route)
<1> DEFINE r == e.route
           old == route[r]
           new == route'[r]
           back == old.resume
           k == old.source
           x == lot[k]
           y == [x EXCEPT !.rework = r, !.route = r, !.index = 1, !.complete = FALSE]
<1>1. /\ r \in DOMAIN route /\ old.state = "draft" /\ RowStands(route, lot, old, r)
      /\ IsTable(route') /\ DOMAIN route' = DOMAIN route /\ Len(route') = Len(route)
      /\ \A q \in DOMAIN route : q # r => route'[q] = route[q]
      /\ DOMAIN new = Columns /\ DOMAIN new.resume = {"route", "index", "complete", "team"}
      /\ new.state = "published" /\ new.kind = old.kind /\ new.serials = old.serials
      /\ new.steps = old.steps /\ new.parent = old.parent /\ new.version = old.version
      /\ new.drawings = old.drawings /\ new.source = old.source /\ new.of = old.of
      /\ new.resume.route = back.route /\ new.resume.index = back.index
      /\ back.route # 0 => new.resume.team = Steps(back.route)[back.index].team
      /\ ValidSteps(new) /\ RowsGrow(route, route')
  BY RowsPublished
<1>2. /\ lot' = [lot EXCEPT ![k] = y]
      /\ back.route # 0 =>
           /\ back.index \in DOMAIN Steps(back.route)
           /\ Steps(back.route)[back.index].members # {} =>
                ExecutionSerial(back.route, x.serial) \in Steps(back.route)[back.index].members
      /\ x.rework = IF old.parent # 0 THEN old.parent ELSE r
  BY DEF FinishPublish, Publishable, MayActivate
<1>3. k \in DOMAIN lot
  BY <1>1, TableShape DEF RowStands, FitInv, Settled
<1>4. x.shared \in BOOLEAN /\ Standing(route, x, k)
  <2>1. Standing(route, x, k)
    BY <1>3, LotFitsIs DEF FitInv, Settled, AllFit
  <2>. QED  BY <2>1 DEF Standing
<1>5. (old.serials = <<x.serial>> \/ x.shared) /\ ReturnFits(route, old)
  BY <1>1 DEF RowStands
<1>6. /\ DOMAIN y = LotColumns /\ y.rework = r /\ y.route = r /\ y.index = 1 /\ y.complete = FALSE
      /\ y.source = x.source /\ y.q = x.q /\ y.serial = x.serial /\ y.shared = x.shared
      /\ y.status = x.status /\ y.team = x.team /\ y.group = x.group
  BY <1>4 DEF Standing, LotColumns, NewLot
<1> HIDE DEF y, new
<1>7. r \in 1..Len(route') /\ Len(route') \in Nat
  BY <1>1, TableShape
<1>17. ASSUME x.shared
       PROVE  /\ x.route \in DOMAIN route /\ route[x.route].state = "published"
              /\ ReturnStep(route, old).members = {} /\ Home(route, x.route) = back.route
              /\ new.steps[1].members = {}
  <2>1. old.steps[1].members = {}
    <3>1. Activates(r)
      BY <1>1 DEF Activates, Published, new
    <3>. QED  BY <1>1, <1>17, <3>1 DEF Misdirects, Steps
  <2>. QED  BY <1>1, <1>2, <1>3, <1>17, <2>1, SharedReturns DEF FitInv
<1>18. ReturnStep(route', new) = ReturnStep(route, old)
  BY <1>1, ReturnStepGrows, SettledReturns DEF FitInv, new
<1>8. CursorFits(route', y)
  <2>1. /\ 1 \in 1..Len(new.steps)
        /\ new.steps[1].members # {} => SerialIn(new, x.serial) \in new.steps[1].members /\ ~x.shared
    <3>1. CASE x.shared
      <4>1. Len(new.steps) > 0 /\ Len(new.steps) \in Nat
        BY <1>1, TableShape DEF ValidSteps, RowStands
      <4>. QED  BY <1>17, <3>1, <4>1
    <3>2. CASE ~x.shared
      BY <1>1, <1>5, <3>2, OneSerialFits
    <3>. QED  BY <3>1, <3>2
  <2>2. DOMAIN new.steps = 1..Len(new.steps)
    BY <1>1, TableShape DEF RowStands
  <2>3. IF x.shared THEN ReturnStep(route', new).members = {} ELSE x.serial = new.serials[1]
    BY <1>1, <1>5, <1>17, <1>18
  <2>4. route'[y.route] = new
    BY <1>6 DEF new
  <2>. QED  BY <1>1, <1>4, <1>6, <2>1, <2>2, <2>3, <2>4 DEF CursorFits
<1>19. ASSUME y.shared PROVE GroupFits(route', y)
  <2>1. GroupFits(route, x) /\ Returns(route)
    BY <1>4, <1>6, <1>19, SettledReturns DEF Standing, FitInv
  <2>2. /\ x.route \in DOMAIN route /\ route[x.route].state = "published"
        /\ Home(route, x.route) = back.route
    BY <1>6, <1>17, <1>19
  <2>3. GroupFits(route', x) /\ Home(route', x.route) = back.route
    BY <1>1, <2>1, <2>2, GroupGrows, HomeGrows
  <2>4. Home(route', y.route) = back.route
    BY <1>1, <1>6 DEF Home, new
  <2>5. y.route # 0
    BY <1>6, <1>7
  <2>. QED  BY <1>6, <2>3, <2>4, <2>5, GroupSame
<1>9. Standing(route', y, k)
  <2>1. route'[y.rework] = new /\ y.route = y.rework /\ y.route # 0
    BY <1>6, <1>7 DEF new
  <2>2. y.route \in 0..Len(route') /\ y.rework \in 0..Len(route')
    BY <1>6, <1>7
  <2>. QED  BY <1>1, <1>4, <1>6, <1>8, <1>19, <2>1, <2>2 DEF Standing, LotColumns
<1>10. ~IsPending(route', y)
  BY <1>1, <1>6 DEF IsPending, new
<1>11. \A l \in DOMAIN lot : l # k /\ lot[l].rework # 0 =>
         route'[lot[l].rework].state = route[lot[l].rework].state
  <2>. SUFFICES ASSUME NEW l \in DOMAIN lot, l # k, lot[l].rework # 0 PROVE lot[l].rework # r
    BY <1>1, ReworkIsThere DEF FitInv
  <2>1. Standing(route, lot[l], l)
    BY LotFitsIs DEF FitInv, Settled, AllFit
  <2>. QED  BY <1>1, <2>1 DEF Standing
<1>12. IsTable(route) /\ IsTable(lot) /\ AllFit(route, lot) /\ Len(route) <= Len(route')
       /\ Returns(route)
  <2>1. Len(route) \in Nat
    BY TableShape DEF FitInv, Settled
  <2>. QED  BY <1>1, <2>1, SettledReturns DEF FitInv, Settled
<1>13. /\ IsTable([lot EXCEPT ![k] = y]) /\ AllFit(route', [lot EXCEPT ![k] = y])
       /\ LotsGrow(lot, [lot EXCEPT ![k] = y])
  <2>1. /\ y.source = lot[k].source /\ y.q = lot[k].q /\ y.serial = lot[k].serial
        /\ y.shared = lot[k].shared /\ y.status = lot[k].status
    BY <1>6
  <2>2. IsTable(route') /\ RowsGrow(route, route')
    BY <1>1
  <2> HIDE DEF k
  <2>. QED  BY ONLY <1>3, <1>9, <1>10, <1>11, <1>12, <2>1, <2>2, LotChanged, SMTT(30)
<1>14. IsTable(lot') /\ AllFit(route', lot') /\ LotsGrow(lot, lot') /\ Len(lot') = Len(lot)
  BY <1>2, <1>12, <1>13, TableChange, SMTT(30)
<1>15. ReturnFits(route', new)
  <2>1. ReturnFits(route', old)
    BY <1>1, <1>5, ReturnGrows
  <2>2. back.route # 0 /\ back.route \in DOMAIN route /\ back.index \in DOMAIN route[back.route].steps
        /\ route'[back.route].steps = route[back.route].steps
        /\ route'[back.route].serials = route[back.route].serials
        /\ route'[back.route].kind = route[back.route].kind
    <3>1. /\ back.route \in DOMAIN route /\ route[back.route].state = "published"
          /\ back.index \in DOMAIN route[back.route].steps
      BY <1>5 DEF ReturnFits
    <3>2. back.route # 0
      BY <3>1, <1>12, TableShape
    <3>. QED  BY <1>1, <3>1, <3>2 DEF RowsGrow
  <2>3. new.resume.team = route'[back.route].steps[back.index].team
    BY <1>1, <2>2 DEF Steps
  <2>4. SerialIn(route'[back.route], x.serial) = SerialIn(route[back.route], x.serial)
    BY <2>2, SerialKept
  <2>6. route'[back.route].steps[back.index].members # {} =>
          SerialIn(route'[back.route], new.serials[1]) \in route'[back.route].steps[back.index].members
    <3>1. CASE x.shared
      <4>1. route[back.route].steps[back.index].members = {}
        BY <1>17, <3>1 DEF ReturnStep
      <4>. QED  BY <2>2, <4>1
    <3>2. CASE ~x.shared
      <4>1. new.serials[1] = x.serial
        BY <1>1, <1>5, <3>2
      <4>. QED  BY <1>2, <2>2, <2>4, <4>1 DEF Steps, ExecutionSerial
    <3>. QED  BY <3>1, <3>2
  <2>7. /\ back.route \in DOMAIN route' /\ route'[back.route].kind = "normal"
        /\ route'[back.route].state = "published" /\ back.index \in DOMAIN route'[back.route].steps
    BY <2>1 DEF ReturnFits
  <2>8. new.resume.route = back.route /\ new.resume.index = back.index
    BY <1>1
  <2> HIDE DEF back
  <2>. QED  BY ONLY <2>3, <2>6, <2>7, <2>8 DEF ReturnFits
<1>16. RowFits(route', lot', r)
  <2>1. new.serials = <<lot'[k].serial>> \/ lot'[k].shared
    <3>1. lot'[k] = y
      BY <1>2, <1>3, <1>12, TableChange
    <3>. QED  BY <1>1, <1>5, <1>6, <3>1
  <2>3. new.parent # 0 =>
          /\ route'[new.parent].kind = "rework" /\ route'[new.parent].state = "published"
          /\ Place(new.resume) = Place(route'[new.parent].resume)
    <3>. SUFFICES ASSUME old.parent # 0
                  PROVE  /\ route'[old.parent].kind = "rework" /\ route'[old.parent].state = "published"
                         /\ Place(new.resume) = Place(route'[old.parent].resume)
      BY <1>1
    <3>1. /\ route[old.parent].kind = "rework" /\ route[old.parent].state = "published"
          /\ Place(old.resume) = Place(route[old.parent].resume) /\ old.parent \in 0..(r - 1)
      BY <1>1 DEF RowStands
    <3>2. old.parent \in DOMAIN route
      BY <1>1, <1>12, <3>1, TableShape
    <3>3. Place(new.resume) = Place(old.resume)
      BY <1>1 DEF RowsGrow, new
    <3>. QED  BY <1>1, <3>1, <3>2, <3>3 DEF RowsGrow
  <2>2. RowStands(route', lot', new, r)
    BY <1>1, <1>14, <1>15, <2>1, <2>3 DEF RowStands
  <2>. QED  BY <2>2, RowFitsIs DEF new
<1>. QED  BY <1>14, <1>16

LEMMA FitOfPublished ==
  ASSUME ReviewInv, FitInv, NEW e \in publishing, FinishPublish(e),
         IsTable(lot'), AllFit(route', lot'), LotsGrow(lot, lot'), Len(lot') = Len(lot),
         RowFits(route', lot', e.route)
  PROVE  FitInv'
<1> DEFINE r == e.route
<1>1. /\ r \in DOMAIN route /\ route[r].state = "draft"
      /\ IsTable(route') /\ DOMAIN route' = DOMAIN route /\ Len(route') = Len(route)
      /\ \A q \in DOMAIN route : q # r => route'[q] = route[q]
      /\ route'[r].state = "published" /\ route'[r].kind = route[r].kind
      /\ route'[r].serials = route[r].serials /\ route'[r].steps = route[r].steps
      /\ route'[r].of = route[r].of /\ RowsGrow(route, route')
  BY RowsPublished
<1>2. /\ UNCHANGED <<work, left>> /\ path' = path \union PathRows(r)
      /\ Free(route[r], Root(r)) /\ Reserve(route[r], Root(r))
  BY DEF FinishPublish, Publishable
<1>4. /\ Settled' /\ WorkFits' /\ BudgetFits(route, left)'
      /\ \A q \in DOMAIN route : RootIn(route', q) = RootIn(route, q)
  <2>1. \A q \in DOMAIN route' : \/ q \in DOMAIN route /\ route'[q] = route[q]
                                 \/ RowFits(route', lot', q) /\ route'[q].of \in 0..Len(work)
    BY <1>1 DEF FitInv, WorkFits
  <2>2. Len(route) <= Len(route')
    BY <1>1, TableShape DEF FitInv, Settled
  <2>3. BudgetFits(route, left')
    BY <1>2 DEF FitInv
  <2>. QED  BY <1>1, <1>2, <2>1, <2>2, <2>3, RowsWritten
<1>5. PathFits'
  <2> DEFINE old == {s \in DOMAIN route : Published(s)}
             new == {s \in DOMAIN route' : route'[s].state = "published"}
  <2>1. new = old \union {r}
    BY <1>1 DEF Published
  <2>2. \A q \in DOMAIN route : PathRows(q)' = PathRows(q)
    BY <1>1, PathRowsStay
  <2>3. path = UNION {PathRows(q) : q \in old}
    BY DEF FitInv, PathFits
  <2>4. {s \in DOMAIN route' : Published(s)'} = new
    BY DEF Published
  <2>5. \A q \in new : q \in DOMAIN route
    BY <1>1
  <2> HIDE DEF old, new
  <2>6. path' = UNION {PathRows(q)' : q \in new}
    BY <1>2, <2>1, <2>2, <2>3, <2>5
  <2>. QED  BY <2>4, <2>6 DEF PathFits
<1>6. ReservedFits'
  <2>1. /\ ReservedGrows
        /\ \A k \in Keys(route[r]) : k \in DOMAIN reserved' /\ reserved'[k] = Root(r)
    BY <1>2, ReserveAdds
  <2>2. \A q \in DOMAIN route : Keys(route'[q]) = Keys(route[q]) /\ Root(q)' = Root(q)
    <3>1. \A q \in DOMAIN route : route'[q].kind = route[q].kind /\ route'[q].serials = route[q].serials
      BY <1>1
    <3>. QED  BY <1>4, <3>1 DEF Keys, Root
  <2>3. SUFFICES ASSUME NEW q \in DOMAIN route', route'[q].state = "published", NEW k \in Keys(route'[q])
                 PROVE  k \in DOMAIN reserved' /\ reserved'[k] = Root(q)'
    BY DEF ReservedFits, Published
  <2>4. CASE q = r
    BY <1>1, <2>1, <2>2, <2>3, <2>4
  <2>5. CASE q # r
    <3>1. q \in DOMAIN route /\ Published(q) /\ k \in Keys(route[q])
      BY <1>1, <2>2, <2>3, <2>5 DEF Published
    <3>2. k \in DOMAIN reserved /\ reserved[k] = Root(q)
      BY <3>1 DEF FitInv, ReservedFits
    <3>. QED  BY <2>1, <2>2, <3>1, <3>2 DEF ReservedGrows
  <2>. QED  BY <2>4, <2>5
<1>. QED  BY <1>4, <1>5, <1>6 DEF FitInv

LEMMA FitOfPublication ==
  ASSUME ReviewInv, FitInv, Publications, ~Misdirects
  PROVE  FitInv'
<1>1. PICK e \in publishing : FinishPublish(e) \/ RefusePublish(e)
  BY DEF Publications
<1>2. CASE RefusePublish(e)
  BY <1>2, FitOfStill DEF RefusePublish
<1>3. CASE FinishPublish(e)
  <2> DEFINE r == e.route
  <2>1. /\ r \in DOMAIN route /\ route[r].state = "draft" /\ RowStands(route, lot, route[r], r)
        /\ IsTable(route') /\ DOMAIN route' = DOMAIN route /\ Len(route') = Len(route)
        /\ \A q \in DOMAIN route : q # r => route'[q] = route[q]
        /\ DOMAIN route'[r] = Columns
        /\ DOMAIN route'[r].resume = {"route", "index", "complete", "team"}
        /\ route'[r].state = "published" /\ route'[r].kind = route[r].kind
        /\ route'[r].serials = route[r].serials /\ route'[r].steps = route[r].steps
        /\ route'[r].parent = route[r].parent /\ route'[r].version = route[r].version
        /\ route'[r].drawings = route[r].drawings /\ route'[r].source = route[r].source
        /\ ValidSteps(route'[r]) /\ RowsGrow(route, route')
    BY <1>3, RowsPublished
  <2>2. CASE route[r].kind = "rework"
    BY <1>3, <2>2, MaterialPublished, FitOfPublished
  <2>3. CASE route[r].kind # "rework"
    <3>1. route[r].kind = "normal"
      BY <2>1, <2>3 DEF RowStands
    <3>2. lot' = lot
      BY <1>3, <3>1 DEF FinishPublish
    <3>3. Len(route) \in Nat /\ Len(lot) \in Nat /\ IsTable(route) /\ IsTable(lot) /\ AllFit(route, lot)
      BY TableShape DEF FitInv, Settled
    <3>4. \A l \in DOMAIN lot : lot[l].rework # 0 =>
            route'[lot[l].rework].state = route[lot[l].rework].state
      <4> SUFFICES ASSUME NEW l \in DOMAIN lot, lot[l].rework # 0 PROVE lot[l].rework # r
        BY <2>1, ReworkIsThere DEF FitInv
      <4>1. route[lot[l].rework].kind = "rework"
        BY LotFitsIs DEF FitInv, Settled, AllFit, Standing
      <4>. QED  BY <3>1, <4>1
    <3>5. AllFit(route', lot)
      <4>1. /\ Returns(route) /\ IsTable(route') /\ Len(route) <= Len(route') /\ RowsGrow(route, route')
        BY <2>1, <3>3, SettledReturns DEF FitInv
      <4>. QED  BY ONLY <3>3, <3>4, <4>1, LotsOverRows
    <3>6. RowFits(route', lot, r)
      <4> DEFINE row == route'[r]
      <4>1. RowStands(route', lot, row, r)
        <5>1. row.kind = "normal" /\ row.state = "published" /\ DOMAIN row = Columns
              /\ DOMAIN row.resume = {"route", "index", "complete", "team"} /\ ValidSteps(row)
          BY <2>1, <3>1
        <5>2. /\ IsTable(row.serials) /\ IsTable(row.steps)
              /\ row.parent \in 0..(r - 1) /\ row.version \in Nat \ {0}
              /\ row.drawings \subseteq Drawings /\ Cardinality(row.drawings) <= MaxDrawings
              /\ row.source \in 0..Len(lot)
          BY <2>1 DEF RowStands
        <5> HIDE DEF row
        <5>. QED  BY <5>1, <5>2 DEF RowStands
      <4>. QED  BY <4>1, RowFitsIs
    <3>7. LotsGrow(lot, lot)
      BY <3>3 DEF LotsGrow
    <3>. QED  BY <1>3, <3>2, <3>3, <3>5, <3>6, <3>7, FitOfPublished
  <2>. QED  BY <2>2, <2>3
<1>. QED  BY <1>1, <1>2, <1>3

-----------------------------------------------------------------------------
(* What the schedules ask for.                                              *)

LEMMA PlansStay ==
  ASSUME PlannedFits, UNCHANGED planned, \A r \in DOMAIN route : r \in DOMAIN route'
  PROVE  PlannedFits'
BY DEF PlannedFits

LEMMA RowsStay ==
  ASSUME IsTable(route), NEW row,
         \/ route' = route
         \/ route' = Append(route, row)
         \/ \E r : route' = [route EXCEPT ![r] = row]
  PROVE  \A r \in DOMAIN route : r \in DOMAIN route'
<1>1. CASE route' = Append(route, row)
  BY <1>1, TableAppend, TableShape
<1>. QED  BY <1>1

LEMMA PlansOfEdit ==
  ASSUME IsTable(route), PlannedFits, EditRoutes
  PROVE  PlannedFits'
<1>1. PICK p \in People :
        \/ \E c \in left.contents, drawn \in SUBSET Drawings, named \in BOOLEAN :
             CreateDraft(p, c.serials, c.steps, drawn, named)
        \/ \E r \in DOMAIN route : Open(p, r)
        \/ \E c \in left.contents, named \in BOOLEAN : SaveDraft(p, c.serials, c.steps, named)
        \/ AttachWord(p)
        \/ AttachOrder(p)
        \/ \E d \in Drawings : UploadDrawing(p, d)
        \/ \E d \in Drawings : RemoveDrawing(p, d)
        \/ \E imports \in BOOLEAN : PublishReads(p, imports)
        \/ \E r \in DOMAIN route : Revise(p, r)
  BY DEF EditRoutes
<1>2. ASSUME NEW row, Insert(p, row) PROVE PlannedFits'
  <2>1. route' = Append(route, row) /\ UNCHANGED planned
    BY <1>2 DEF Insert
  <2>. QED  BY <2>1, RowsStay, PlansStay
<1>3. ASSUME NEW row, Write(p, row) PROVE PlannedFits'
  <2>1. UNCHANGED planned /\ \E new : route' = [route EXCEPT ![screen[p].route] = new]
    BY <1>3 DEF Write
  <2>2. \A r \in DOMAIN route : r \in DOMAIN route'
    BY <2>1
  <2>. QED  BY <2>1, <2>2, PlansStay
<1>4. ASSUME UNCHANGED <<route, planned>> PROVE PlannedFits'
  BY <1>4, PlansStay
<1>5. CASE \E c \in left.contents, drawn \in SUBSET Drawings, named \in BOOLEAN :
             CreateDraft(p, c.serials, c.steps, drawn, named)
  BY <1>2, <1>5 DEF CreateDraft
<1>6. CASE \E r \in DOMAIN route : Open(p, r)
  BY <1>4, <1>6 DEF Open, tables
<1>7. CASE \E c \in left.contents, named \in BOOLEAN : SaveDraft(p, c.serials, c.steps, named)
  BY <1>3, <1>7 DEF SaveDraft
<1>8. CASE AttachWord(p) \/ AttachOrder(p)
  BY <1>3, <1>8 DEF AttachWord, AttachOrder
<1>9. CASE \E d \in Drawings : UploadDrawing(p, d)
  BY <1>3, <1>9 DEF UploadDrawing
<1>10. CASE \E d \in Drawings : RemoveDrawing(p, d)
  BY <1>3, <1>10 DEF RemoveDrawing
<1>11. CASE \E imports \in BOOLEAN : PublishReads(p, imports)
  BY <1>4, <1>11 DEF PublishReads, tables
<1>12. CASE \E r \in DOMAIN route : Revise(p, r)
  BY <1>2, <1>12 DEF Revise
<1>. QED  BY <1>1, <1>5, <1>6, <1>7, <1>8, <1>9, <1>10, <1>11, <1>12

LEMMA PlansOfStep ==
  ASSUME IsTable(route), PlannedFits, [Next]_vars
  PROVE  PlannedFits'
<1>1. CASE EditRoutes
  BY <1>1, PlansOfEdit
<1>2. CASE Publications
  <2>1. PICK e \in publishing : FinishPublish(e) \/ RefusePublish(e)
    BY <1>2 DEF Publications
  <2>2. CASE FinishPublish(e)
    <3>1. UNCHANGED planned /\ \E row : route' = [route EXCEPT ![e.route] = row]
      BY <2>2 DEF FinishPublish
    <3>. QED  BY <3>1, PlansStay
  <2>3. CASE RefusePublish(e)
    BY <2>3, PlansStay DEF RefusePublish, tables
  <2>. QED  BY <2>1, <2>2, <2>3
<1>3. CASE MoveMaterial
  <2>1. ASSUME UNCHANGED <<files, planned>> PROVE PlannedFits'
    BY <2>1, PlansStay DEF files
  <2>2. ASSUME NEW s \in Serials, NEW r \in DOMAIN route, Plan(s, r) PROVE PlannedFits'
    <3>1. planned' = planned \union {<<s, r>>} /\ route' = route
      BY <2>2 DEF Plan, files
    <3>. QED  BY <3>1 DEF PlannedFits
  <2>3. CASE \E s \in Serials, r \in DOMAIN route : Plan(s, r)
    BY <2>2, <2>3
  <2>4. CASE \/ \E s \in Serials \union {NoSerial}, r \in {0} \union DOMAIN route : Receive(s, r, left.pieces)
             \/ \E l \in DOMAIN lot, r \in DOMAIN route : Bind(l, r)
             \/ \E c \in DOMAIN lot : Confirm(c)
             \/ \E c \in DOMAIN lot : Void(c)
    BY <2>1, <2>4 DEF Receive, Bind, Confirm, Void
  <2>5. CASE \E l \in DOMAIN lot, s \in Serials \union {SharedSerial}, r \in {0} \union DOMAIN route :
               \E q \in 1..OnHand(l) : Dispatch(l, s, r, q)
    BY <2>1, <2>5 DEF Dispatch
  <2>6. CASE \E l \in DOMAIN lot, members \in left.shares :
               \E first \in Range(members), q \in 1..OnHand(l) : DispatchShared(l, members, first, q)
    BY <2>1, <2>6 DEF DispatchShared
  <2>. QED  BY <1>3, <2>3, <2>4, <2>5, <2>6 DEF MoveMaterial
<1>4. CASE WorkOnMaterial
  <2>1. ASSUME UNCHANGED <<files, planned>> PROVE PlannedFits'
    BY <2>1, PlansStay DEF files
  <2>2. PICK l \in DOMAIN lot :
          \/ \E s \in Serials \union {SharedSerial}, made \in 1..OnHand(l), scrap \in 0..1 :
               Process(l, s, made, scrap)
          \/ ProcessInPlace(l)
          \/ \E q \in 1..OnHand(l), w \in DOMAIN work : RequestRework(l, q, w)
          \/ Resume(l)
    BY <1>4 DEF WorkOnMaterial
  <2>3. CASE \/ \E s \in Serials \union {SharedSerial}, made \in 1..OnHand(l), scrap \in 0..1 :
                  Process(l, s, made, scrap)
             \/ ProcessInPlace(l)
             \/ Resume(l)
    BY <2>1, <2>3 DEF Process, ProcessInPlace, Resume
  <2>4. CASE \E q \in 1..OnHand(l), w \in DOMAIN work : RequestRework(l, q, w)
    <3>1. UNCHANGED planned /\ \E row : route' = Append(route, row)
      BY <2>4 DEF RequestRework
    <3>2. PICK row : route' = Append(route, row)
      BY <3>1
    <3>. QED  BY <3>1, <3>2, RowsStay, PlansStay
  <2>. QED  BY <2>2, <2>3, <2>4
<1>5. CASE UNCHANGED vars
  BY <1>5, PlansStay DEF vars, tables
<1>. QED  BY <1>1, <1>2, <1>3, <1>4, <1>5 DEF Next

LEMMA FitOfStep ==
  ASSUME ReviewInv, FitInv, PlannedFits, [Next]_vars, [~Misallocates /\ ~Misdirects]_vars
  PROVE  FitInv'
<1>5. CASE UNCHANGED vars
  BY <1>5, FitOfStill DEF vars
<1>. SUFFICES ASSUME Next, ~Misallocates, ~Misdirects PROVE FitInv'
  BY <1>5
<1>1. CASE EditRoutes
  BY <1>1, FitOfEdit
<1>2. CASE Publications
  BY <1>2, FitOfPublication
<1>3. CASE MoveMaterial
  BY <1>3, FitOfMaterial
<1>4. CASE WorkOnMaterial
  BY <1>4, FitOfWork
<1>. QED  BY <1>1, <1>2, <1>3, <1>4 DEF Next

-----------------------------------------------------------------------------
(* The tables that are found.                                               *)

LEMMA FitAtFirst ==
  ASSUME Init
  PROVE  FitInv /\ PlannedFits
<1>1. PICK c \in Cases : /\ route = c.route /\ lot = c.lot /\ work = c.work /\ planned = c.planned
                         /\ left = c.left
  BY DEF Init
<1>2. /\ IsTable(route) /\ IsTable(lot) /\ IsTable(work)
      /\ \A r \in DOMAIN route : /\ RowFits(route, lot, r) /\ route[r].of \in 0..Len(work)
                                 /\ Keys(route[r]) # {} => FamilyFits(route, r)
      /\ \A l \in DOMAIN lot : LotFits(route, lot, l)
      /\ \A w \in DOMAIN work : work[w].lot \in DOMAIN lot /\ work[w].outputs \subseteq DOMAIN lot
      /\ BudgetFits(route, left)
      /\ \A p \in planned : p[2] \in DOMAIN route
  BY <1>1, CasesAssumption DEF CasesAssumption
<1>3. Settled
  BY <1>1, <1>2 DEF Settled, AllFit
<1>4. WorkFits
  BY <1>2 DEF WorkFits
<1>5. PathFits
  BY DEF Init, PathFits
<1>6. ReservedFits
  <2>1. SUFFICES ASSUME NEW r \in DOMAIN route, NEW k \in Keys(route[r])
                 PROVE  k \in DOMAIN reserved /\ reserved[k] = Root(r)
    BY DEF ReservedFits
  <2>2. Keys(route[r]) = {k}
    BY <2>1 DEF Keys
  <2>3. FamilyFits(route, r)
    BY <1>2, <2>2
  <2>4. RootIn(route, r) \in DOMAIN route /\ route[RootIn(route, r)].parent = 0
    BY <1>2, ParentsFit, RootIsThere
  <2>5. Keys(route[RootIn(route, r)]) = {k}
    BY <2>2, <2>3 DEF FamilyFits
  <2>6. \A q \in DOMAIN route : route[q].parent = 0 /\ Keys(route[q]) = {k} => q = RootIn(route, r)
    BY <2>2, <2>3 DEF FamilyFits
  <2>7. (CHOOSE root \in DOMAIN route : route[root].parent = 0 /\ Keys(route[root]) = {k}) = RootIn(route, r)
    BY <2>4, <2>5, <2>6
  <2>8. k \in UNION {Keys(route[q]) : q \in DOMAIN route}
    BY <2>1
  <2>9. k \in DOMAIN reserved
        /\ reserved[k] = CHOOSE root \in DOMAIN route : route[root].parent = 0 /\ Keys(route[root]) = {k}
    BY <2>8 DEF Init
  <2>. QED  BY <2>7, <2>9 DEF Root
<1>7. PlannedFits
  BY <1>2 DEF PlannedFits
<1>. QED  BY <1>2, <1>3, <1>4, <1>5, <1>6, <1>7 DEF FitInv

-----------------------------------------------------------------------------
(* What the invariant says.                                                 *)

\* Everything the steps keep between them.
RoutesInv == ReviewInv /\ FitInv /\ PlannedFits

LEMMA TypesFit ==
  ASSUME RoutesInv
  PROVE  TypeOK
<1>1. IsTable(route) /\ Len(route) \in Nat /\ DOMAIN route = 1..Len(route) /\ Settled
  BY TableShape DEF RoutesInv, FitInv, Settled
<1>2. \A r \in DOMAIN route :
         /\ route[r].kind \in {"normal", "rework"} /\ route[r].state \in {"draft", "published"}
         /\ route[r].parent \in 0..(r - 1) /\ route[r].version >= 1
         /\ route[r].drawings \subseteq Drawings /\ Cardinality(route[r].drawings) <= MaxDrawings
         /\ route[r].source \in 0..Len(lot) /\ route[r].of \in 0..Len(work)
  <2>. TAKE r \in DOMAIN route
  <2>1. RowStands(route, lot, route[r], r)
    BY <1>1, RowFitsIs DEF Settled
  <2>2. route[r].of \in 0..Len(work)
    BY DEF RoutesInv, FitInv, WorkFits
  <2>. QED  BY <2>1, <2>2 DEF RowStands
<1>3. \A l \in DOMAIN lot :
         /\ lot[l].status \in {"pending", "received", "gone", "voided"}
         /\ lot[l].source \in 0..(l - 1) /\ lot[l].team \in TeamsOf \union {Outside}
         /\ lot[l].q > 0 /\ OnHand(l) \in 0..lot[l].q
         /\ lot[l].route \in 0..Len(route) /\ lot[l].rework \in 0..Len(route)
         /\ lot[l].route # 0 => lot[l].index \in DOMAIN Steps(lot[l].route)
  <2>. TAKE l \in DOMAIN lot
  <2>1. Standing(route, lot[l], l)
    BY <1>1, LotFitsIs DEF Settled, AllFit
  <2>2. OnHand(l) \in Nat /\ OnHand(l) <= lot[l].q /\ lot[l].q \in Nat \ {0}
    BY <1>1, OnHandIs
  <2>3. OnHand(l) \in 0..lot[l].q /\ lot[l].q > 0
    BY <2>2
  <2>4. lot[l].route # 0 => lot[l].index \in DOMAIN Steps(lot[l].route)
    BY <2>1 DEF Standing, CursorFits, Steps
  <2>. QED  BY <2>1, <2>3, <2>4 DEF Standing, TeamsOf
<1>4. \A w \in DOMAIN work : work[w].lot \in DOMAIN lot /\ work[w].outputs \subseteq DOMAIN lot
  BY DEF RoutesInv, FitInv, WorkFits
<1>5. \A p \in People : screen[p].route \in 0..Len(route)
  <2>1. \A p \in People : screen[p].route \in Nat /\ (screen[p].route # 0 => screen[p].route \in DOMAIN route)
    BY DEF RoutesInv, ReviewInv, ScreenFits
  <2>. QED  BY <1>1, <2>1
<1>6. \A e \in publishing : ~Published(e.route)
  BY DEF RoutesInv, ReviewInv, PublicationsFit
<1>. QED  BY <1>2, <1>3, <1>4, <1>5, <1>6 DEF TypeOK

\* A lot whose rework is still being written has given nothing away.
LEMMA PendingWhole ==
  ASSUME Settled, NEW l \in DOMAIN lot, Pending(l)
  PROVE  Whole(l) /\ lot[l].waiting
<1>1. lot[l].rework \in DOMAIN route
  BY ReworkIsThere DEF Pending
<1>2. route[lot[l].rework].state = "draft"
  BY <1>1 DEF Pending, Published, Settled, RowFits
<1>3. /\ Standing(route, lot[l], l)
      /\ \A c \in DOMAIN lot : ~Draws(lot[c], l)
  BY <1>2, LotFitsIs DEF Settled, AllFit, Pending, IsPending
<1>4. lot[l].waiting
  BY <1>2, <1>3 DEF Pending, Standing
<1>5. Given(lot, l) = 0
  BY <1>3, LotsWeigh, GivenNone DEF Settled
<1>6. OnHand(l) = lot[l].q
  BY <1>5, OnHandIs
<1>7. ~Reserved(l)
  BY <1>3 DEF Reserved, Children
<1>. QED  BY <1>4, <1>6, <1>7 DEF Whole

LEMMA FilesFit ==
  ASSUME RoutesInv
  PROVE  FilesHangTogether
<1>1. Settled
  BY DEF RoutesInv, FitInv
<1>2. path = UNION {PathRows(r) : r \in {s \in DOMAIN route : Published(s)}}
  BY DEF RoutesInv, FitInv, PathFits
<1>3. \A r \in DOMAIN route : Published(r) => ValidSteps(route[r])
  BY <1>1 DEF Settled, RowFits, Published
<1>4. ASSUME NEW r \in DOMAIN route, NEW q \in DOMAIN route, Ready(r), Ready(q),
             KeyOf[route[r].serials[1]] = KeyOf[route[q].serials[1]]
      PROVE  Root(r) = Root(q)
  <2> DEFINE k == KeyOf[route[r].serials[1]]
  <2>1. route[r].serials # <<>> /\ route[q].serials # <<>>
    BY <1>3, <1>4 DEF Ready, ValidSteps
  <2>2. k \in Keys(route[r]) /\ k \in Keys(route[q])
    BY <1>4, <2>1 DEF Keys, Ready
  <2>3. Published(r) /\ Published(q)
    BY <1>4 DEF Ready
  <2> HIDE DEF k
  <2>4. reserved[k] = Root(r) /\ reserved[k] = Root(q)
    BY <2>2, <2>3 DEF RoutesInv, FitInv, ReservedFits
  <2>. QED  BY <2>4
<1>5. ASSUME NEW l \in DOMAIN lot, lot[l].route # 0
      PROVE  LET x == lot[l]
                 step == Steps(x.route)[x.index]
             IN /\ Published(x.route)
                /\ step.members # {} => ExecutionSerial(x.route, x.serial) \in step.members /\ ~x.shared
                /\ IsLot(l) /\ ~(Active(l) /\ x.index = 1 /\ ~x.complete) => step.team = x.team
                /\ Active(l) => x.rework = x.route
                /\ Pending(l) => Whole(l) /\ x.waiting
  <2> DEFINE x == lot[l]
             step == Steps(x.route)[x.index]
  <2>1. /\ Published(x.route)
        /\ IsFor(x.route, x.index, x.serial, x.shared)
        /\ x.status \in {"pending", "received"} =>
             \/ step.team = x.team
             \/ route[x.route].kind = "rework" /\ x.index = 1 /\ ~x.complete
        /\ route[x.route].kind = "rework" => x.rework = x.route
    BY <1>1, <1>5, LotOnRoute
  <2>2. step.members # {} => ExecutionSerial(x.route, x.serial) \in step.members /\ ~x.shared
    BY <2>1 DEF IsFor, ExecutionSerial
  <2>3. IsLot(l) /\ ~(Active(l) /\ x.index = 1 /\ ~x.complete) => step.team = x.team
    BY <1>5, <2>1 DEF IsLot, Active
  <2>4. Active(l) => x.rework = x.route
    BY <2>1 DEF Active
  <2>5. Pending(l) => Whole(l) /\ x.waiting
    BY <1>1, PendingWhole
  <2>. QED  BY <2>1, <2>2, <2>3, <2>4, <2>5
<1>. QED  BY <1>2, <1>3, <1>4, <1>5 DEF FilesHangTogether

LEMMA RoutesStep ==
  ASSUME RoutesInv, [Next]_vars, [~Misallocates /\ ~Misdirects]_vars
  PROVE  RoutesInv'
<1>1. ReviewInv' /\ FitInv'
  BY ReviewOfStep, FitOfStep DEF RoutesInv
<1>2. PlannedFits'
  BY PlansOfStep DEF RoutesInv, FitInv, Settled
<1>. QED  BY <1>1, <1>2 DEF RoutesInv

LEMMA RoutesAtFirst ==
  ASSUME Init
  PROVE  RoutesInv
BY ReviewAtFirst, FitAtFirst DEF RoutesInv

LEMMA RoutesAlwaysKept == Spec /\ [][~Misallocates /\ ~Misdirects]_vars => []RoutesInv
<1>1. Init => RoutesInv
  BY RoutesAtFirst
<1>2. RoutesInv /\ [Next]_vars /\ [~Misallocates /\ ~Misdirects]_vars => RoutesInv'
  BY RoutesStep
<1>. QED  BY <1>1, <1>2, PTL DEF Spec

\* The cursors never leave the routes, nor the parents and sources the rows that
\* were there before them: an edit, a publication, a cut, a transfer and a rework
\* each name only rows that exist, at steps that exist, and give no piece of a
\* lot away twice, however many people write routes meanwhile.
\* It holds of every behaviour up to its first step that misallocates a piece or
\* misdirects a lot, from whatever tables and however material is shared and
\* reworked. (create_draft, publish_route, bind_lot, create_outputs, request_rework)
THEOREM RoutesAlwaysTyped == Spec /\ [][~Misallocates /\ ~Misdirects]_vars => []TypeOK
<1>1. RoutesInv => TypeOK
  BY TypesFit
<1>. QED  BY <1>1, RoutesAlwaysKept, PTL

\* The tables agree after every step, for any routes, lots and people: what is
\* published is complete and has its path rows, a serial belongs to one family of
\* routes in whatever spelling, material stands on a published step that is meant
\* for its serial and at that step's team, and what waits for its rework to be
\* written is whole, through the rework of shared material too. The steps that
\* are excepted are the two that break it in the code. (validate_steps,
\* publish_route, reserve_serial, activate, bind_lot)
THEOREM FilesAlwaysHangTogether ==
  Spec /\ [][~Misallocates /\ ~Misdirects]_vars => []FilesHangTogether
<1>1. RoutesInv => FilesHangTogether
  BY FilesFit
<1>. QED  BY <1>1, RoutesAlwaysKept, PTL

-----------------------------------------------------------------------------
(* The way to a cursor.                                                     *)

\* The steps of a set, in order.
Walk(row, S) ==
    LET order == Ranked(S)
    IN [k \in DOMAIN order |-> <<row.steps[order[k]].team, row.steps[order[k]].task>>]

LEMMA WayIsWalk ==
  ASSUME NEW row, NEW i, NEW complete, NEW x
  PROVE  Way(row, i, complete, x) = Walk(row, Past(row, i, complete, x))
BY DEF Way, Walk

\* Numbers of steps.
Numbered(S) == \E n \in Nat : S \in SUBSET (1 .. n)

LEMMA WalkIs ==
  ASSUME NEW row, NEW S, Numbered(S)
  PROVE  /\ Cardinality(S) \in Nat
         /\ Walk(row, S) = [k \in 1 .. Cardinality(S) |->
                              <<row.steps[Ranked(S)[k]].team, row.steps[Ranked(S)[k]].task>>]
         /\ \A k \in 1 .. Cardinality(S) : Ranked(S)[k] \in S
<1>1. Cardinality(S) \in Nat /\ Ranked(S) \in [1 .. Cardinality(S) -> S]
  <2>1. PICK n \in Nat : S \in SUBSET (1 .. n)
    BY DEF Numbered
  <2>. QED  BY <2>1, RankedLists
<1>2. DOMAIN Ranked(S) = 1 .. Cardinality(S)
  BY <1>1
<1>. QED  BY <1>1, <1>2 DEF Walk

LEMMA WalkSame ==
  ASSUME NEW row, NEW new, NEW S, Numbered(S),
         \A i \in S : new.steps[i].team = row.steps[i].team /\ new.steps[i].task = row.steps[i].task
  PROVE  Walk(new, S) = Walk(row, S)
<1>1. \A k \in 1 .. Cardinality(S) : Ranked(S)[k] \in S
  BY WalkIs
<1>2. \A k \in 1 .. Cardinality(S) :
        <<new.steps[Ranked(S)[k]].team, new.steps[Ranked(S)[k]].task>>
          = <<row.steps[Ranked(S)[k]].team, row.steps[Ranked(S)[k]].task>>
  BY <1>1
<1>3. /\ Walk(row, S) = [k \in 1 .. Cardinality(S) |-> <<row.steps[Ranked(S)[k]].team, row.steps[Ranked(S)[k]].task>>]
      /\ Walk(new, S) = [k \in 1 .. Cardinality(S) |-> <<new.steps[Ranked(S)[k]].team, new.steps[Ranked(S)[k]].task>>]
  BY WalkIs
<1>. QED  BY <1>2, <1>3

LEMMA WalkEmpty ==
  ASSUME NEW row
  PROVE  Walk(row, {}) = <<>>
<1>1. Cardinality({}) = 0 /\ Numbered({})
  BY FS_EmptySet DEF Numbered
<1>2. Walk(row, {}) = [k \in 1 .. 0 |-> <<row.steps[Ranked({})[k]].team, row.steps[Ranked({})[k]].task>>]
  BY <1>1, WalkIs
<1>. QED  BY <1>2

LEMMA WalkGrows ==
  ASSUME NEW row, NEW n \in Nat, NEW S \in SUBSET (1 .. n), NEW m \in 1 .. n, \A i \in S : i < m
  PROVE  Walk(row, S \union {m}) = Append(Walk(row, S), <<row.steps[m].team, row.steps[m].task>>)
<1> DEFINE c == Cardinality(S)
           T == S \union {m}
           at(i) == <<row.steps[i].team, row.steps[i].task>>
           all == {at(i) : i \in 1 .. n}
<1>1. /\ c \in Nat /\ Walk(row, S) = [k \in 1 .. c |-> at(Ranked(S)[k])]
      /\ \A k \in 1 .. c : Ranked(S)[k] \in 1 .. n
  <2>1. Numbered(S)
    BY DEF Numbered
  <2>. QED  BY <2>1, WalkIs
<1>2. /\ Cardinality(T) = c + 1 /\ \A k \in 1 .. c : Ranked(T)[k] = Ranked(S)[k]
      /\ Ranked(T)[c + 1] = m
  BY RankedAppends
<1>3. Walk(row, T) = [k \in 1 .. (c + 1) |-> at(Ranked(T)[k])]
  <2>1. Numbered(T)
    BY DEF Numbered
  <2> HIDE DEF T, c
  <2>. QED  BY <1>2, <2>1, WalkIs
<1> HIDE DEF c, T
<1>4. Walk(row, T) = [k \in 1 .. (c + 1) |-> IF k = c + 1 THEN at(m) ELSE at(Ranked(S)[k])]
  <2>1. \A k \in 1 .. (c + 1) : at(Ranked(T)[k]) = IF k = c + 1 THEN at(m) ELSE at(Ranked(S)[k])
    <3>1. TAKE k \in 1 .. (c + 1)
    <3>2. k = c + 1 \/ k \in 1 .. c
      BY <1>1
    <3>. QED  BY <1>2, <3>2
  <2> HIDE DEF at
  <2>. QED  BY <1>3, <2>1
<1>5. Walk(row, S) \in Seq(all) /\ Len(Walk(row, S)) = c
  <2>1. \A k \in 1 .. c : at(Ranked(S)[k]) \in all
    BY <1>1
  <2> HIDE DEF at, all
  <2>. QED  BY <1>1, <2>1
<1>6. at(m) \in all
  OBVIOUS
<1> HIDE DEF at, all
<1>7. Append(Walk(row, S), at(m)) = [k \in 1 .. (c + 1) |-> IF k = c + 1 THEN at(m) ELSE Walk(row, S)[k]]
  BY <1>1, <1>5, <1>6
<1>8. \A k \in 1 .. (c + 1) : k # c + 1 => Walk(row, S)[k] = at(Ranked(S)[k])
  BY <1>1
<1>. QED  BY <1>4, <1>7, <1>8 DEF at, T

\* j is the next step of x's path after i.
Ahead(row, i, x, j) ==
    /\ Len(row.steps) \in Nat /\ DOMAIN row.steps = 1 .. Len(row.steps) /\ i \in DOMAIN row.steps
    /\ x.shared \in BOOLEAN /\ j = NextIn(row, i, x.serial, x.shared) /\ j # Unclear /\ j # 0

\* Nothing lies between a step and the next one of the path.
LEMMA NextOnPath ==
  ASSUME NEW row, NEW i, NEW x, NEW j, Ahead(row, i, x, j)
  PROVE  /\ j \in DOMAIN row.steps
         /\ Past(row, j, FALSE, x) = Past(row, i, TRUE, x)
         /\ row.steps[j].team = Warehouse => Past(row, j, TRUE, x) = Past(row, i, TRUE, x)
<1> DEFINE n == Len(row.steps)
           on == PathIn(row, SerialIn(row, x.serial))
           where(m) == IF x.shared THEN 1 .. m ELSE on
           done(m, c) == {k \in where(m) : (k < m \/ (k = m /\ c)) /\ row.steps[k].team # Warehouse}
<1>1. /\ n \in Nat /\ DOMAIN row.steps = 1 .. n /\ i \in 1 .. n
      /\ x.shared \in BOOLEAN /\ j = NextIn(row, i, x.serial, x.shared) /\ j # Unclear /\ j # 0
  BY DEF Ahead
<1>2. /\ Past(row, j, FALSE, x) = done(j, FALSE) /\ Past(row, i, TRUE, x) = done(i, TRUE)
      /\ Past(row, j, TRUE, x) = done(j, TRUE)
  BY DEF Past
<1>3. /\ j \in 1 .. n /\ i < j
      /\ \A k : k \in where(i) /\ (k < i \/ k = i) <=> k \in where(j) /\ k < j
  <2>1. CASE x.shared
    <3>1. j = i + 1 /\ i # n
      BY <1>1, <2>1 DEF NextIn
    <3>2. /\ j \in 1 .. n /\ i < j
          /\ \A k : k \in 1 .. i => k < i \/ k = i
          /\ \A k : k \in 1 .. i <=> k \in 1 .. j /\ k < j
      BY <1>1, <3>1
    <3>3. where(i) = 1 .. i /\ where(j) = 1 .. j
      BY <2>1
    <3> HIDE DEF where
    <3>. QED  BY <3>2, <3>3
  <2>2. CASE ~x.shared
    <3> DEFINE later == {k \in on : k > i}
    <3>1. on \subseteq 1 .. n
      BY <1>1 DEF PathIn
    <3>2. j = First(later) /\ later # {}
      BY <1>1, <2>2 DEF NextIn, First
    <3>3. later \in SUBSET Nat
      BY <3>1
    <3> HIDE DEF later
    <3>4. j \in later /\ \A k \in later : j <= k
      BY <3>2, <3>3, FirstIsThere
    <3> USE DEF later
    <3> HIDE DEF on
    <3>5. j \in on /\ j \in 1 .. n /\ i < j /\ \A k \in on : k > i => j <= k
      BY <1>1, <3>1, <3>4
    <3>6. \A k \in on : (k < i \/ k = i) <=> k < j
      BY <1>1, <3>1, <3>5
    <3>. QED  BY <2>2, <3>5, <3>6
  <2>. QED  BY <1>1, <2>1, <2>2
<1> HIDE DEF where
<1>4. done(j, FALSE) = done(i, TRUE)
  BY <1>3
<1>5. row.steps[j].team = Warehouse => done(j, TRUE) = done(j, FALSE)
  OBVIOUS
<1>. QED  BY <1>1, <1>2, <1>3, <1>4, <1>5

\* i is a step of production on x's path.
Doable(row, i, x) ==
    /\ Len(row.steps) \in Nat /\ DOMAIN row.steps = 1 .. Len(row.steps) /\ i \in DOMAIN row.steps
    /\ x.shared \in BOOLEAN /\ (x.shared \/ i \in PathIn(row, SerialIn(row, x.serial)))
    /\ row.steps[i].team # Warehouse

\* When a step of production on the path is done, it is the last of the way.
LEMMA PastDone ==
  ASSUME NEW row, NEW i, NEW x, Doable(row, i, x)
  PROVE  /\ Past(row, i, TRUE, x) = Past(row, i, FALSE, x) \union {i}
         /\ \A k \in Past(row, i, FALSE, x) : k < i
<1> DEFINE on == IF x.shared THEN 1 .. i ELSE PathIn(row, SerialIn(row, x.serial))
<1>1. i \in on /\ row.steps[i].team # Warehouse /\ i \in Nat
  BY DEF Doable
<1>2. /\ Past(row, i, TRUE, x) = {j \in on : (j < i \/ j = i) /\ row.steps[j].team # Warehouse}
      /\ Past(row, i, FALSE, x) = {j \in on : j < i /\ row.steps[j].team # Warehouse}
  BY DEF Past
<1> HIDE DEF on
<1>. QED  BY <1>1, <1>2

LEMMA PastInside ==
  ASSUME NEW row, NEW n \in Nat, DOMAIN row.steps = 1 .. n, NEW i \in 1 .. n, NEW complete, NEW x
  PROVE  Past(row, i, complete, x) \in SUBSET (1 .. n)
<1>1. PathIn(row, SerialIn(row, x.serial)) \subseteq 1 .. n
  BY DEF PathIn
<1>. QED  BY <1>1 DEF Past

\* At its start a way is empty.
LEMMA PastAtFirst ==
  ASSUME NEW row, NEW n \in Nat, DOMAIN row.steps = 1 .. n, n > 0, NEW complete, NEW x,
         complete => row.steps[1].team = Warehouse
  PROVE  Way(row, 1, complete, x) = <<>>
<1>1. Past(row, 1, complete, x) \in SUBSET (1 .. n)
  BY PastInside
<1>2. \A k \in 1 .. n : ~(k < 1)
  OBVIOUS
<1>3. \A k \in Past(row, 1, complete, x) : (k < 1 \/ (k = 1 /\ complete)) /\ row.steps[k].team # Warehouse
  BY DEF Past
<1>4. Past(row, 1, complete, x) = {}
  BY <1>1, <1>2, <1>3
<1>. QED  BY <1>4, WayIsWalk, WalkEmpty

\* A way is of the route's serials and steps and of the lot's serial.
LEMMA WaySame ==
  ASSUME NEW row, NEW new, new.kind = row.kind, new.serials = row.serials, new.steps = row.steps,
         NEW x, NEW y, y.serial = x.serial, y.shared = x.shared, NEW i, NEW complete
  PROVE  Way(new, i, complete, y) = Way(row, i, complete, x)
<1>1. SerialIn(new, y.serial) = SerialIn(row, x.serial)
  BY SerialKept
<1>2. Past(new, i, complete, y) = Past(row, i, complete, x)
  BY <1>1 DEF Past, PathIn
<1>. QED  BY <1>2 DEF Way

LEMMA WaySerial ==
  ASSUME NEW x, NEW y, y.serial = x.serial, y.shared = x.shared, NEW row, NEW i, NEW complete
  PROVE  Way(row, i, complete, y) = Way(row, i, complete, x)
BY WaySame

-----------------------------------------------------------------------------
(* What was done to a lot.                                                  *)

WalkInv ==
    /\ \A l \in DOMAIN lot : LotWalks(route, lot[l])
    /\ \A r \in DOMAIN route : RowWalks(route[r], lot, work)

\* Its step lies on the path of who it is meant for.
LEMMA ForIsOnPath ==
  ASSUME NEW r, NEW i, NEW s, NEW shared \in BOOLEAN, IsFor(r, i, s, shared)
  PROVE  shared \/ i \in PathIn(route[r], SerialIn(route[r], s))
BY DEF IsFor, PathIn, Steps

LEMMA WorkedWay ==
  ASSUME Settled, NEW l \in DOMAIN lot, MayWork(l), lot[l].complete \in BOOLEAN
  PROVE  LET x == lot[l]
             row == route[x.route]
             i == StepAt(l)
         IN /\ Way(row, i, FALSE, x) = Way(row, x.index, x.complete, x)
            /\ Way(row, i, TRUE, x) =
                 Append(Way(row, x.index, x.complete, x), <<x.team, row.steps[i].task>>)
<1> DEFINE x == lot[l]
           row == route[x.route]
           i == StepAt(l)
           n == Len(row.steps)
<1>1. /\ x.route # 0 /\ x.route \in DOMAIN route /\ x.shared \in BOOLEAN
      /\ IsFor(x.route, i, x.serial, x.shared) /\ row.steps[i].team = x.team
  BY WorkedFits DEF Steps
<1>2. n \in Nat /\ DOMAIN row.steps = 1 .. n
  BY <1>1, RouteSteps DEF Steps
<1>3. x.team # Warehouse
  BY FilesAssumption DEF MayWork, FilesAssumption
<1>4. i \in 1 .. n /\ (x.shared \/ i \in PathIn(row, SerialIn(row, x.serial)))
  BY <1>1, <1>2, ForIsOnPath DEF IsFor, Steps
<1>5. x.index \in 1 .. n
  BY <1>1, <1>2, LotOnRoute DEF IsFor, Steps
<1>6. Past(row, i, FALSE, x) = Past(row, x.index, x.complete, x)
  <2>1. CASE ~x.complete
    <3>1. i = x.index
      BY <2>1 DEF StepAt
    <3>2. x.complete = FALSE
      BY <2>1
    <3>. QED  BY <3>1, <3>2
  <2>2. CASE x.complete
    <3>1. i # Unclear /\ i > 0
      BY <1>4 DEF Unclear
    <3>2. i = NextStep(l)
      BY <2>2, <3>1 DEF StepAt
    <3>3. i = NextIn(row, x.index, x.serial, x.shared)
      BY <3>2 DEF NextStep, NextIndex
    <3>4. i # Unclear /\ i # 0 /\ x.complete = TRUE
      BY <2>2, <3>1
    <3>5. Ahead(row, x.index, x, i)
      BY <1>1, <1>2, <1>5, <3>3, <3>4 DEF Ahead
    <3> HIDE DEF i, row, n
    <3>6. Past(row, i, FALSE, x) = Past(row, x.index, TRUE, x)
      BY <3>5, NextOnPath
    <3>. QED  BY <3>4, <3>6
  <2>. QED  BY <2>1, <2>2
<1> DEFINE before == Past(row, x.index, x.complete, x)
<1>7. before \in SUBSET (1 .. n)
  BY <1>2, <1>5, PastInside
<1>8. Past(row, i, TRUE, x) = before \union {i} /\ \A k \in before : k < i
  <2>1. Doable(row, i, x)
    BY <1>1, <1>2, <1>3, <1>4 DEF Doable
  <2> HIDE DEF i, row, x, before
  <2>2. Past(row, i, TRUE, x) = Past(row, i, FALSE, x) \union {i} /\ \A k \in Past(row, i, FALSE, x) : k < i
    BY <2>1, PastDone
  <2>3. Past(row, i, FALSE, x) = before
    BY <1>6 DEF before
  <2>. QED  BY <2>2, <2>3
<1> HIDE DEF before, i, n
<1>9. Walk(row, before \union {i}) = Append(Walk(row, before), <<row.steps[i].team, row.steps[i].task>>)
  BY <1>2, <1>4, <1>7, <1>8, WalkGrows
<1>. QED  BY <1>1, <1>6, <1>8, <1>9, WayIsWalk DEF before, i

\* What an output has on it, but for what it is told by the work itself.
LEMMA OutputFields ==
  ASSUME NEW l \in DOMAIN lot, DOMAIN lot[l] = LotColumns, lot[l].route # 0, NEW role, NEW s, NEW q
  PROVE  LET x == lot[l]
             i == StepAt(l)
             own == x.shared /\ role = "produced" /\ IsSplitStep(l, i)
             what == <<x.team, route[x.route].steps[i].task>>
             rework == route[x.route].kind = "rework"
             y == Output(l, role, s, q)
         IN /\ y.kind = "output" /\ y.status = x.status /\ y.rework = x.rework
            /\ y.serial = (IF own THEN s ELSE x.serial) /\ y.shared = (x.shared /\ ~own)
            /\ y.route = (IF own THEN x.group.members[s] ELSE x.route)
            /\ y.index = (IF role = "remaining" THEN x.index ELSE i)
            /\ y.complete = (IF role = "remaining" THEN x.complete ELSE role = "produced")
            /\ y.done = (IF role = "produced" /\ ~rework THEN Append(x.done, what) ELSE x.done)
            /\ y.redone = (IF role = "produced" /\ rework THEN Append(x.redone, what) ELSE x.redone)
<1>1. Active(l) = (route[lot[l].route].kind = "rework")
  BY DEF Active
<1>2. Steps(lot[l].route) = route[lot[l].route].steps
  BY DEF Steps
<1>. QED  BY <1>1, <1>2 DEF Output, LotColumns, NewLot

\* A lot that is inside, bound, and not waiting for a rework to be written.
WalksOn(rows, y) ==
    /\ y.complete \in BOOLEAN /\ y.route # 0 /\ y.status # "gone" /\ ~IsPending(rows, y)
    /\ ~(y.kind = "receipt" /\ y.team = Warehouse) \/ (y.done = <<>> /\ y.redone = <<>>)
    /\ IF rows[y.route].kind = "rework"
       THEN /\ y.done = Way(rows[rows[y.route].resume.route], rows[y.route].resume.index,
                            rows[y.route].resume.complete, y)
            /\ y.redone = Way(rows[y.route], y.index, y.complete, y)
       ELSE y.done = Way(rows[y.route], y.index, y.complete, y) /\ y.redone = <<>>

LEMMA BoundWalks ==
  ASSUME NEW rows, NEW y, WalksOn(rows, y)
  PROVE  LotWalks(rows, y)
<1>1. Walked(rows, y)
  BY DEF Walked, WalksOn
<1>. QED  BY <1>1 DEF LotWalks, IsPending, WalksOn

LEMMA OutputWalks ==
  ASSUME Settled, WalkInv, NEW l \in DOMAIN lot, MayWork(l),
         NEW role \in {"produced", "scrap", "remaining"}, NEW s,
         lot[l].shared /\ IsSplitStep(l, StepAt(l)) => ~Active(l) /\ s \in DOMAIN lot[l].group.members,
         NEW q
  PROVE  LotWalks(route, Output(l, role, s, q))
<1> DEFINE x == lot[l]
           i == StepAt(l)
           row == route[x.route]
           own == x.shared /\ role = "produced" /\ IsSplitStep(l, i)
           what == <<x.team, row.steps[i].task>>
           y == Output(l, role, s, q)
<1>1. /\ x.route # 0 /\ x.route \in DOMAIN route /\ x.shared \in BOOLEAN
      /\ IsFor(x.route, i, x.serial, x.shared)
      /\ x.status = "received" /\ Standing(route, x, l)
      /\ x.rework # 0 => route[x.rework].state = "published"
  BY WorkedFits
<1>2. x.complete \in BOOLEAN /\ Walked(route, x)
  BY <1>1 DEF WalkInv, LotWalks
<1>3. /\ Way(row, i, FALSE, x) = Way(row, x.index, x.complete, x)
      /\ Way(row, i, TRUE, x) = Append(Way(row, x.index, x.complete, x), what)
  BY <1>2, WorkedWay
<1>4. /\ y.kind = "output" /\ y.status = x.status /\ y.rework = x.rework
      /\ y.serial = (IF own THEN s ELSE x.serial) /\ y.shared = (x.shared /\ ~own)
      /\ y.route = (IF own THEN x.group.members[s] ELSE x.route)
      /\ y.index = (IF role = "remaining" THEN x.index ELSE i)
      /\ y.complete = (IF role = "remaining" THEN x.complete ELSE role = "produced")
      /\ y.done = (IF role = "produced" /\ ~(row.kind = "rework") THEN Append(x.done, what) ELSE x.done)
      /\ y.redone = (IF role = "produced" /\ row.kind = "rework" THEN Append(x.redone, what) ELSE x.redone)
  <2>1. DOMAIN x = LotColumns
    BY <1>1 DEF Standing, LotColumns
  <2>. QED  BY <1>1, <2>1, OutputFields
<1> SUFFICES LotWalks(route, y)
  OBVIOUS
<1> HIDE DEF y, i, what
<1>5. ~IsPending(route, y) /\ y.complete \in BOOLEAN /\ y.status # "gone" /\ y.kind # "receipt"
  BY <1>1, <1>2, <1>4 DEF IsPending
<1>6. CASE ~own
  <2>1. y.serial = x.serial /\ y.shared = x.shared /\ y.route = x.route
    BY <1>1, <1>4, <1>6
  <2>2. \A r, j, c : Way(route[r], j, c, y) = Way(route[r], j, c, x)
    BY <2>1, WaySerial
  <2>3. IF role = "produced" THEN Way(row, y.index, y.complete, x) = Append(Way(row, x.index, x.complete, x), what)
                             ELSE Way(row, y.index, y.complete, x) = Way(row, x.index, x.complete, x)
    BY <1>3, <1>4
  <2>4. CASE row.kind = "rework"
    <3> DEFINE back == row.resume
    <3>1. /\ x.done = Way(route[back.route], back.index, back.complete, x)
          /\ x.redone = Way(row, x.index, x.complete, x)
      BY <1>2, <2>4 DEF Walked
    <3>2. y.redone = Way(row, y.index, y.complete, x) /\ y.done = x.done
      BY <1>4, <2>3, <2>4, <3>1, ZenonT(30)
    <3>3. y.redone = Way(row, y.index, y.complete, y) /\ y.done = Way(route[back.route], back.index, back.complete, y)
      BY <2>2, <3>1, <3>2
    <3>4. WalksOn(route, y)
      BY <1>1, <1>5, <2>1, <2>4, <3>3 DEF WalksOn
    <3>. QED  BY <3>4, BoundWalks
  <2>5. CASE row.kind # "rework"
    <3>1. x.done = Way(row, x.index, x.complete, x) /\ x.redone = <<>>
      BY <1>2, <2>5 DEF Walked
    <3>2. y.done = Way(row, y.index, y.complete, x) /\ y.redone = <<>>
      BY <1>4, <2>3, <2>5, <3>1
    <3>3. y.done = Way(row, y.index, y.complete, y)
      BY <2>2, <3>2
    <3>4. WalksOn(route, y)
      BY <1>1, <1>5, <2>1, <2>5, <3>2, <3>3 DEF WalksOn
    <3>. QED  BY <3>4, BoundWalks
  <2>. QED  BY <2>4, <2>5
<1>7. CASE own
  <2> DEFINE r == x.group.members[s]
             new == route[r]
             n == Len(row.steps)
  <2>1. /\ y.serial = s /\ y.shared = FALSE /\ y.route = r /\ y.index = i /\ x.shared /\ role = "produced"
        /\ y.complete = TRUE
    BY <1>4, <1>7
  <2>2. x.group.split \in Nat \ {0} /\ GroupFits(route, x)
    BY <1>1, <2>1 DEF Standing, GroupFits
  <2>3. n \in Nat /\ DOMAIN row.steps = 1 .. n /\ i \in 1 .. n
    <3>1. n \in Nat /\ DOMAIN row.steps = 1 .. n
      BY <1>1, RouteSteps DEF Steps
    <3>. QED  BY <1>1, <3>1 DEF IsFor, Steps
  <2>4. i \in 1 .. x.group.split
    <3>1. i <= x.group.split
      BY <1>7, <2>2 DEF IsSplitStep, i
    <3>. QED  BY <2>2, <2>3, <3>1
  <2>5. /\ r \in DOMAIN route /\ new.kind = "normal"
        /\ \A j \in 1 .. x.group.split :
             /\ j \in DOMAIN new.steps /\ new.steps[j].members = {}
             /\ new.steps[j].team = row.steps[j].team /\ new.steps[j].task = row.steps[j].task
    <3>1. s \in DOMAIN x.group.members
      BY <1>7 DEF i
    <3>2. Home(route, x.route) = x.route
      <4>1. ~Active(l)
        BY <1>7 DEF i
      <4>. QED  BY <1>1, <4>1 DEF Active, Home
    <3>. QED  BY <2>2, <3>1, <3>2 DEF GroupFits
  <2>6. \A j \in 1 .. i : j \in 1 .. x.group.split
    BY <2>2, <2>4
  <2>7. row.kind # "rework" /\ r # 0
    <3>1. row.kind # "rework"
      <4>1. ~Active(l)
        BY <1>7 DEF i
      <4>. QED  BY <1>1, <4>1 DEF Active
    <3>2. DOMAIN route = 1 .. Len(route)
      BY TableShape DEF Settled
    <3>. QED  BY <2>5, <3>1, <3>2, SMTT(30)
  <2> DEFINE past == {j \in 1 .. i : row.steps[j].team # Warehouse}
  <2>8. Past(row, i, TRUE, x) = past
    BY <2>1, <2>3 DEF Past
  <2>9. Past(new, i, TRUE, y) = past
    <3> DEFINE on == PathIn(new, SerialIn(new, y.serial))
    <3>1. \A j \in 1 .. i : j \in on /\ new.steps[j].team = row.steps[j].team
      BY <2>5, <2>6 DEF PathIn
    <3>2. Len(new.steps) \in Nat /\ DOMAIN new.steps = 1 .. Len(new.steps)
      BY <2>5, RouteSteps DEF Steps
    <3>3. on \subseteq 1 .. Len(new.steps)
      BY <3>2 DEF PathIn
    <3>4. \A j \in on : (j < i \/ j = i) => j \in 1 .. i
      BY <2>3, <3>2, <3>3
    <3>5. Past(new, i, TRUE, y) = {j \in on : (j < i \/ j = i) /\ new.steps[j].team # Warehouse}
      BY <2>1 DEF Past
    <3>6. \A j \in 1 .. i : j < i \/ j = i
      BY <2>3
    <3> HIDE DEF on, new
    <3>. QED  BY <3>1, <3>4, <3>5, <3>6
  <2>10. past \in SUBSET (1 .. n) /\ \A j \in past : j \in 1 .. i
    BY <2>3
  <2> HIDE DEF past
  <2>11. Walk(new, past) = Walk(row, past)
    <3>1. \A j \in past : new.steps[j].team = row.steps[j].team /\ new.steps[j].task = row.steps[j].task
      BY <2>5, <2>6, <2>10
    <3>2. Numbered(past)
      BY <2>3, <2>10 DEF Numbered
    <3>. QED  BY <3>1, <3>2, WalkSame
  <2>12. Way(new, i, TRUE, y) = Way(row, i, TRUE, x)
    BY <2>8, <2>9, <2>11, WayIsWalk
  <2>13. x.done = Way(row, x.index, x.complete, x) /\ x.redone = <<>>
    BY <1>2, <2>7 DEF Walked
  <2>14. y.done = Way(new, y.index, y.complete, y) /\ y.redone = <<>>
    BY <1>3, <1>4, <2>1, <2>7, <2>12, <2>13
  <2>15. WalksOn(route, y)
    BY <1>5, <2>1, <2>5, <2>7, <2>14 DEF WalksOn
  <2>. QED  BY <2>15, BoundWalks
<1>. QED  BY <1>6, <1>7

\* On its normal route, at the end of what was done to it.
Sendable(x) ==
    /\ x.shared \in BOOLEAN /\ x.complete \in BOOLEAN /\ x.route \in DOMAIN route
    /\ Published(x.route) /\ route[x.route].kind = "normal"
    /\ IsFor(x.route, x.index, x.serial, x.shared)
    /\ x.done = Way(route[x.route], x.index, x.complete, x)

\* Material of the warehouse at the start of its route.
Fresh(b) ==
    /\ b.shared \in BOOLEAN /\ b.route \in DOMAIN route /\ Ready(b.route)
    /\ b.index = 1 /\ b.complete = TRUE /\ b.done = <<>> /\ b.redone = <<>>
    /\ b.rework = 0 /\ b.status # "gone"

LEMMA StartWalks ==
  ASSUME Settled, NEW b, Fresh(b)
  PROVE  LotWalks(route, b) /\ Sendable(b)
<1> DEFINE row == route[b.route]
           n == Len(row.steps)
<1>1. /\ b.shared \in BOOLEAN /\ b.route \in DOMAIN route /\ Published(b.route) /\ row.kind = "normal"
      /\ b.index = 1 /\ b.complete = TRUE /\ b.done = <<>> /\ b.redone = <<>>
      /\ b.rework = 0 /\ b.status # "gone" /\ Ready(b.route)
  BY DEF Fresh, Ready
<1>2. n \in Nat /\ DOMAIN row.steps = 1 .. n /\ n > 0 /\ row.steps[1].team = Warehouse
  BY <1>1, RouteSteps DEF Steps
<1>3. Way(row, 1, TRUE, b) = <<>>
  BY <1>2, PastAtFirst
<1>4. b.route # 0
  BY <1>1, TableShape DEF Settled
<1>5. b.done = Way(row, b.index, b.complete, b) /\ row.kind # "rework"
  BY <1>1, <1>3
<1>6. ~IsPending(route, b)
  BY <1>1 DEF IsPending
<1>7. LotWalks(route, b)
  <2>1. WalksOn(route, b)
    BY <1>1, <1>4, <1>5, <1>6 DEF WalksOn
  <2>. QED  BY <2>1, BoundWalks
<1>8. IsFor(b.route, b.index, b.serial, b.shared)
  BY <1>1, ReadyFits
<1>. QED  BY <1>1, <1>5, <1>7, <1>8 DEF Sendable

\* y left x along a move; nothing was done to it meanwhile.
Unworked(y, x, move) ==
    /\ y.kind = "transfer" /\ y.serial = x.serial /\ y.shared = x.shared
    /\ y.status = (IF move.target = Outside THEN "gone" ELSE "pending")
    /\ y.route = move.route /\ y.index = move.index /\ y.complete = move.complete
    /\ y.rework = move.rework
    /\ y.done = x.done /\ y.redone = (IF move.rework = 0 THEN <<>> ELSE x.redone)

LEMMA SentUnworked ==
  ASSUME NEW x, DOMAIN x = LotColumns, NEW l, NEW move, NEW q
  PROVE  Unworked(Sent(l, x, move, q), x, move)
BY DEF Sent, Unworked, LotColumns, NewLot

\* Along its route, to a step back at its own team or outside.
LEMMA RouteSentWalks ==
  ASSUME Settled, NEW x, Sendable(x), NEW move \in RouteMoves(x), NEW y, Unworked(y, x, move)
  PROVE  LotWalks(route, y)
<1> DEFINE r == x.route
           row == route[r]
           n == Len(row.steps)
           i == NextIndex(r, x.index, x.serial, x.shared)
<1>0. /\ x.shared \in BOOLEAN /\ x.complete \in BOOLEAN /\ r \in DOMAIN route
      /\ Published(r) /\ row.kind = "normal" /\ IsFor(r, x.index, x.serial, x.shared)
      /\ x.done = Way(row, x.index, x.complete, x)
  BY DEF Sendable
<1>1. n \in Nat /\ DOMAIN row.steps = 1 .. n /\ x.index \in 1 .. n /\ r # 0
  BY <1>0, RouteSteps, TableShape DEF Settled, IsFor, Steps
<1>2. \/ move = Move(Steps(r)[x.index].team, r, x.index, x.complete, 0)
      \/ x.complete /\ i = 0 /\ move = Move(Outside, r, x.index, TRUE, 0)
      \/ x.complete /\ i \notin {0, Unclear} /\ move = Move(Steps(r)[i].team, r, i, Steps(r)[i].team = Warehouse, 0)
  BY DEF RouteMoves
<1>3. i = NextIn(row, x.index, x.serial, x.shared)
  BY DEF NextIndex
<1>4. \A j \in 1 .. n : Steps(r)[j].team # Outside
  BY <1>0, <1>1, RouteSteps, FilesAssumption DEF FilesAssumption, Steps
<1>5. move.rework = 0 /\ move.route = r
  BY <1>2 DEF Move
<1>6. \A j, c : Way(row, j, c, y) = Way(row, j, c, x)
  BY WaySerial DEF Unworked
<1>7. /\ y.kind = "transfer" /\ y.serial = x.serial /\ y.shared = x.shared /\ y.route = r /\ y.rework = 0
      /\ y.done = x.done /\ y.redone = <<>> /\ y.index = move.index /\ y.complete = move.complete
      /\ y.status = (IF move.target = Outside THEN "gone" ELSE "pending")
  BY <1>5 DEF Unworked
<1>8. ~IsPending(route, y)
  BY <1>7 DEF IsPending
<1> HIDE DEF i
<1>9. CASE move = Move(Steps(r)[x.index].team, r, x.index, x.complete, 0)
  <2>1. y.status = "pending" /\ y.index = x.index /\ y.complete = x.complete
    BY <1>1, <1>4, <1>7, <1>9 DEF Move
  <2>2. y.done = Way(row, y.index, y.complete, y)
    BY <1>0, <1>6, <1>7, <2>1
  <2>3. WalksOn(route, y)
    BY <1>0, <1>1, <1>7, <1>8, <2>1, <2>2 DEF WalksOn
  <2>. QED  BY <2>3, BoundWalks
<1>10. CASE x.complete /\ i = 0 /\ move = Move(Outside, r, x.index, TRUE, 0)
  <2>1. y.status = "gone" /\ y.index = x.index /\ y.complete = TRUE /\ x.complete = TRUE
    BY <1>7, <1>10 DEF Move
  <2>2. y.done = Way(row, y.index, y.complete, y)
    BY <1>0, <1>6, <1>7, <2>1
  <2>3. NextIn(row, y.index, y.serial, y.shared) = 0
    BY <1>3, <1>7, <1>10, <2>1
  <2>4. Walked(route, y)
    BY <1>0, <1>7, <2>1, <2>2, <2>3 DEF Walked
  <2>. QED  BY <1>0, <1>1, <1>7, <2>1, <2>4 DEF LotWalks
<1>11. CASE /\ x.complete /\ i \notin {0, Unclear}
            /\ move = Move(Steps(r)[i].team, r, i, Steps(r)[i].team = Warehouse, 0)
  <2>1. /\ i \in 1 .. n
        /\ Past(row, i, FALSE, x) = Past(row, x.index, TRUE, x)
        /\ row.steps[i].team = Warehouse => Past(row, i, TRUE, x) = Past(row, x.index, TRUE, x)
    <3>1. Ahead(row, x.index, x, i)
      BY <1>0, <1>1, <1>3, <1>11 DEF Ahead
    <3> HIDE DEF row, n
    <3>. QED  BY <1>1, <3>1, NextOnPath
  <2>2. /\ y.status = "pending" /\ y.index = i /\ y.complete = (row.steps[i].team = Warehouse)
        /\ x.complete = TRUE
    BY <1>4, <1>7, <1>11, <2>1 DEF Move, Steps
  <2>3. Past(row, y.index, y.complete, x) = Past(row, x.index, x.complete, x)
    <3>1. CASE row.steps[i].team = Warehouse
      <4>1. y.complete = TRUE
        BY <2>2, <3>1
      <4>. QED  BY <2>1, <2>2, <3>1, <4>1
    <3>2. CASE row.steps[i].team # Warehouse
      <4>1. y.complete = FALSE
        BY <2>2, <3>2
      <4>. QED  BY <2>1, <2>2, <4>1
    <3>. QED  BY <3>1, <3>2
  <2>4. Way(row, y.index, y.complete, x) = Way(row, x.index, x.complete, x)
    BY <2>3, WayIsWalk
  <2>5. y.done = Way(row, y.index, y.complete, y)
    BY <1>0, <1>6, <1>7, <2>4
  <2>6. y.complete \in BOOLEAN
    BY <2>2
  <2>7. WalksOn(route, y)
    BY <1>0, <1>1, <1>7, <1>8, <2>2, <2>5, <2>6 DEF WalksOn
  <2>. QED  BY <2>7, BoundWalks
<1>. QED  BY <1>2, <1>9, <1>10, <1>11

\* Along a rework, or from its end back to where it came from.
LEMMA ReworkSentWalks ==
  ASSUME Settled, WalkInv, NEW l \in DOMAIN lot, Active(l), IsLot(l),
         NEW move \in ReworkMoves(l), NEW y, Unworked(y, lot[l], move)
  PROVE  LotWalks(route, y)
<1> DEFINE x == lot[l]
           r == x.route
           row == route[r]
           back == row.resume
           n == Len(row.steps)
           here == Here(l).team = x.team
           i == IF here THEN NextStep(l) ELSE x.index
<1>1. /\ r # 0 /\ r \in DOMAIN route /\ Published(r) /\ row.kind = "rework" /\ x.shared \in BOOLEAN
      /\ IsFor(r, x.index, x.serial, x.shared)
      /\ ~here => x.index = 1 /\ ~x.complete
  <2>1. r # 0 /\ row.kind = "rework" /\ x.status = "received"
    BY DEF Active, IsLot
  <2>. QED  BY <2>1, LotOnRoute DEF Here
<1>2. n \in Nat /\ DOMAIN row.steps = 1 .. n /\ x.index \in 1 .. n
  BY <1>1, RouteSteps DEF IsFor, Steps
<1>3. /\ x.complete \in BOOLEAN
      /\ x.done = Way(route[back.route], back.index, back.complete, x)
      /\ x.redone = Way(row, x.index, x.complete, x)
      /\ back.complete \in BOOLEAN
  <2>1. LotWalks(route, x) /\ RowWalks(row, lot, work)
    BY <1>1 DEF WalkInv
  <2>. QED  BY <1>1, <2>1 DEF LotWalks, Walked, RowWalks
<1>4. /\ back.route \in DOMAIN route /\ Published(back.route) /\ route[back.route].kind = "normal"
      /\ back.team = Steps(back.route)[back.index].team
      /\ IsFor(back.route, back.index, row.serials[1], FALSE)
  BY <1>1, ReworkReturns
<1>5. \/ i = 0 /\ move = ResumeFields(r, back.team)
      \/ i \notin {0, Unclear} /\ (here => x.complete) /\ move = Move(Steps(r)[i].team, r, i, FALSE, r)
  BY DEF ReworkMoves
<1>6. \A s, j, c : Way(route[s], j, c, y) = Way(route[s], j, c, x)
  BY WaySerial DEF Unworked
<1>7. /\ y.kind = "transfer" /\ y.serial = x.serial /\ y.shared = x.shared /\ y.route = move.route
      /\ y.rework = move.rework /\ y.done = x.done /\ y.index = move.index /\ y.complete = move.complete
      /\ y.redone = (IF move.rework = 0 THEN <<>> ELSE x.redone)
      /\ y.status = (IF move.target = Outside THEN "gone" ELSE "pending")
  BY DEF Unworked
<1>8. \A s \in DOMAIN route : Published(s) => \A j \in DOMAIN Steps(s) : Steps(s)[j].team # Outside
  BY RouteSteps, FilesAssumption DEF FilesAssumption
<1>9. CASE i = 0 /\ move = ResumeFields(r, back.team)
  <2>1. /\ move.target = back.team /\ y.route = back.route /\ y.index = back.index
        /\ y.complete = back.complete /\ y.rework = 0 /\ y.redone = <<>>
    BY <1>7, <1>9 DEF ResumeFields, Move
  <2>2. y.status = "pending"
    BY <1>4, <1>7, <1>8, <2>1 DEF IsFor
  <2>3. y.done = Way(route[y.route], y.index, y.complete, y) /\ route[y.route].kind # "rework"
    <3>1. Way(route[y.route], y.index, y.complete, y) = Way(route[back.route], back.index, back.complete, x)
      BY ONLY <1>6, <2>1
    <3>2. y.done = x.done /\ x.done = Way(route[back.route], back.index, back.complete, x)
      BY <1>3, <1>7
    <3>3. route[back.route].kind # "rework"
      BY <1>4
    <3> HIDE DEF back, x
    <3>. QED  BY <2>1, <3>1, <3>2, <3>3
  <2>4. y.route # 0 /\ ~IsPending(route, y)
    BY <1>4, <2>1, TableShape, SMTT(30) DEF Settled, IsPending
  <2>5. WalksOn(route, y)
    BY <1>3, <1>7, <2>1, <2>2, <2>3, <2>4 DEF WalksOn
  <2>. QED  BY <2>5, BoundWalks
<1>10. CASE i \notin {0, Unclear} /\ (here => x.complete) /\ move = Move(Steps(r)[i].team, r, i, FALSE, r)
  <2>1. /\ move.target = Steps(r)[i].team /\ y.route = r /\ y.index = i
        /\ y.complete = FALSE /\ y.rework = r /\ y.redone = x.redone
    BY <1>1, <1>7, <1>10 DEF Move
  <2>2. i \in 1 .. n /\ Past(row, i, FALSE, x) = Past(row, x.index, x.complete, x)
    <3>1. CASE ~here
      <4>1. i = x.index /\ x.complete = FALSE
        BY <1>1, <3>1
      <4>. QED  BY <1>2, <4>1
    <3>2. CASE here
      <4>1. i = NextIn(row, x.index, x.serial, x.shared) /\ x.complete = TRUE
        BY <1>3, <1>10, <3>2 DEF NextStep, NextIndex
      <4>2. i # 0 /\ i # Unclear
        BY <1>10
      <4>3. Ahead(row, x.index, x, i)
        BY <1>1, <1>2, <4>1, <4>2 DEF Ahead
      <4> HIDE DEF i, row, n
      <4>4. i \in DOMAIN row.steps /\ Past(row, i, FALSE, x) = Past(row, x.index, TRUE, x)
        BY <4>3, NextOnPath
      <4>. QED  BY <1>2, <4>1, <4>4
    <3>. QED  BY <3>1, <3>2
  <2> HIDE DEF i
  <2>3. y.status = "pending"
    BY <1>1, <1>2, <1>7, <1>8, <2>1, <2>2 DEF Steps
  <2>4. Way(row, i, FALSE, x) = Way(row, x.index, x.complete, x)
    BY <2>2, WayIsWalk
  <2>5. y.redone = Way(route[y.route], y.index, y.complete, y)
    <3>1. Way(route[r], i, FALSE, y) = Way(route[r], i, FALSE, x)
      BY <1>6
    <3>2. y.redone = Way(route[r], i, FALSE, y)
      BY <1>3, <2>1, <2>4, <3>1
    <3>. QED  BY <2>1, <3>2
  <2>6. y.done = Way(route[back.route], back.index, back.complete, y)
    BY <1>3, <1>6, <1>7, ZenonT(30)
  <2>7. ~IsPending(route, y)
    BY <1>1, <2>1 DEF IsPending, Published
  <2>8. WalksOn(route, y)
    BY <1>1, <1>7, <2>1, <2>3, <2>5, <2>6, <2>7 DEF WalksOn
  <2>. QED  BY <2>8, BoundWalks
<1>. QED  BY <1>5, <1>9, <1>10

LEMMA MovesWalk ==
  ASSUME Settled, WalkInv, NEW l \in DOMAIN lot, IsLot(l),
         NEW move \in Moves(l), NEW y, Unworked(y, lot[l], move)
  PROVE  LotWalks(route, y)
<1> DEFINE x == lot[l]
<1>1. x.route # 0
  BY DEF Moves
<1>2. CASE Active(l)
  <2>1. move \in ReworkMoves(l)
    BY <1>2 DEF Moves
  <2>. QED  BY <1>2, <2>1, ReworkSentWalks
<1>3. CASE ~Active(l)
  <2>1. /\ x.route \in DOMAIN route /\ Published(x.route) /\ x.shared \in BOOLEAN
        /\ IsFor(x.route, x.index, x.serial, x.shared)
    BY <1>1, LotOnRoute
  <2>2. route[x.route].kind = "normal"
    BY <1>1, <1>3, <2>1 DEF Settled, RowFits, Active
  <2>3. move \in RouteMoves(x)
    BY <1>1, <1>3 DEF Moves
  <2>4. x.complete \in BOOLEAN /\ x.done = Way(route[x.route], x.index, x.complete, x)
    BY <1>1, <2>2 DEF WalkInv, LotWalks, Walked
  <2>5. Sendable(x)
    BY <2>1, <2>2, <2>4 DEF Sendable
  <2>. QED  BY <2>3, <2>5, RouteSentWalks
<1>. QED  BY <1>2, <1>3

\* Finished where it lies.
LEMMA InPlaceWalks ==
  ASSUME Settled, WalkInv, NEW l \in DOMAIN lot, MayWork(l),
         NEW y, y.kind = lot[l].kind, y.status = lot[l].status, y.team = lot[l].team,
         y.serial = lot[l].serial, y.shared = lot[l].shared, y.route = lot[l].route,
         y.rework = lot[l].rework, y.index = StepAt(l), y.complete = TRUE,
         LET what == <<lot[l].team, route[lot[l].route].steps[StepAt(l)].task>> IN
         IF Active(l) THEN y.done = lot[l].done /\ y.redone = Append(lot[l].redone, what)
                      ELSE y.done = Append(lot[l].done, what) /\ y.redone = lot[l].redone
  PROVE  LotWalks(route, y)
<1> DEFINE x == lot[l]
           i == StepAt(l)
           row == route[x.route]
           back == row.resume
           what == <<x.team, row.steps[i].task>>
<1>1. /\ x.route # 0 /\ x.status = "received"
      /\ x.rework # 0 => route[x.rework].state = "published"
      /\ x.team # Warehouse
  <2>1. x.team # Warehouse
    BY FilesAssumption DEF MayWork, FilesAssumption
  <2>. QED  BY <2>1, WorkedFits
<1>2. x.complete \in BOOLEAN /\ Walked(route, x)
  BY <1>1 DEF WalkInv, LotWalks
<1>3. Way(row, i, TRUE, x) = Append(Way(row, x.index, x.complete, x), what)
  BY <1>2, WorkedWay
<1>4. \A s, j, c : Way(route[s], j, c, y) = Way(route[s], j, c, x)
  <2> HIDE DEF x
  <2>. QED  BY WaySerial DEF x
<1>5. ~IsPending(route, y) /\ y.status # "gone"
  BY <1>1 DEF IsPending
<1> HIDE DEF i, what
<1>6. CASE row.kind = "rework"
  <2>1. Active(l)
    BY <1>1, <1>6 DEF Active
  <2>2. x.done = Way(route[back.route], back.index, back.complete, x) /\ x.redone = Way(row, x.index, x.complete, x)
    BY <1>2, <1>6 DEF Walked
  <2>3. y.done = x.done /\ y.redone = Append(x.redone, what) /\ y.index = i /\ y.complete = TRUE
    BY <2>1 DEF i, what
  <2>4. Way(row, i, TRUE, y) = Way(row, i, TRUE, x)
    BY <1>4, ZenonT(30)
  <2>5. Way(route[back.route], back.index, back.complete, y) = Way(route[back.route], back.index, back.complete, x)
    BY <1>4
  <2>6. y.redone = Way(row, y.index, y.complete, y) /\ y.done = Way(route[back.route], back.index, back.complete, y)
    BY <1>3, <2>2, <2>3, <2>4, <2>5
  <2>7. WalksOn(route, y)
    BY <1>1, <1>5, <1>6, <2>3, <2>6 DEF WalksOn
  <2>. QED  BY <2>7, BoundWalks
<1>7. CASE row.kind # "rework"
  <2>1. ~Active(l)
    BY <1>7 DEF Active
  <2>2. x.done = Way(row, x.index, x.complete, x) /\ x.redone = <<>>
    BY <1>2, <1>7 DEF Walked
  <2>3. y.redone = x.redone /\ y.done = Append(x.done, what) /\ y.index = i /\ y.complete = TRUE
    BY <2>1 DEF i, what
  <2>4. Way(row, i, TRUE, y) = Way(row, i, TRUE, x)
    BY <1>4, ZenonT(30)
  <2>5. y.done = Way(row, y.index, y.complete, y) /\ y.redone = <<>>
    BY <1>3, <2>2, <2>3, <2>4
  <2>6. WalksOn(route, y)
    BY <1>1, <1>5, <1>7, <2>3, <2>5 DEF WalksOn
  <2>. QED  BY <2>6, BoundWalks
<1>. QED  BY <1>6, <1>7

\* Back where its rework came from.
LEMMA ResumedWalks ==
  ASSUME Settled, WalkInv, NEW l \in DOMAIN lot, Active(l), IsLot(l), NEW y,
         LET x == lot[l]
             back == route[x.route].resume
         IN /\ y.kind = x.kind /\ y.status = x.status /\ y.team = x.team /\ y.serial = x.serial
            /\ y.shared = x.shared /\ y.route = back.route /\ y.index = back.index
            /\ y.complete = back.complete /\ y.rework = 0 /\ y.done = x.done /\ y.redone = <<>>
  PROVE  LotWalks(route, y)
<1> DEFINE x == lot[l]
           row == route[x.route]
           back == row.resume
<1>1. x.route # 0 /\ row.kind = "rework" /\ x.status = "received"
  BY DEF Active, IsLot
<1>2. x.route \in DOMAIN route /\ Published(x.route)
  BY <1>1, LotOnRoute
<1>3. back.route \in DOMAIN route /\ route[back.route].kind = "normal"
  BY <1>1, <1>2, ReworkReturns
<1>4. LotWalks(route, x) /\ RowWalks(row, lot, work)
  BY <1>2 DEF WalkInv
<1>5. /\ x.done = Way(route[back.route], back.index, back.complete, x)
      /\ back.complete \in BOOLEAN
      /\ x.kind = "receipt" /\ x.team = Warehouse => x.done = <<>>
  BY <1>1, <1>4 DEF LotWalks, Walked, RowWalks
<1>6. y.done = Way(route[y.route], y.index, y.complete, y)
  BY <1>5, WaySame
<1>7. y.route # 0 /\ ~IsPending(route, y)
  BY <1>3, TableShape DEF Settled, IsPending
<1>8. WalksOn(route, y)
  BY <1>1, <1>3, <1>5, <1>6, <1>7 DEF WalksOn
<1>. QED  BY <1>8, BoundWalks

\* Received, or given back.
LEMMA SettledWalks ==
  ASSUME NEW rows, NEW x, LotWalks(rows, x), NEW y, y.status \in {"received", "voided"},
         y.kind = x.kind, y.team = x.team, y.serial = x.serial, y.shared = x.shared, y.route = x.route,
         y.index = x.index, y.complete = x.complete, y.rework = x.rework,
         y.done = x.done, y.redone = x.redone
  PROVE  LotWalks(rows, y)
<1>1. \A row, j, c : Way(row, j, c, y) = Way(row, j, c, x)
  BY WaySerial
<1>2. ASSUME x.route # 0 PROVE Walked(rows, y)
  <2> DEFINE row == rows[x.route]
             back == row.resume
  <2>1. Walked(rows, x)
    BY <1>2 DEF LotWalks
  <2>2. Way(row, x.index, x.complete, y) = Way(row, x.index, x.complete, x)
    BY <1>1
  <2>3. Way(rows[back.route], back.index, back.complete, y) = Way(rows[back.route], back.index, back.complete, x)
    BY <1>1
  <2>4. rows[y.route] = row /\ y.status # "gone"
    OBVIOUS
  <2> HIDE DEF row
  <2>. QED  BY <2>1, <2>2, <2>3, <2>4 DEF Walked, row
<1>. QED  BY <1>2 DEF LotWalks

-----------------------------------------------------------------------------
(* What was done to the lots, step by step.                                 *)

LEMMA SourcesAreThere ==
  ASSUME Settled, NEW r \in DOMAIN route, route[r].kind = "rework"
  PROVE  route[r].source \in DOMAIN lot
<1>1. route[r].source # 0 /\ route[r].source \in 0..Len(lot)
  BY DEF Settled, RowFits
<1>2. Len(lot) \in Nat /\ DOMAIN lot = 1..Len(lot)
  BY TableShape DEF Settled
<1>. QED  BY <1>1, <1>2

\* The lots that are written stand at the end of what was done to them.
Written(lots) ==
    \A l \in DOMAIN lots : \/ l \in DOMAIN lot /\ lots[l] = lot[l]
                           \/ LotWalks(route, lots[l])

\* What was done to a lot in its rework is kept, is over, or is registered.
Accounted(lots, records) ==
    \A l \in DOMAIN lot : \/ lots[l].redone = lot[l].redone \/ lots[l].redone = <<>>
                          \/ \E w \in DOMAIN records : records[w].lot = l

LEMMA RegisteredStays ==
  ASSUME FitInv, work' = work \/ \E record : work' = Append(work, record)
  PROVE  \A w \in DOMAIN work : w \in DOMAIN work' /\ work'[w] = work[w]
<1>1. CASE work' = work
  BY <1>1
<1>2. ASSUME NEW record, work' = Append(work, record)
      PROVE  \A w \in DOMAIN work : w \in DOMAIN work' /\ work'[w] = work[w]
  <2>1. IsTable(work)
    BY DEF FitInv, WorkFits
  <2>2. /\ DOMAIN work' = 1 .. (Len(work) + 1) /\ Len(work) \in Nat /\ DOMAIN work = 1 .. Len(work)
        /\ \A w \in DOMAIN work : work'[w] = work[w]
    BY <1>2, <2>1, TableAppend, TableShape
  <2>. QED  BY <2>2
<1>. QED  BY <1>1, <1>2

LEMMA WalkOfLots ==
  ASSUME FitInv, WalkInv, route' = route, work' = work \/ \E record : work' = Append(work, record),
         Written(lot'), Accounted(lot', work')
  PROVE  WalkInv'
<1>1. \A l \in DOMAIN lot' : LotWalks(route, lot'[l])
  BY DEF WalkInv, Written
<1>2. ASSUME NEW r \in DOMAIN route
      PROVE  RowWalks(route[r], lot', work')
  <2> DEFINE k == route[r].source
  <2>1. SUFFICES ASSUME route[r].kind = "rework"
                 PROVE  /\ route[r].resume.complete \in BOOLEAN
                        /\ lot'[k].redone # <<>> => \E w \in DOMAIN work' : work'[w].lot = k
    BY DEF RowWalks
  <2>2. k \in DOMAIN lot
    BY <2>1, SourcesAreThere DEF FitInv
  <2>3. /\ route[r].resume.complete \in BOOLEAN
        /\ lot[k].redone # <<>> => \E w \in DOMAIN work : work[w].lot = k
    <3>1. RowWalks(route[r], lot, work)
      BY DEF WalkInv
    <3>. QED  BY <2>1, <3>1 DEF RowWalks
  <2>4. \A w \in DOMAIN work : w \in DOMAIN work' /\ work'[w] = work[w]
    BY RegisteredStays
  <2>5. \/ lot'[k].redone = lot[k].redone \/ lot'[k].redone = <<>>
        \/ \E w \in DOMAIN work' : work'[w].lot = k
    BY <2>2 DEF Accounted
  <2> HIDE DEF k
  <2>. QED  BY <2>3, <2>4, <2>5
<1>. QED  BY <1>1, <1>2 DEF WalkInv

LEMMA WalkOfOneAdded ==
  ASSUME FitInv, WalkInv, route' = route, work' = work,
         NEW x, lot' = Append(lot, x), LotWalks(route, x)
  PROVE  WalkInv'
<1>1. /\ DOMAIN lot' = 1 .. (Len(lot) + 1) /\ Len(lot) \in Nat /\ DOMAIN lot = 1 .. Len(lot)
      /\ \A i \in DOMAIN lot : lot'[i] = lot[i]
      /\ lot'[Len(lot) + 1] = x
  BY TableAppend, TableShape DEF FitInv, Settled
<1>2. \A l \in DOMAIN lot' : l \in DOMAIN lot \/ l = Len(lot) + 1
  BY <1>1
<1>3. Written(lot')
  BY <1>1, <1>2 DEF Written
<1>4. Accounted(lot', work')
  BY <1>1 DEF Accounted
<1>. QED  BY <1>3, <1>4, WalkOfLots

LEMMA WalkOfOneChanged ==
  ASSUME FitInv, WalkInv, route' = route, work' = work,
         NEW l \in DOMAIN lot, NEW y, lot' = [lot EXCEPT ![l] = y], LotWalks(route, y),
         y.redone = lot[l].redone \/ y.redone = <<>>
  PROVE  WalkInv'
<1>1. DOMAIN lot' = DOMAIN lot /\ \A j \in DOMAIN lot : lot'[j] = IF j = l THEN y ELSE lot[j]
  BY TableChange DEF FitInv, Settled
<1>2. Written(lot')
  BY <1>1 DEF Written
<1>3. Accounted(lot', work')
  BY <1>1 DEF Accounted
<1>. QED  BY <1>2, <1>3, WalkOfLots

LEMMA WalkOfReceive ==
  ASSUME FitInv, WalkInv, NEW s, NEW r \in {0} \union DOMAIN route, NEW q, Receive(s, r, q)
  PROVE  WalkInv'
<1> DEFINE x == NewLot(s, r, q)
<1>1. route' = route /\ work' = work /\ lot' = Append(lot, x) /\ (r # 0 => Ready(r))
  BY DEF Receive, files
<1>2. /\ x.route = r /\ x.shared = FALSE /\ x.status = "received" /\ x.rework = 0
      /\ x.done = <<>> /\ x.redone = <<>> /\ x.complete = (r # 0)
      /\ r # 0 => x.index = 1
  BY DEF NewLot
<1> HIDE DEF x
<1>3. LotWalks(route, x)
  <2>1. CASE r = 0
    BY <1>2, <2>1 DEF LotWalks
  <2>2. CASE r # 0
    <3>1. Fresh(x)
      BY <1>1, <1>2, <2>2 DEF Fresh
    <3>. QED  BY <3>1, StartWalks DEF FitInv
  <2>. QED  BY <2>1, <2>2
<1>. QED  BY <1>1, <1>3, WalkOfOneAdded

\* Stock that is given its route.
LEMMA BoundLotWalks ==
  ASSUME FitInv, WalkInv, NEW l \in DOMAIN lot, lot[l].route = 0, lot[l].team = Warehouse, IsLot(l),
         NEW r \in DOMAIN route, Ready(r)
  PROVE  /\ LotWalks(route, Bound(l, r)) /\ Bound(l, r).redone = lot[l].redone
         /\ Sendable(Bound(l, r))
<1> DEFINE x == lot[l]
           y == Bound(l, r)
<1>1. DOMAIN x = LotColumns
  BY LotFitsIs DEF FitInv, Settled, AllFit, Standing, LotColumns
<1>2. /\ y.route = r /\ y.index = 1 /\ y.status = x.status /\ y.rework = 0 /\ y.shared = x.shared
      /\ y.shared \in BOOLEAN
  <2>1. y.rework = 0 /\ ~y.shared /\ y.shared = x.shared /\ y.route = r /\ y.index = 1 /\ y.status = x.status
    BY BoundStands DEF FitInv
  <2>2. x.shared \in BOOLEAN
    BY LotFitsIs DEF FitInv, Settled, AllFit, Standing
  <2>. QED  BY <2>1, <2>2
<1>3. y.done = x.done /\ y.redone = x.redone /\ y.complete = TRUE
  BY <1>1 DEF Bound, NewLot, LotColumns
<1>4. x.done = <<>> /\ x.redone = <<>>
  BY DEF WalkInv, LotWalks
<1>5. y.status # "gone"
  BY <1>2 DEF IsLot
<1> HIDE DEF y
<1>6. LotWalks(route, y) /\ Sendable(y)
  <2>1. Fresh(y)
    BY <1>2, <1>3, <1>4, <1>5 DEF Fresh
  <2>. QED  BY <2>1, StartWalks DEF FitInv
<1>. QED  BY <1>3, <1>6 DEF y

LEMMA WalkOfBind ==
  ASSUME FitInv, WalkInv, NEW l \in DOMAIN lot, NEW r \in DOMAIN route, Bind(l, r)
  PROVE  WalkInv'
<1>1. /\ route' = route /\ work' = work /\ lot' = [lot EXCEPT ![l] = Bound(l, r)]
      /\ lot[l].route = 0 /\ lot[l].team = Warehouse /\ Ready(r) /\ IsLot(l)
  BY DEF Bind, MayBind, files
<1>2. LotWalks(route, Bound(l, r)) /\ Bound(l, r).redone = lot[l].redone
  BY <1>1, BoundLotWalks
<1>. QED  BY <1>1, <1>2, WalkOfOneChanged

LEMMA WalkOfSettle ==
  ASSUME FitInv, WalkInv, NEW c \in DOMAIN lot, Confirm(c) \/ Void(c)
  PROVE  WalkInv'
<1> DEFINE x == lot[c]
<1>1. PICK status \in {"received", "voided"} : lot' = [lot EXCEPT ![c].status = status]
  BY DEF Confirm, Void
<1> DEFINE y == [x EXCEPT !.status = status]
<1>2. route' = route /\ work' = work /\ lot' = [lot EXCEPT ![c] = y]
  BY <1>1 DEF Confirm, Void, files
<1>3. DOMAIN x = LotColumns
  BY LotFitsIs DEF FitInv, Settled, AllFit, Standing, LotColumns
<1>4. /\ y.status \in {"received", "voided"} /\ y.kind = x.kind /\ y.team = x.team
      /\ y.serial = x.serial /\ y.shared = x.shared /\ y.route = x.route /\ y.index = x.index
      /\ y.complete = x.complete /\ y.rework = x.rework /\ y.done = x.done /\ y.redone = x.redone
  BY <1>3 DEF LotColumns, NewLot
<1> HIDE DEF y
<1>5. LotWalks(route, x)
  BY DEF WalkInv
<1>6. LotWalks(route, y)
  <2> HIDE DEF x
  <2>. QED  BY <1>4, <1>5, SettledWalks
<1>. QED  BY <1>2, <1>4, <1>6, WalkOfOneChanged

LEMMA WalkOfDispatch ==
  ASSUME FitInv, PlannedFits, WalkInv, NEW l \in DOMAIN lot, NEW s, NEW r \in {0} \union DOMAIN route,
         NEW q \in 1..OnHand(l), Dispatch(l, s, r, q)
  PROVE  WalkInv'
<1> DEFINE x == lot[l]
           chosen == IF r # 0 THEN r ELSE IF x.route # 0 THEN x.route ELSE Resolved(s)
           anonymous == x.serial = NoSerial /\ ~x.shared
           portion == [Bound(l, chosen) EXCEPT !.serial = s]
           b == IF x.route = 0 THEN Bound(l, chosen) ELSE x
<1>1. /\ route' = route /\ work' = work /\ chosen # 0 /\ IsLot(l)
      /\ \/ /\ anonymous /\ x.team = Warehouse /\ x.route = 0 /\ Ready(chosen)
            /\ \E move \in RouteMoves(portion) : lot' = Append(lot, Sent(l, portion, move, q))
         \/ /\ MayBind(l, chosen)
            /\ \E move \in RouteMoves(b) : lot' = Append([lot EXCEPT ![l] = b], Sent(l, b, move, q))
         \/ \E move \in Moves(l) : lot' = Append(lot, Sent(l, x, move, q))
  BY DEF Dispatch, Available, files
<1>2. chosen \in DOMAIN route
  BY <1>1, ChosenIsThere DEF FitInv
<1>3. DOMAIN x = LotColumns
  BY LotFitsIs DEF FitInv, Settled, AllFit, Standing, LotColumns
<1>4. LotWalks(route, x)
  BY DEF WalkInv
<1> HIDE DEF chosen, b
<1>5. ASSUME anonymous, x.route = 0, Ready(chosen),
             NEW move \in RouteMoves(portion), lot' = Append(lot, Sent(l, portion, move, q))
      PROVE  WalkInv'
  <2>1. x.done = <<>> /\ x.redone = <<>> /\ x.rework = 0 /\ x.status = "received"
    <3>1. x.rework = 0
      BY <1>5, LotFitsIs DEF FitInv, Settled, AllFit, Standing
    <3>. QED  BY <1>1, <1>4, <1>5, <3>1 DEF LotWalks, IsLot
  <2>2. /\ DOMAIN portion = LotColumns /\ portion.shared = x.shared /\ portion.status = x.status
        /\ portion.rework = x.rework /\ portion.done = x.done /\ portion.redone = x.redone
        /\ portion.route = chosen /\ portion.index = 1 /\ portion.complete = TRUE
    BY <1>3 DEF Bound, LotColumns, NewLot
  <2>3. portion.shared \in BOOLEAN
    BY <2>2, LotFitsIs DEF FitInv, Settled, AllFit, Standing
  <2> DEFINE y == Sent(l, portion, move, q)
  <2>4. lot' = Append(lot, y)
    BY <1>5
  <2>5. move \in RouteMoves(portion)
    BY <1>5
  <2> HIDE DEF portion
  <2>6. Unworked(y, portion, move)
    BY <2>2, SentUnworked
  <2> HIDE DEF y
  <2>7. Sendable(portion)
    <3>1. Fresh(portion)
      BY <1>2, <1>5, <2>1, <2>2, <2>3 DEF Fresh
    <3>. QED  BY <3>1, StartWalks DEF FitInv
  <2>8. LotWalks(route, y)
    BY <2>5, <2>6, <2>7, RouteSentWalks DEF FitInv
  <2>. QED  BY <1>1, <2>4, <2>8, WalkOfOneAdded
<1>6. ASSUME MayBind(l, chosen), NEW move \in RouteMoves(b),
             lot' = Append([lot EXCEPT ![l] = b], Sent(l, b, move, q))
      PROVE  WalkInv'
  <2>1. Ready(chosen) /\ x.team = Warehouse /\ x.route \in {0, chosen}
    BY <1>6 DEF MayBind
  <2>2. DOMAIN b = LotColumns /\ Sendable(b) /\ LotWalks(route, b) /\ b.redone = x.redone
    <3>1. CASE x.route = 0
      <4> DEFINE y == Bound(l, chosen)
      <4>1. b = y
        BY <3>1 DEF b
      <4>2. DOMAIN y = LotColumns
        BY <1>2, <2>1, <3>1, BoundStands DEF FitInv
      <4>3. LotWalks(route, y) /\ y.redone = x.redone /\ Sendable(y)
        BY <1>1, <1>2, <2>1, <3>1, BoundLotWalks
      <4> HIDE DEF y
      <4>. QED  BY <4>1, <4>2, <4>3
    <3>2. CASE x.route # 0
      <4>1. b = x /\ x.route = chosen
        BY <2>1, <3>2 DEF b
      <4>2. IsFor(chosen, x.index, x.serial, x.shared) /\ x.shared \in BOOLEAN
        BY <3>2, <4>1, LotOnRoute DEF FitInv
      <4>3. Published(chosen) /\ route[chosen].kind = "normal"
        BY <1>2, <2>1, ReadyFits DEF FitInv
      <4>4. x.complete \in BOOLEAN /\ x.done = Way(route[chosen], x.index, x.complete, x)
        BY <1>4, <3>2, <4>1, <4>3 DEF LotWalks, Walked
      <4>5. Sendable(x)
        BY <1>2, <4>1, <4>2, <4>3, <4>4 DEF Sendable
      <4>. QED  BY <1>3, <1>4, <4>1, <4>5
    <3>. QED  BY <3>1, <3>2
  <2> DEFINE y == Sent(l, b, move, q)
             lots == [lot EXCEPT ![l] = b]
             n == Len(lot)
  <2>3. Unworked(y, b, move)
    BY <2>2, SentUnworked
  <2>4. /\ IsTable(lots) /\ Len(lots) = n /\ DOMAIN lots = DOMAIN lot
        /\ n \in Nat /\ DOMAIN lot = 1 .. n
        /\ \A i \in DOMAIN lot : lots[i] = IF i = l THEN b ELSE lot[i]
    BY TableChange, TableShape DEF FitInv, Settled
  <2>5. lot' = Append(lots, y)
    BY <1>6
  <2> HIDE DEF y, lots
  <2>6. LotWalks(route, y)
    BY <1>6, <2>2, <2>3, RouteSentWalks DEF FitInv
  <2>7. /\ DOMAIN lot' = 1 .. (n + 1) /\ lot'[n + 1] = y
        /\ \A i \in DOMAIN lot : lot'[i] = lots[i]
    BY <2>4, <2>5, TableAppend
  <2>8. \A j \in DOMAIN lot' : j \in DOMAIN lot \/ j = n + 1
    BY <2>4, <2>7
  <2>9. Written(lot')
    BY <2>2, <2>4, <2>6, <2>7, <2>8 DEF Written
  <2>10. Accounted(lot', work')
    BY <2>2, <2>4, <2>7 DEF Accounted
  <2>. QED  BY <1>1, <2>9, <2>10, WalkOfLots
<1>7. ASSUME NEW move \in Moves(l), lot' = Append(lot, Sent(l, x, move, q))
      PROVE  WalkInv'
  <2>1. Unworked(Sent(l, x, move, q), x, move)
    BY <1>3, SentUnworked
  <2>2. LotWalks(route, Sent(l, x, move, q))
    BY <1>1, <2>1, MovesWalk DEF FitInv
  <2>. QED  BY <1>1, <1>7, <2>2, WalkOfOneAdded
<1>. QED  BY <1>1, <1>5, <1>6, <1>7

LEMMA WalkOfDispatchShared ==
  ASSUME FitInv, WalkInv, NEW l \in DOMAIN lot, NEW members \in left.shares, NEW first \in Range(members),
         NEW q \in 1..OnHand(l), DispatchShared(l, members, first, q)
  PROVE  WalkInv'
<1> DEFINE x == lot[l]
           portion == [Bound(l, first) EXCEPT !.shared = TRUE, !.serial = SharedSerial]
           group == [members |-> members, split |-> CommonSplit(members)]
<1>1. /\ route' = route /\ work' = work /\ x.rework = 0 /\ x.status = "received"
      /\ x.kind = "receipt" /\ x.team = Warehouse
      /\ \A s \in DOMAIN members : Ready(members[s])
      /\ \E move \in RouteMoves(portion) :
           lot' = Append(lot, [Sent(l, portion, move, q) EXCEPT !.group = group])
  BY DEF DispatchShared, Available, IsLot, files
<1>2. first \in DOMAIN route /\ Ready(first)
  <2>1. Range(members) \subseteq DOMAIN route
    BY DEF FitInv, BudgetFits
  <2>. QED  BY <1>1, <2>1 DEF Range
<1>3. DOMAIN x = LotColumns
  BY LotFitsIs DEF FitInv, Settled, AllFit, Standing, LotColumns
<1>4. x.done = <<>> /\ x.redone = <<>>
  BY <1>1 DEF WalkInv, LotWalks
<1>5. /\ DOMAIN portion = LotColumns /\ portion.shared = TRUE /\ portion.status = x.status
      /\ portion.rework = x.rework /\ portion.done = x.done /\ portion.redone = x.redone
      /\ portion.route = first /\ portion.index = 1 /\ portion.complete = TRUE
  BY <1>3 DEF Bound, LotColumns, NewLot
<1>6. PICK move \in RouteMoves(portion) :
             lot' = Append(lot, [Sent(l, portion, move, q) EXCEPT !.group = group])
  BY <1>1
<1> DEFINE y == [Sent(l, portion, move, q) EXCEPT !.group = group]
<1>7. Unworked(y, portion, move)
  BY <1>5 DEF Sent, Unworked, LotColumns, NewLot
<1> HIDE DEF portion, y
<1>8. Sendable(portion)
  <2>1. Fresh(portion)
    BY <1>1, <1>2, <1>4, <1>5 DEF Fresh
  <2>. QED  BY <2>1, StartWalks DEF FitInv
<1>9. LotWalks(route, y)
  BY <1>6, <1>7, <1>8, RouteSentWalks DEF FitInv
<1>10. lot' = Append(lot, y)
  BY <1>6 DEF y
<1>. QED  BY <1>1, <1>9, <1>10, WalkOfOneAdded

LEMMA WalkOfMaterial ==
  ASSUME FitInv, PlannedFits, WalkInv, MoveMaterial
  PROVE  WalkInv'
<1>1. ASSUME NEW s \in Serials, NEW r \in DOMAIN route, Plan(s, r) PROVE WalkInv'
  <2>1. route' = route /\ lot' = lot /\ work' = work
    BY <1>1 DEF Plan, files
  <2>2. Written(lot') /\ Accounted(lot', work')
    BY <2>1 DEF Written, Accounted
  <2>. QED  BY <2>1, <2>2, WalkOfLots
<1>2. CASE \E s \in Serials \union {NoSerial}, r \in {0} \union DOMAIN route : Receive(s, r, left.pieces)
  BY <1>2, WalkOfReceive
<1>3. CASE \E l \in DOMAIN lot, r \in DOMAIN route : Bind(l, r)
  BY <1>3, WalkOfBind
<1>4. CASE \E l \in DOMAIN lot, s \in Serials \union {SharedSerial}, r \in {0} \union DOMAIN route :
             \E q \in 1..OnHand(l) : Dispatch(l, s, r, q)
  BY <1>4, WalkOfDispatch
<1>5. CASE \E l \in DOMAIN lot, members \in left.shares :
             \E first \in Range(members), q \in 1..OnHand(l) : DispatchShared(l, members, first, q)
  BY <1>5, WalkOfDispatchShared
<1>6. CASE \E c \in DOMAIN lot : Confirm(c) \/ Void(c)
  BY <1>6, WalkOfSettle
<1>. QED  BY <1>1, <1>2, <1>3, <1>4, <1>5, <1>6 DEF MoveMaterial

\* The lots with some that were made.
Extended(lots) == IsTable(lots) /\ Written(lots) /\ \A i \in DOMAIN lot : i \in DOMAIN lots /\ lots[i] = lot[i]

LEMMA ExtendedOnce ==
  ASSUME NEW lots, Extended(lots), NEW y, LotWalks(route, y)
  PROVE  Extended(Append(lots, y))
<1> DEFINE n == Len(lots)
           new == Append(lots, y)
<1>1. /\ IsTable(new) /\ DOMAIN new = 1 .. (n + 1) /\ n \in Nat /\ DOMAIN lots = 1 .. n
      /\ \A i \in DOMAIN lots : new[i] = lots[i]
      /\ new[n + 1] = y
  BY TableAppend, TableShape DEF Extended
<1>2. \A i \in DOMAIN new : i \in DOMAIN lots \/ i = n + 1
  BY <1>1
<1> HIDE DEF new
<1>3. Written(new)
  BY <1>1, <1>2 DEF Extended, Written
<1>4. \A i \in DOMAIN lot : i \in DOMAIN new /\ new[i] = lot[i]
  BY <1>1 DEF Extended
<1>. QED  BY <1>1, <1>3, <1>4 DEF Extended, new

LEMMA WalkOfProcess ==
  ASSUME FitInv, WalkInv, NEW l \in DOMAIN lot, NEW s, NEW made \in 1..OnHand(l), NEW scrap \in 0..1,
         Process(l, s, made, scrap), ~Misallocates
  PROVE  WalkInv'
<1> DEFINE x == lot[l]
           rest == OnHand(l) - made - scrap
           A == Output(l, "produced", s, made)
           B == Output(l, "scrap", s, scrap)
           C == Output(l, "remaining", s, rest)
<1>1. /\ route' = route /\ MayWork(l) /\ \E record : work' = Append(work, record)
      /\ x.shared /\ IsSplitStep(l, StepAt(l)) => s \in DOMAIN x.group.members
      /\ lot' = lot \o (<<A>> \o (IF scrap > 0 THEN <<B>> ELSE <<>>) \o (IF rest > 0 THEN <<C>> ELSE <<>>))
  BY DEF Process, files, Registered
<1>2. LotWalks(route, A) /\ LotWalks(route, B) /\ LotWalks(route, C)
  <2>1. x.shared /\ IsSplitStep(l, StepAt(l)) => ~Active(l) /\ s \in DOMAIN x.group.members
    BY <1>1, WellAllocated DEF FitInv
  <2>. QED  BY <1>1, <2>1, OutputWalks DEF FitInv
<1> HIDE DEF A, B, C, rest
<1>3. Extended(lot)
  BY DEF FitInv, Settled, Extended, Written
<1>4. /\ Extended(Append(lot, A)) /\ Extended(Append(Append(lot, A), B))
      /\ Extended(Append(Append(lot, A), C)) /\ Extended(Append(Append(Append(lot, A), B), C))
  BY <1>2, <1>3, ExtendedOnce
<1>5. /\ lot \o (<<A>> \o <<>> \o <<>>) = Append(lot, A)
      /\ lot \o (<<A>> \o <<B>> \o <<>>) = Append(Append(lot, A), B)
      /\ lot \o (<<A>> \o <<>> \o <<C>>) = Append(Append(lot, A), C)
      /\ lot \o (<<A>> \o <<B>> \o <<C>>) = Append(Append(Append(lot, A), B), C)
  <2>1. IsTable(lot)
    BY DEF FitInv, Settled
  <2>2. Joined(lot, A, B, C)
    BY <2>1, TableLines
  <2>. QED  BY <2>2 DEF Joined
<1>6. Extended(lot')
  BY <1>1, <1>4, <1>5
<1>7. Written(lot') /\ Accounted(lot', work')
  BY <1>6 DEF Extended, Accounted
<1>. QED  BY <1>1, <1>7, WalkOfLots

LEMMA WalkOfInPlace ==
  ASSUME FitInv, WalkInv, NEW l \in DOMAIN lot, ProcessInPlace(l)
  PROVE  WalkInv'
<1> DEFINE x == lot[l]
           i == StepAt(l)
           what == <<x.team, Steps(x.route)[i].task>>
           y == [x EXCEPT !.index = i, !.complete = TRUE, !.waiting = FALSE,
                          !.rounds = IF ~Active(l) THEN @
                                     ELSE 1 + (IF EndsAt(x, i) THEN route[x.route].round ELSE @),
                          !.done = IF Active(l) THEN @ ELSE Append(@, what),
                          !.redone = IF Active(l) THEN Append(@, what) ELSE @]
           record == [lot |-> l, team |-> lot[l].team, kind |-> IF Active(l) THEN "rework" ELSE "normal",
                      route |-> lot[l].route, index |-> StepAt(l), outputs |-> {}, completed |-> OnHand(l)]
<1>1. /\ route' = route /\ MayWork(l) /\ lot' = [lot EXCEPT ![l] = y]
      /\ work' = Append(work, record)
  BY DEF ProcessInPlace, Registered, files
<1>2. DOMAIN x = LotColumns
  BY LotFitsIs DEF FitInv, Settled, AllFit, Standing, LotColumns
<1>3. /\ y.kind = x.kind /\ y.status = x.status /\ y.team = x.team /\ y.serial = x.serial
      /\ y.shared = x.shared /\ y.route = x.route /\ y.rework = x.rework
      /\ y.index = i /\ y.complete = TRUE
      /\ y.done = (IF Active(l) THEN x.done ELSE Append(x.done, what))
      /\ y.redone = (IF Active(l) THEN Append(x.redone, what) ELSE x.redone)
  BY <1>2 DEF LotColumns, NewLot
<1> HIDE DEF y
<1>4. what = <<lot[l].team, route[lot[l].route].steps[StepAt(l)].task>>
  BY DEF Steps
<1>5. LotWalks(route, y)
  BY <1>1, <1>3, <1>4, InPlaceWalks DEF FitInv
<1>6. DOMAIN lot' = DOMAIN lot /\ \A j \in DOMAIN lot : lot'[j] = IF j = l THEN y ELSE lot[j]
  BY <1>1, TableChange DEF FitInv, Settled
<1>7. Written(lot')
  BY <1>5, <1>6 DEF Written
<1>8. \E w \in DOMAIN work' : work'[w].lot = l
  <2>1. record.lot = l
    OBVIOUS
  <2> HIDE DEF record
  <2>2. IsTable(work)
    BY DEF FitInv, WorkFits
  <2>3. Len(work) + 1 \in DOMAIN work' /\ work'[Len(work) + 1] = record
    BY <1>1, <2>2, TableAppend, TableShape
  <2>. QED  BY <2>1, <2>3
<1>9. Accounted(lot', work')
  BY <1>6, <1>8 DEF Accounted
<1>. QED  BY <1>1, <1>7, <1>9, WalkOfLots

LEMMA WalkOfResume ==
  ASSUME FitInv, WalkInv, NEW l \in DOMAIN lot, Resume(l)
  PROVE  WalkInv'
<1> DEFINE x == lot[l]
           back == route[x.route].resume
           y == [x EXCEPT !.route = back.route, !.index = back.index, !.complete = back.complete,
                          !.rework = 0, !.waiting = FALSE, !.redone = <<>>]
<1>1. /\ route' = route /\ work' = work /\ Active(l) /\ IsLot(l) /\ lot' = [lot EXCEPT ![l] = y]
  BY DEF Resume, MayResume, files
<1>2. DOMAIN x = LotColumns
  BY LotFitsIs DEF FitInv, Settled, AllFit, Standing, LotColumns
<1>3. /\ y.kind = x.kind /\ y.status = x.status /\ y.team = x.team /\ y.serial = x.serial
      /\ y.shared = x.shared /\ y.route = back.route /\ y.index = back.index
      /\ y.complete = back.complete /\ y.rework = 0 /\ y.done = x.done /\ y.redone = <<>>
  BY <1>2 DEF LotColumns, NewLot
<1> HIDE DEF y
<1>4. LotWalks(route, y)
  BY <1>1, <1>3, ResumedWalks DEF FitInv
<1>. QED  BY <1>1, <1>3, <1>4, WalkOfOneChanged

-----------------------------------------------------------------------------
(* What was done to the lots, while rows are written.                       *)

LEMMA PlaceIs ==
  ASSUME NEW a, NEW b, Place(a) = Place(b)
  PROVE  a.route = b.route /\ a.index = b.index /\ a.complete = b.complete
BY DEF Place

LEMMA LotWalksOverRows ==
  ASSUME Settled, NEW new, RowsGrow(route, new), NEW l \in DOMAIN lot,
         LotWalks(route, lot[l])
  PROVE  LotWalks(new, lot[l])
<1> DEFINE x == lot[l]
           r == x.route
           row == route[r]
           back == row.resume
           place == new[r].resume
<1>1. ASSUME r # 0
      PROVE  /\ new[r].kind = row.kind /\ new[r].serials = row.serials /\ new[r].steps = row.steps
             /\ place.route = back.route /\ place.index = back.index /\ place.complete = back.complete
             /\ r \in DOMAIN route /\ Published(r)
  <2>1. r \in DOMAIN route /\ Published(r)
    BY <1>1, LotOnRoute
  <2>2. Place(place) = Place(back)
    BY <2>1 DEF RowsGrow
  <2>. QED  BY <2>1, <2>2, PlaceIs DEF RowsGrow, Published
<1>2. ASSUME r # 0 PROVE Walked(new, x)
  <2>1. Walked(route, x)
    BY <1>2 DEF LotWalks
  <2>2. Way(new[r], x.index, x.complete, x) = Way(row, x.index, x.complete, x)
    BY <1>1, <1>2, WaySame
  <2>3. ASSUME row.kind = "rework"
        PROVE  Way(new[place.route], place.index, place.complete, x)
                 = Way(route[back.route], back.index, back.complete, x)
    <3>1. back.route \in DOMAIN route /\ Published(back.route)
      BY <1>1, <1>2, <2>3, ReworkReturns
    <3>2. /\ new[back.route].kind = route[back.route].kind
          /\ new[back.route].serials = route[back.route].serials
          /\ new[back.route].steps = route[back.route].steps
      BY <3>1 DEF RowsGrow, Published
    <3>3. Way(new[back.route], back.index, back.complete, x)
            = Way(route[back.route], back.index, back.complete, x)
      BY <3>2, WaySame, SMTT(30)
    <3>4. place.route = back.route /\ place.index = back.index /\ place.complete = back.complete
      BY <1>1, <1>2
    <3> HIDE DEF place, back
    <3>. QED  BY <3>3, <3>4
  <2>4. NextIn(new[r], x.index, x.serial, x.shared) = NextIn(row, x.index, x.serial, x.shared)
    <3>1. /\ new[r].kind = row.kind /\ new[r].serials = row.serials /\ new[r].steps = row.steps
      BY <1>1, <1>2
    <3>2. SerialIn(new[r], x.serial) = SerialIn(row, x.serial)
      BY <3>1, SerialKept
    <3>. QED  BY <3>1, <3>2 DEF NextIn, PathIn
  <2>5. new[r].kind = row.kind
    BY <1>1, <1>2
  <2> HIDE DEF x, row, back, place, r
  <2>. QED  BY <2>1, <2>2, <2>3, <2>4, <2>5 DEF Walked, r, row, back, place
<1>. QED  BY <1>2 DEF LotWalks

LEMMA RowWalksOverRows ==
  ASSUME NEW row, NEW new, new.kind = row.kind, new.source = row.source,
         Place(new.resume) = Place(row.resume), RowWalks(row, lot, work)
  PROVE  RowWalks(new, lot, work)
BY PlaceIs DEF RowWalks

\* Rows are written, or some are added for material that is registered.
LEMMA WalkOfRows ==
  ASSUME FitInv, WalkInv, lot' = lot, work' = work, RowsGrow(route, route'),
         \A r \in DOMAIN route' : r \in DOMAIN route \/ RowWalks(route'[r], lot, work)
  PROVE  WalkInv'
<1>1. \A l \in DOMAIN lot : LotWalks(route', lot[l])
  BY LotWalksOverRows DEF FitInv, WalkInv
<1>2. \A r \in DOMAIN route : RowWalks(route'[r], lot, work)
  BY RowWalksOverRows DEF WalkInv, RowsGrow
<1>3. \A r \in DOMAIN route' : RowWalks(route'[r], lot, work)
  BY <1>2
<1>. QED  BY <1>1, <1>3 DEF WalkInv

LEMMA WalkOfInsert ==
  ASSUME FitInv, WalkInv, NEW row, route' = Append(route, row), lot' = lot, work' = work,
         RowWalks(row, lot, work)
  PROVE  WalkInv'
<1> DEFINE n == Len(route)
<1>1. /\ DOMAIN route' = 1 .. (n + 1) /\ n \in Nat /\ DOMAIN route = 1 .. n
      /\ \A r \in DOMAIN route : route'[r] = route[r]
      /\ route'[n + 1] = row
  BY TableAppend, TableShape DEF FitInv, Settled
<1>2. RowsGrow(route, route')
  BY <1>1 DEF RowsGrow
<1>3. \A r \in DOMAIN route' : r \in DOMAIN route \/ r = n + 1
  BY <1>1
<1>4. \A r \in DOMAIN route' : r \in DOMAIN route \/ RowWalks(route'[r], lot, work)
  BY <1>1, <1>3
<1>. QED  BY <1>2, <1>4, WalkOfRows

LEMMA WalkOfChange ==
  ASSUME FitInv, WalkInv, NEW r \in DOMAIN route, route[r].state = "draft",
         NEW row, route' = [route EXCEPT ![r] = row], lot' = lot, work' = work,
         row.kind = route[r].kind, row.parent = route[r].parent, row.source = route[r].source,
         row.resume = route[r].resume
  PROVE  WalkInv'
<1>1. /\ DOMAIN route' = DOMAIN route
      /\ \A q \in DOMAIN route : route'[q] = IF q = r THEN row ELSE route[q]
  BY TableChange DEF FitInv, Settled
<1>2. RowsGrow(route, route')
  BY <1>1 DEF RowsGrow
<1>. QED  BY <1>1, <1>2, WalkOfRows

LEMMA WalkOfWrite ==
  ASSUME ReviewInv, FitInv, WalkInv, work' = work, NEW p \in People, MayEdit(p),
         NEW row, Write(p, row), DOMAIN row = Columns,
         row.kind = route[screen[p].route].kind, row.parent = route[screen[p].route].parent,
         row.source = route[screen[p].route].source, row.resume = route[screen[p].route].resume
  PROVE  WalkInv'
<1> DEFINE new == [row EXCEPT !.version = @ + 1]
<1>1. screen[p].route \in DOMAIN route /\ route[screen[p].route].state = "draft"
  BY EditedFits
<1>2. route' = [route EXCEPT ![screen[p].route] = new] /\ lot' = lot
  BY DEF Write
<1>3. /\ new.kind = row.kind /\ new.parent = row.parent /\ new.source = row.source
      /\ new.resume = row.resume
  BY DEF Columns, NewRow
<1> HIDE DEF new
<1>. QED  BY <1>1, <1>2, <1>3, WalkOfChange

LEMMA WalkOfStill ==
  ASSUME WalkInv, route' = route, lot' = lot, work' = work
  PROVE  WalkInv'
BY DEF WalkInv

LEMMA WalkOfCreate ==
  ASSUME FitInv, WalkInv, NEW p \in People, NEW c \in left.contents, NEW drawn \in SUBSET Drawings,
         NEW named \in BOOLEAN, CreateDraft(p, c.serials, c.steps, drawn, named)
  PROVE  WalkInv'
<1> DEFINE row == [NewRow("normal", 0, c.serials, c.steps) EXCEPT
                     !.word = 1, !.required = TRUE, !.drawings = drawn,
                     !.author = named, !.reviser = named]
<1>1. route' = Append(route, row) /\ lot' = lot /\ work' = work
  BY DEF CreateDraft, Insert
<1>2. RowWalks(row, lot, work)
  BY DEF RowWalks, NewRow
<1> HIDE DEF row
<1>. QED  BY <1>1, <1>2, WalkOfInsert

LEMMA WalkOfRevise ==
  ASSUME FitInv, WalkInv, NEW p \in People, NEW r \in DOMAIN route, Revise(p, r)
  PROVE  WalkInv'
<1> DEFINE old == route[r]
           row == [old EXCEPT !.state = "draft", !.version = 1, !.parent = r, !.reviser = FALSE]
<1>1. route' = Append(route, row) /\ lot' = lot /\ work' = work
  BY DEF Revise, Insert
<1>2. RowStands(route, lot, old, r)
  BY RowFitsIs DEF FitInv, Settled
<1>3. row.kind = old.kind /\ row.source = old.source /\ row.resume = old.resume
  BY <1>2 DEF RowStands, Columns, NewRow
<1> HIDE DEF row
<1>4. RowWalks(row, lot, work)
  BY <1>3, RowWalksOverRows DEF WalkInv
<1>. QED  BY <1>1, <1>4, WalkOfInsert

LEMMA WalkOfSave ==
  ASSUME ReviewInv, FitInv, WalkInv, NEW p \in People, NEW c \in left.contents, NEW named \in BOOLEAN,
         SaveDraft(p, c.serials, c.steps, named)
  PROVE  WalkInv'
<1> DEFINE r == screen[p].route
           old == route[r]
           new == [old EXCEPT !.serials = c.serials, !.steps = c.steps,
                              !.author = IF old.parent = 0 THEN named ELSE @,
                              !.reviser = named]
           row == [new EXCEPT !.confirmed = IF @ = Fingerprint(new) THEN @ ELSE <<>>]
<1>1. work' = work /\ MayEdit(p) /\ Write(p, row)
  BY DEF SaveDraft, Write
<1>2. DOMAIN old = Columns
  BY <1>1, EditedFits
<1>3. /\ DOMAIN new = Columns /\ new.kind = old.kind /\ new.source = old.source
      /\ new.resume = old.resume /\ new.parent = old.parent
  BY <1>2 DEF Columns, NewRow
<1> HIDE DEF new
<1>4. /\ DOMAIN row = Columns /\ row.kind = old.kind /\ row.source = old.source
      /\ row.resume = old.resume /\ row.parent = old.parent
  BY <1>3 DEF Columns, NewRow
<1> HIDE DEF row
<1>. QED  BY <1>1, <1>4, WalkOfWrite

LEMMA WalkOfFile ==
  ASSUME ReviewInv, FitInv, WalkInv, NEW p \in People,
         AttachWord(p) \/ AttachOrder(p) \/ \E d \in Drawings : UploadDrawing(p, d) \/ RemoveDrawing(p, d)
  PROVE  WalkInv'
<1> DEFINE old == route[screen[p].route]
<1>1. work' = work /\ MayEdit(p)
  BY DEF AttachWord, AttachOrder, UploadDrawing, RemoveDrawing, Write
<1>2. DOMAIN old = Columns
  BY <1>1, EditedFits
<1>3. ASSUME NEW row, Write(p, row), DOMAIN row = Columns, row.kind = old.kind,
             row.source = old.source, row.resume = old.resume, row.parent = old.parent
      PROVE  WalkInv'
  BY <1>1, <1>3, WalkOfWrite
<1>4. CASE AttachWord(p)
  <2> DEFINE row == [old EXCEPT !.word = @ + 1, !.required = TRUE, !.confirmed = <<>>]
  <2>1. Write(p, row)
    BY <1>4 DEF AttachWord
  <2>2. /\ DOMAIN row = Columns /\ row.kind = old.kind
        /\ row.source = old.source /\ row.resume = old.resume /\ row.parent = old.parent
    BY <1>2 DEF Columns, NewRow
  <2> HIDE DEF row
  <2>. QED  BY <1>3, <2>1, <2>2
<1>5. CASE AttachOrder(p)
  <2> DEFINE row == [old EXCEPT !.order = @ + 1, !.required = TRUE, !.confirmed = <<>>]
  <2>1. Write(p, row)
    BY <1>5 DEF AttachOrder
  <2>2. /\ DOMAIN row = Columns /\ row.kind = old.kind
        /\ row.source = old.source /\ row.resume = old.resume /\ row.parent = old.parent
    BY <1>2 DEF Columns, NewRow
  <2> HIDE DEF row
  <2>. QED  BY <1>3, <2>1, <2>2
<1>6. ASSUME NEW d \in Drawings, UploadDrawing(p, d) \/ RemoveDrawing(p, d) PROVE WalkInv'
  <2>1. PICK drawn : Write(p, [old EXCEPT !.drawings = drawn])
    BY <1>6 DEF UploadDrawing, RemoveDrawing
  <2> DEFINE row == [old EXCEPT !.drawings = drawn]
  <2>2. /\ DOMAIN row = Columns /\ row.kind = old.kind
        /\ row.source = old.source /\ row.resume = old.resume /\ row.parent = old.parent
    BY <1>2 DEF Columns, NewRow
  <2>3. Write(p, row)
    BY <2>1
  <2> HIDE DEF row
  <2>. QED  BY <1>3, <2>2, <2>3
<1>. QED  BY <1>4, <1>5, <1>6

LEMMA WalkOfEdit ==
  ASSUME ReviewInv, FitInv, WalkInv, EditRoutes
  PROVE  WalkInv'
<1>1. PICK p \in People :
      \/ \E c \in left.contents, named \in BOOLEAN : SaveDraft(p, c.serials, c.steps, named)
      \/ \E c \in left.contents, drawn \in SUBSET Drawings, named \in BOOLEAN :
           CreateDraft(p, c.serials, c.steps, drawn, named)
      \/ \E r \in DOMAIN route : Open(p, r)
      \/ AttachWord(p) \/ AttachOrder(p)
      \/ \E d \in Drawings : UploadDrawing(p, d)
      \/ \E d \in Drawings : RemoveDrawing(p, d)
      \/ \E imports \in BOOLEAN : PublishReads(p, imports)
      \/ \E r \in DOMAIN route : Revise(p, r)
  BY DEF EditRoutes
<1>2. ASSUME NEW r \in DOMAIN route, Open(p, r) PROVE WalkInv'
  <2>1. route' = route /\ lot' = lot /\ work' = work
    BY <1>2 DEF Open, tables
  <2>. QED  BY <2>1, WalkOfStill
<1>3. ASSUME NEW imports \in BOOLEAN, PublishReads(p, imports) PROVE WalkInv'
  <2>1. route' = route /\ lot' = lot /\ work' = work
    BY <1>3 DEF PublishReads, tables
  <2>. QED  BY <2>1, WalkOfStill
<1>. QED  BY <1>1, <1>2, <1>3, WalkOfSave, WalkOfCreate, WalkOfFile, WalkOfRevise

LEMMA WalkOfRework ==
  ASSUME FitInv, WalkInv, NEW l \in DOMAIN lot, NEW q \in 1..OnHand(l), NEW w \in DOMAIN work, RequestRework(l, q, w)
  PROVE  WalkInv'
<1> DEFINE x == lot[l]
           n == Len(route)
           c == Len(lot) + 1
           names == IF x.shared THEN route[x.route].serials ELSE <<x.serial>>
           y == [x EXCEPT !.kind = "split", !.source = l, !.from = x.team, !.q = q,
                          !.waiting = TRUE, !.rework = n + 1]
           row == [NewRow("rework", 0, names, <<>>) EXCEPT
                     !.source = c, !.of = w, !.drawings = route[x.route].drawings,
                     !.resume = [route |-> x.route, index |-> x.index, complete |-> x.complete,
                                 team |-> x.team],
                     !.round = x.rounds + 1]
<1>1. /\ work' = work /\ x.route # 0 /\ ~Active(l) /\ x.status = "received"
      /\ lot' = Append(lot, y) /\ route' = Append(route, row)
  BY DEF RequestRework, Available, IsLot
<1>2. DOMAIN x = LotColumns
  BY LotFitsIs DEF FitInv, Settled, AllFit, Standing, LotColumns
<1>3. /\ y.kind = "split" /\ y.status = x.status /\ y.serial = x.serial /\ y.shared = x.shared
      /\ y.route = x.route /\ y.index = x.index /\ y.complete = x.complete /\ y.rework = n + 1
      /\ y.done = x.done /\ y.redone = x.redone
  BY <1>2 DEF LotColumns, NewLot
<1> HIDE DEF y
<1>4. /\ row.kind = "rework" /\ row.state = "draft" /\ row.parent = 0 /\ row.source = c
      /\ row.resume.route = x.route /\ row.resume.index = x.index /\ row.resume.complete = x.complete
  <2> HIDE DEF names
  <2>. QED  BY DEF NewRow
<1> HIDE DEF row
<1>5. /\ DOMAIN route' = 1 .. (n + 1) /\ n \in Nat /\ DOMAIN route = 1 .. n
      /\ \A r \in DOMAIN route : route'[r] = route[r]
      /\ route'[n + 1] = row
  BY <1>1, TableAppend, TableShape DEF FitInv, Settled
<1>6. /\ DOMAIN lot' = 1 .. c /\ c \in Nat /\ DOMAIN lot = 1 .. (c - 1)
      /\ \A k \in DOMAIN lot : lot'[k] = lot[k]
      /\ lot'[c] = y
  BY <1>1, TableAppend, TableShape DEF FitInv, Settled
<1> HIDE DEF n, c
<1>7. RowsGrow(route, route')
  BY <1>5 DEF RowsGrow
<1>8. \A j \in DOMAIN lot : LotWalks(route', lot[j])
  BY <1>7, LotWalksOverRows DEF FitInv, WalkInv
<1>9. /\ x.complete \in BOOLEAN /\ x.done = Way(route'[x.route], x.index, x.complete, x) /\ x.redone = <<>>
      /\ route'[x.route].kind # "rework" /\ x.route \in DOMAIN route
  <2>1. x.route \in DOMAIN route
    BY <1>1, LotOnRoute DEF FitInv
  <2>2. route'[x.route].kind # "rework"
    BY <1>1, <1>5, <2>1 DEF Active
  <2>3. x.complete \in BOOLEAN /\ Walked(route', x)
    BY <1>1, <1>8 DEF LotWalks
  <2>. QED  BY <2>1, <2>2, <2>3 DEF Walked
<1>10. LotWalks(route', y)
  <2>1. Way(route'[x.route], x.index, x.complete, y) = Way(route'[x.route], x.index, x.complete, x)
    BY <1>3, WaySerial
  <2>2. y.done = Way(route'[y.route], y.index, y.complete, y) /\ y.redone = <<>> /\ y.status = "received"
    BY <1>1, <1>3, <1>9, <2>1
  <2>3. Walked(route', y)
    BY <1>3, <1>9, <2>2 DEF Walked
  <2>. QED  BY <1>1, <1>3, <1>9, <2>2, <2>3 DEF LotWalks
<1>11. \A j \in DOMAIN lot' : LotWalks(route', lot'[j])
  <2>1. \A j \in DOMAIN lot' : j \in DOMAIN lot \/ j = c
    BY <1>6
  <2>. QED  BY <1>6, <1>8, <1>10, <2>1
<1>12. \A r \in DOMAIN route' : r \in DOMAIN route \/ r = n + 1
  BY <1>5
<1>13. ASSUME NEW r \in DOMAIN route'
       PROVE  RowWalks(route'[r], lot', work)
  <2>1. CASE r = n + 1
    <3>1. lot'[route'[r].source].redone = <<>> /\ route'[r].resume.complete = x.complete
      BY <1>3, <1>4, <1>5, <1>6, <1>9, <2>1
    <3>. QED  BY <1>9, <3>1 DEF RowWalks
  <2>2. CASE r \in DOMAIN route
    <3>1. RowWalks(route[r], lot, work) /\ route'[r] = route[r]
      BY <1>5, <2>2 DEF WalkInv
    <3>2. route[r].kind = "rework" => lot'[route[r].source] = lot[route[r].source]
      BY <1>6, <2>2, SourcesAreThere DEF FitInv
    <3>. QED  BY <3>1, <3>2 DEF RowWalks
  <2>. QED  BY <1>12, <2>1, <2>2
<1>. QED  BY <1>1, <1>11, <1>13 DEF WalkInv

LEMMA WalkOfWork ==
  ASSUME FitInv, WalkInv, WorkOnMaterial, ~Misallocates
  PROVE  WalkInv'
<1>1. PICK l \in DOMAIN lot :
        \/ \E s \in Serials \union {SharedSerial}, made \in 1..OnHand(l), scrap \in 0..1 :
             Process(l, s, made, scrap)
        \/ ProcessInPlace(l)
        \/ \E q \in 1..OnHand(l), w \in DOMAIN work : RequestRework(l, q, w)
        \/ Resume(l)
  BY DEF WorkOnMaterial
<1>2. ASSUME NEW s, NEW made \in 1..OnHand(l), NEW scrap \in 0..1, Process(l, s, made, scrap) PROVE WalkInv'
  BY <1>2, WalkOfProcess
<1>3. ASSUME NEW q \in 1..OnHand(l), NEW w \in DOMAIN work, RequestRework(l, q, w) PROVE WalkInv'
  BY <1>3, WalkOfRework
<1>. QED  BY <1>1, <1>2, <1>3, WalkOfInPlace, WalkOfResume

\* A rework's material at the start of its route: where it returns to is where it
\* came from, and nothing of an earlier version of the rework was done.
LEMMA StartOfRework ==
  ASSUME ReviewInv, FitInv, WalkInv, NEW e \in publishing, FinishPublish(e), ~Overtakes,
         route[e.route].kind = "rework"
  PROVE  LET row == route[e.route]
             back == row.resume
             x == lot[row.source]
         IN /\ row.source \in DOMAIN lot /\ x.status # "gone" /\ x.redone = <<>>
            /\ x.done = Way(route[back.route], back.index, back.complete, x)
<1> DEFINE r == e.route
           row == route[r]
           back == row.resume
           k == row.source
           x == lot[k]
<1>1. /\ r \in DOMAIN route /\ row.state = "draft" /\ route'[r].state = "published"
      /\ RowStands(route, lot, row, r)
  BY RowsPublished
<1>2. k \in DOMAIN lot
  BY <1>1, SourcesAreThere DEF FitInv
<1>3. IF row.parent # 0 THEN x.rework = row.parent ELSE x.rework = r
  BY DEF FinishPublish, Publishable, MayActivate
<1>4. LotWalks(route, x) /\ RowWalks(row, lot, work)
  BY <1>1, <1>2 DEF WalkInv
<1>5. r # 0
  BY <1>1, TableShape DEF FitInv, Settled
<1>6. x.rework # 0 /\ x.status # "gone"
  BY <1>3, <1>4, <1>5 DEF LotWalks
<1>7. Standing(route, x, k)
  BY <1>2, LotFitsIs DEF FitInv, Settled, AllFit
<1>8. x.route # 0 /\ Walked(route, x)
  BY <1>4, <1>6, <1>7 DEF Standing, LotWalks
<1>9. CASE row.parent = 0
  <2>1. x.rework = r
    BY <1>3, <1>9
  <2>2. Place(back) = Place(x)
    BY <1>1, <1>5, <1>7, <2>1 DEF Standing
  <2>3. back.route = x.route /\ back.index = x.index /\ back.complete = x.complete
    BY <2>2, PlaceIs
  <2>4. route[x.route].kind = "normal"
    BY <1>1, <1>6, <1>7, <2>1 DEF Standing
  <2>5. x.done = Way(route[x.route], x.index, x.complete, x) /\ x.redone = <<>>
    BY <1>8, <2>4 DEF Walked
  <2>. QED  BY <1>2, <1>6, <2>3, <2>5
<1>10. CASE row.parent # 0
  <2> DEFINE p == row.parent
             old == route[p].resume
  <2>1. x.rework = p /\ route[p].kind = "rework" /\ route[p].state = "published" /\ Place(back) = Place(old)
    BY <1>1, <1>3, <1>10 DEF RowStands
  <2>2. x.route = p
    BY <1>6, <1>7, <2>1 DEF Standing
  <2>3. back.route = old.route /\ back.index = old.index /\ back.complete = old.complete
    BY <2>1, PlaceIs
  <2>4. x.done = Way(route[old.route], old.index, old.complete, x)
    BY <1>8, <2>1, <2>2 DEF Walked
  <2>5. x.redone = <<>>
    <3>1. Activates(r)
      BY <1>1 DEF Activates, Published
    <3>2. ~\E w \in DOMAIN work : work[w].lot = k
      BY <1>1, <1>10, <3>1 DEF Overtakes
    <3>. QED  BY <1>4, <3>2 DEF RowWalks
  <2> HIDE DEF old, p
  <2>. QED  BY <1>2, <1>6, <2>3, <2>4, <2>5
<1>. QED  BY <1>9, <1>10

LEMMA WalkOfPublished ==
  ASSUME ReviewInv, FitInv, WalkInv, NEW e \in publishing, FinishPublish(e), ~Overtakes
  PROVE  WalkInv'
<1> DEFINE r == e.route
           old == route[r]
           new == route'[r]
           back == old.resume
           k == old.source
           x == lot[k]
           y == [x EXCEPT !.rework = r, !.route = r, !.index = 1, !.complete = FALSE]
<1>1. /\ r \in DOMAIN route /\ old.state = "draft" /\ RowStands(route, lot, old, r)
      /\ DOMAIN route' = DOMAIN route
      /\ \A q \in DOMAIN route : q # r => route'[q] = route[q]
      /\ new.state = "published" /\ new.kind = old.kind /\ new.serials = old.serials
      /\ new.steps = old.steps /\ new.source = old.source /\ new.parent = old.parent
      /\ new.resume.route = back.route /\ new.resume.index = back.index
      /\ new.resume.complete = back.complete
      /\ ValidSteps(new) /\ RowsGrow(route, route')
  BY RowsPublished
<1>2. work' = work /\ (lot' = lot \/ (old.kind = "rework" /\ lot' = [lot EXCEPT ![k] = y]))
  <2>1. old.kind \in {"normal", "rework"}
    BY <1>1 DEF RowStands
  <2>. QED  BY <2>1 DEF FinishPublish
<1>4. \A l \in DOMAIN lot : LotWalks(route', lot[l])
  BY <1>1, LotWalksOverRows DEF FitInv, WalkInv
<1>5. \A s \in DOMAIN route' : RowWalks(route'[s], lot, work)
  BY <1>1, RowWalksOverRows DEF WalkInv, RowsGrow
<1>6. /\ DOMAIN lot' = DOMAIN lot
      /\ \A l \in DOMAIN lot : lot'[l] = lot[l] \/ (old.kind = "rework" /\ l = k /\ lot'[l] = y)
  <2>1. CASE lot' = lot
    BY <2>1
  <2>2. CASE old.kind = "rework" /\ lot' = [lot EXCEPT ![k] = y]
    <3> HIDE DEF y
    <3>. QED  BY <2>2
  <2>. QED  BY <1>2, <2>1, <2>2
<1>7. k \in DOMAIN lot =>
        /\ y.rework = r /\ y.route = r /\ y.index = 1 /\ y.complete = FALSE /\ y.kind = x.kind /\ y.team = x.team
        /\ y.serial = x.serial /\ y.shared = x.shared /\ y.status = x.status
        /\ y.done = x.done /\ y.redone = x.redone
  <2>1. k \in DOMAIN lot => DOMAIN x = LotColumns
    BY LotFitsIs DEF FitInv, Settled, AllFit, Standing, LotColumns
  <2>. QED  BY <2>1 DEF LotColumns, NewLot
<1> HIDE DEF y
<1>8. ASSUME old.kind = "rework" PROVE LotWalks(route', y)
  <2>1. /\ k \in DOMAIN lot /\ x.status # "gone" /\ x.redone = <<>>
        /\ x.done = Way(route[back.route], back.index, back.complete, x)
    BY <1>8, StartOfRework
  <2>2. /\ y.rework = r /\ y.route = r /\ y.index = 1 /\ y.complete = FALSE /\ y.kind = x.kind /\ y.team = x.team
        /\ y.serial = x.serial /\ y.shared = x.shared /\ y.status = x.status
        /\ y.done = x.done /\ y.redone = x.redone
    BY <1>7, <2>1
  <2>3. r # 0
    BY <1>1, TableShape DEF FitInv, Settled
  <2>4. y.redone = Way(new, y.index, y.complete, y)
    <3>1. Len(new.steps) \in Nat /\ DOMAIN new.steps = 1 .. Len(new.steps) /\ Len(new.steps) > 0
      <4>1. IsTable(new.steps)
        BY <1>1 DEF RowStands
      <4>2. Len(new.steps) > 0
        BY <1>1 DEF ValidSteps
      <4>. QED  BY <4>1, <4>2, TableShape
    <3>2. Way(new, 1, FALSE, y) = <<>>
      BY <3>1, PastAtFirst
    <3>. QED  BY <2>1, <2>2, <3>2
  <2>5. y.done = Way(route'[back.route], back.index, back.complete, y)
    <3>1. back.route \in DOMAIN route /\ route[back.route].state = "published"
      BY <1>1, <1>8 DEF RowStands, ReturnFits
    <3>2. /\ route'[back.route].kind = route[back.route].kind
          /\ route'[back.route].serials = route[back.route].serials
          /\ route'[back.route].steps = route[back.route].steps
      BY <1>1, <3>1 DEF RowsGrow
    <3>3. Way(route'[back.route], back.index, back.complete, y) = Way(route[back.route], back.index, back.complete, x)
      BY <2>2, <3>2, WaySame, SMTT(30)
    <3>. QED  BY <2>1, <2>2, <3>3
  <2>6. y.done = Way(route'[new.resume.route], new.resume.index, new.resume.complete, y)
    BY <1>1, <2>5
  <2>7. Walked(route', y)
    <3>1. new.kind = "rework" /\ y.status # "gone" /\ route'[y.route] = new
      BY <1>1, <1>8, <2>1, <2>2
    <3> HIDE DEF new
    <3>. QED  BY <2>4, <2>6, <3>1 DEF Walked
  <2>8. y.kind = "receipt" /\ y.team = Warehouse => y.done = <<>> /\ y.redone = <<>>
    BY <2>1, <2>2 DEF WalkInv, LotWalks
  <2>. QED  BY <1>1, <2>1, <2>2, <2>3, <2>7, <2>8 DEF LotWalks
<1>9. \A l \in DOMAIN lot' : LotWalks(route', lot'[l])
  BY <1>4, <1>6, <1>8
<1>10. \A s \in DOMAIN route' : RowWalks(route'[s], lot', work)
  <2>1. \A l \in DOMAIN lot : lot'[l].redone = lot[l].redone
    BY <1>6, <1>7
  <2>2. \A s \in DOMAIN route' : route'[s].kind = "rework" => route'[s].source \in DOMAIN lot
    BY <1>1, SourcesAreThere DEF FitInv, RowsGrow
  <2>. QED  BY <1>5, <2>1, <2>2 DEF RowWalks
<1>. QED  BY <1>2, <1>9, <1>10 DEF WalkInv

LEMMA WalkOfPublication ==
  ASSUME ReviewInv, FitInv, WalkInv, Publications, ~Overtakes
  PROVE  WalkInv'
<1>1. PICK e \in publishing : FinishPublish(e) \/ RefusePublish(e)
  BY DEF Publications
<1>2. CASE RefusePublish(e)
  BY <1>2, WalkOfStill DEF RefusePublish, tables
<1>. QED  BY <1>1, <1>2, WalkOfPublished

LEMMA WalkOfStep ==
  ASSUME RoutesInv, WalkInv, [Next]_vars, [~Misallocates /\ ~Misdirects /\ ~Overtakes]_vars
  PROVE  WalkInv'
<1>. USE DEF RoutesInv
<1>1. CASE UNCHANGED vars
  BY <1>1, WalkOfStill DEF vars, tables
<1>2. SUFFICES ASSUME Next, ~Misallocates, ~Overtakes
               PROVE  WalkInv'
  BY <1>1
<1>3. CASE EditRoutes
  BY <1>3, WalkOfEdit
<1>4. CASE Publications
  BY <1>2, <1>4, WalkOfPublication
<1>5. CASE MoveMaterial
  BY <1>5, WalkOfMaterial
<1>6. CASE WorkOnMaterial
  BY <1>2, <1>6, WalkOfWork
<1>. QED  BY <1>2, <1>3, <1>4, <1>5, <1>6 DEF Next

LEMMA WalkAtFirst ==
  ASSUME Init
  PROVE  WalkInv
<1>1. PICK c \in Cases : route = c.route /\ lot = c.lot /\ work = c.work
  BY DEF Init
<1>. QED  BY <1>1, CasesAssumption DEF CasesAssumption, WalkInv

LEMMA WalksFollow ==
  ASSUME WalkInv
  PROVE  WorkFollowsThePath
BY DEF WalkInv, LotWalks, WorkFollowsThePath

\* A cursor tells the truth about its pieces, for any routes, lots and people:
\* what was done to a lot is what its serial's path asks for up to its cursor,
\* step for step and nothing twice, through cuts, partial work, shared batches
\* and transfers; a rework's own steps are counted apart while the normal work
\* waits where it is to resume; and material leaves the factory only at the end
\* of its path. It holds of every behaviour up to its first step of three that
\* break it in the code: a piece is cut to its serial's own route out of a shared
\* lot's rework, a shared lot's rework begins with a branch, and a corrected
\* rework is published after work was registered on its lot.
\* (finish_processing, processing_step, dispatch_fields, resume_fields, activate)
THEOREM WorkAlwaysFollowsThePath ==
  Spec /\ [][~Misallocates /\ ~Misdirects /\ ~Overtakes]_vars => []WorkFollowsThePath
<1>1. Init => WalkInv
  BY WalkAtFirst
<1>2. RoutesInv /\ WalkInv /\ [Next]_vars /\ [~Misallocates /\ ~Misdirects /\ ~Overtakes]_vars => WalkInv'
  BY WalkOfStep
<1>3. [~Misallocates /\ ~Misdirects /\ ~Overtakes]_vars => [~Misallocates /\ ~Misdirects]_vars
  OBVIOUS
<1>4. WalkInv => WorkFollowsThePath
  BY WalksFollow
<1>. QED  BY <1>1, <1>2, <1>3, <1>4, RoutesAlwaysKept, PTL DEF Spec
=============================================================================
