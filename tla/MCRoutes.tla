------------------------------ MODULE MCRoutes ------------------------------
(***************************************************************************)
(* Small factories: a warehouse W, a cutting team C, a team T. Each case is *)
(* a starting point and a budget; the cases' numbers of states add up.      *)
(***************************************************************************)
EXTENDS RouteWork

CONSTANTS W, C, T, O, None, t1, t2, s1, s2, s3, p1, p2, d1, d2

McKeyOf == [s \in {s1, s2, s3} |-> IF s = s3 THEN s1 ELSE s]

At(team, task) == [team |-> team, task |-> task, members |-> {}, split |-> FALSE]
For(step, members) == [step EXCEPT !.members = members]
Cut(step) == [step EXCEPT !.split = TRUE]

NoBudget == [create |-> 0, open |-> 0, save |-> 0, file |-> 0, publish |-> 0, revise |-> 0,
             receive |-> 0, plan |-> 0, bind |-> 0, dispatch |-> 0, share |-> 0, settle |-> 0,
             work |-> 0, inplace |-> 0, rework |-> 0, resume |-> 0,
             pieces |-> 1, contents |-> {}, shares |-> {}]

Of(serials, steps) == [serials |-> serials, steps |-> steps]

\* A published route with its documents.
Filed(serials, steps) ==
    [NewRow("normal", 0, serials, steps) EXCEPT
       !.state = "published", !.version = 2, !.word = 1, !.drawings = {d1},
       !.author = TRUE, !.reviser = TRUE]
Draft(serials, steps) == [Filed(serials, steps) EXCEPT !.state = "draft"]
RevisionOf(r, row) == [row EXCEPT !.state = "draft", !.parent = r, !.version = 1]

Blank == [route |-> 0, version |-> 0, content |-> <<>>]
Line == <<At(W, None), At(C, t1), At(T, t1), At(T, t2)>>
Short == <<At(W, None), At(T, t1)>>

Case(routes, screens, lots, works, plans, budget) ==
    [route |-> routes, lot |-> lots, work |-> works, planned |-> plans,
     screen |-> [p \in {p1, p2} |-> screens[p]], left |-> budget @@ NoBudget]
Nobody == [p \in {p1, p2} |-> Blank]
Both(r, row) == [p \in {p1, p2} |-> Shown(r, row)]

\* A lot of the cutting team on the line, worked on; its work is the first.
Cutting == [NewLot(s1, 1, 2) EXCEPT !.kind = "transfer", !.from = W, !.team = C, !.index = 2,
                                    !.complete = FALSE]
Worked == [Cutting EXCEPT !.complete = TRUE, !.done = <<<<C, t1>>>>]
WorkOf(l, q) == [lot |-> l, team |-> C, kind |-> "normal", route |-> 1, index |-> 2,
                 outputs |-> {}, completed |-> q]

Short2 == <<At(W, None), At(C, t1), At(T, t2)>>
Branched == <<At(W, None), Cut(At(C, t1)), For(At(T, t1), {s1, s2}), For(At(T, t2), {s2})>>

\* A rework asked for and not yet published.
Requested(steps) ==
    [NewRow("rework", 0, <<s1>>, steps) EXCEPT
       !.source = 2, !.of = 1, !.author = TRUE, !.round = 1,
       !.resume = [route |-> 1, index |-> 2, complete |-> TRUE, team |-> C]]
Reworked == [Worked EXCEPT !.kind = "split", !.source = 1, !.from = C, !.rework = 2, !.waiting = TRUE]

\* A lot for two serials, worked on before it is cut, a rework of which is asked for.
Common(serial, tail) ==
    Filed(<<serial>>, <<At(W, None), At(T, t1), Cut(At(C, t1))>> \o tail)
Mixed == [NewLot(SharedSerial, 1, 2) EXCEPT
            !.kind = "transfer", !.from = W, !.team = T, !.index = 2, !.done = <<<<T, t1>>>>, !.shared = TRUE,
            !.group = [members |-> [s \in {s1, s2} |-> IF s = s1 THEN 1 ELSE 2], split |-> 3]]
MixedReworked == [Mixed EXCEPT !.kind = "split", !.source = 1, !.from = T, !.rework = 3, !.waiting = TRUE]
MixedRequest == [Requested(<<At(T, t1)>>) EXCEPT !.resume.team = T]
MixedWork == [WorkOf(1, 2) EXCEPT !.team = T]

\* Two people have each prepared a revision of the same route.
McTwoRevisions ==
    { Case(<<Filed(<<s1>>, Short), RevisionOf(1, Filed(<<s1>>, Short)), RevisionOf(1, Filed(<<s1>>, Line))>>,
           [p \in {p1, p2} |-> IF p = p1 THEN Shown(2, RevisionOf(1, Filed(<<s1>>, Short)))
                               ELSE Shown(3, RevisionOf(1, Filed(<<s1>>, Line)))],
           <<>>, <<>>, {}, [publish |-> 2, save |-> 1, contents |-> {Of(<<s1>>, Short)}]) }

McCases ==
    { \* two people edit the same draft and publish it
      Case(<<Draft(<<s1>>, Short)>>, Both(1, Draft(<<s1>>, Short)), <<>>, <<>>, {},
           [save |-> 1, file |-> 2, open |-> 1, publish |-> 2,
            contents |-> {Of(<<s1>>, Short), Of(<<s1>>, Line)}]),
      \* new families, one serial in two spellings
      Case(<<Filed(<<s1>>, Short)>>, Nobody, <<>>, <<>>, {},
           [create |-> 2, save |-> 1, publish |-> 1,
            contents |-> {Of(<<s2>>, Short), Of(<<s3>>, Short)}]),
      \* a route is revised while material is received, bound and sent
      Case(<<Filed(<<s1>>, Short)>>, Nobody, <<>>, <<>>, {},
           [revise |-> 1, publish |-> 1, receive |-> 1, bind |-> 1, dispatch |-> 2, settle |-> 2,
            work |-> 1, plan |-> 1, pieces |-> 2]),
      \* the whole line, cut, with waste and in place
      Case(<<Filed(<<s1>>, Line)>>, Nobody, <<Cutting>>, <<>>, {},
           [dispatch |-> 3, settle |-> 2, work |-> 4, inplace |-> 1]),
      \* part of a lot is reworked, under a route that is corrected before it starts
      Case(<<Filed(<<s1>>, Line)>>, Nobody, <<Worked>>, <<WorkOf(1, 2)>>, {},
           [rework |-> 1, open |-> 1, save |-> 1, publish |-> 2, revise |-> 1, dispatch |-> 1, settle |-> 1,
            work |-> 2, resume |-> 1, contents |-> {Of(<<s1>>, <<At(T, t1)>>)}]),
      \* a rework of two teams, from the end of the line
      Case(<<Filed(<<s1>>, Line), Requested(<<At(T, t1), At(C, t1)>>)>>, Both(2, Requested(<<At(T, t1), At(C, t1)>>)),
           <<Worked, Reworked>>, <<WorkOf(1, 2)>>, {},
           [publish |-> 1, dispatch |-> 4, settle |-> 4, work |-> 3, resume |-> 1]),
      \* one piece of stock for two serials on two routes
      Case(<<Filed(<<s1>>, Line), Filed(<<s2>>, Short2)>>, Nobody, <<NewLot(None, 0, 2)>>, <<>>, {},
           [share |-> 1, dispatch |-> 2, settle |-> 2, work |-> 3,
            shares |-> {[s \in {s1, s2} |-> IF s = s1 THEN 1 ELSE 2]}]),
      \* one route with branches for two serials, and a third that is planned on it
      Case(<<Filed(<<s1, s2>>, Branched)>>, Nobody, <<NewLot(None, 0, 2)>>, <<>>, {},
           [share |-> 1, dispatch |-> 2, settle |-> 2, work |-> 2, plan |-> 1,
            shares |-> {[s \in {s1, s2} |-> 1]}]),
      \* a corrected rework, where a team may finish a lot as it stands
      Case(<<Filed(<<s1>>, Line), Requested(<<At(T, t1), At(C, t2), At(T, t2)>>)>>,
           Both(2, Requested(<<At(T, t1), At(C, t2), At(T, t2)>>)), <<Worked, Reworked>>, <<WorkOf(1, 2)>>, {},
           [publish |-> 2, revise |-> 1, dispatch |-> 3, settle |-> 3, work |-> 2, inplace |-> 1,
            resume |-> 1]),
      \* shared material is reworked, goes on and is cut
      Case(<<Common(s1, <<At(T, t2)>>), Common(s2, <<>>), MixedRequest>>, Both(3, MixedRequest),
           <<Mixed, MixedReworked>>, <<MixedWork>>, {},
           [publish |-> 2, revise |-> 1, dispatch |-> 2, settle |-> 2, work |-> 2, resume |-> 1]) }
=============================================================================
