----------------------------- MODULE MCSchedules -----------------------------
(***************************************************************************)
(* Schedules on a route of three teams. Each case is a starting point and a *)
(* budget: the numbers of states of the cases add up, they do not multiply. *)
(***************************************************************************)
EXTENDS Schedules, TLC

CONSTANTS W, A, Q, O

McRoute == <<W, A, Q>>

\* One batch of one or two pieces, or two batches of one piece each.
McForms == {<<[due |-> due, q |-> q]>> : due \in {2, 4}, q \in {1, 2}}
             \union {<<[due |-> 2, q |-> 1], [due |-> 4, q |-> 1]>>}

NoBudget == [create |-> 0, order |-> 0, node |-> 0, batch |-> 0, move |-> 0, poll |-> 0, tick |-> 0]

McTask(final) == [version |-> 1, final |-> final, customer |-> <<>>, locked |-> FALSE, deleted |-> FALSE]

\* An order of two pieces; its nodes are 1 (W), 2 (A) and 3 (Q).
McOrder(t, due) == NewNodes(3 * (t - 1), t, due, 2)

\* An order of before the routes: one node, with an assigned source.
OldNode ==
    [task |-> 1, step |-> None, team |-> A, next |-> Q, pred |-> None, due |-> 2,
     initial |-> 2, q |-> 1, state |-> "confirmed", pending |-> <<>>, version |-> 1,
     cancelled |-> FALSE, sources |-> {1}]

Dated(p, due, q, up) == [plan |-> p, due |-> due, q |-> q, up |-> up, deleted |-> FALSE]
Confirmed(nodes, set) == [p \in DOMAIN nodes |->
    IF p \in set THEN [nodes[p] EXCEPT !.state = "confirmed"] ELSE nodes[p]]

Asked(nodes, p, entries) ==
    [nodes EXCEPT ![p].state = "submitted", ![p].pending = entries, ![p].version = 2]

Raw(team, step, routed, q) ==
    [src |-> None, from |-> None, team |-> team, kind |-> "receipt", q |-> q, hand |-> q,
     status |-> "received", routed |-> routed, step |-> step, done |-> team = W,
     sent |-> "none", sentStep |-> None, bound |-> None, at |-> 1]

Case(tasks, nodes, batches, lots, budget) ==
    [task |-> tasks, plan |-> nodes, batch |-> batches, lot |-> lots, left |-> budget @@ NoBudget]

McCases ==
    { \* orders are opened, changed, locked and deleted, their nodes edited
      Case(<<>>, <<>>, <<>>, <<>>, [create |-> 2, order |-> 2, node |-> 1]),
      \* batches are proposed, reviewed and replaced while the order changes
      Case(<<McTask(4)>>, Confirmed([McOrder(1, 2) EXCEPT ![1].cancelled = TRUE], {2}),
           <<Dated(2, 2, 2, {})>>, <<>>, [batch |-> 3]),
      \* a request waits for its review while its order changes
      Case(<<McTask(4)>>, Asked([McOrder(1, 2) EXCEPT ![1].cancelled = TRUE], 2, <<Entry(None, 2, 2, {})>>),
           <<>>, <<>>, [order |-> 1, batch |-> 2]),
      \* the teams poll while the clock runs
      Case(<<McTask(4)>>, Confirmed(McOrder(1, 2), {2}), <<Dated(2, 2, 2, {})>>, <<>>,
           [batch |-> 1, poll |-> 2, tick |-> 4]),
      \* a team's batches are delivered, in time and late
      Case(<<McTask(4)>>, Confirmed([McOrder(1, 4) EXCEPT ![3].due = 2], {2, 3}),
           <<Dated(2, 2, 1, {}), Dated(2, 4, 1, {}), Dated(3, 2, 2, {1})>>,
           <<Raw(A, 2, TRUE, 2)>>,
           [move |-> 4, tick |-> 4, poll |-> 1]),
      \* no route: a source and a predecessor tie the material to the node
      Case(<<McTask(2)>>, <<OldNode>>, <<>>, <<Raw(A, None, FALSE, 2), Raw(A, 2, TRUE, 1)>>,
           [order |-> 1, node |-> 1, move |-> 3, tick |-> 2]),
      \* two orders of one serial: the form names the node
      Case(<<McTask(4), McTask(4)>>, McOrder(1, 2) \o McOrder(2, 4), <<>>,
           <<Raw(W, 1, TRUE, 2)>>, [move |-> 4, order |-> 1]) }
=============================================================================
