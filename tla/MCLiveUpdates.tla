---------------------------- MODULE MCLiveUpdates ----------------------------
(* LiveUpdates for TLC: two workers, two overviews and a ledger, one account. *)
EXTENDS LiveUpdates, TLC

Of(u) == [s \in {"c1", "c2", "c3", "s0"} |-> u]
MCAccountOf == Of("u1")
MCTeamOf == [u \in {"u1"} |-> "t1"]
MCView == [c \in {"c1", "c2", "c3"} |-> IF c = "c2" THEN "inventory-changed" ELSE "inventory"]
MCNumber == [s \in {"c1", "c2", "c3", "s0"} |->
              CASE s = "s0" -> 1 [] s = "c1" -> 2 [] s = "c2" -> 3 [] s = "c3" -> 4]

RowOf(kind, old, new, fresh, loaded) ==
  [kind |-> kind, old |-> old, new |-> new, fresh |-> fresh, loaded |-> loaded, token |-> {}]
\* A document that moves away from a team that was not loaded; a team's processing task.
MoveAndTask == {RowOf("document", {"t1"}, {"t2"}, FALSE, FALSE),
                RowOf("setting", {"t2"}, {"t2"}, TRUE, TRUE)}
\* A slot's heartbeat, an urgency, an answer to an inspection, a document without a team.
Others == {RowOf("lease", {}, {"t2"}, FALSE, TRUE), RowOf("origin", {}, {}, TRUE, TRUE),
           RowOf("feedback", {}, {"t1"}, TRUE, TRUE), RowOf("document", {}, {}, TRUE, TRUE)}
MCRows == MoveAndTask \cup Others

Upto(logins, business, account, faults, days, in, workers) ==
  [login |-> logins, business |-> business, account |-> account, fault |-> faults,
   day |-> days, in |-> in, workers |-> workers, rows |-> MoveAndTask]
Both == {"c1", "c2"}
One == {"w1"}
Two == {"w1", "w2"}
MCPlans ==
  {[Upto(0, 1, 0, 0, 0, Both, One) EXCEPT !.rows = Others],
   Upto(0, 1, 0, 0, 1, Both, One),          \* a change and a midnight
   Upto(0, 2, 0, 0, 0, Both, One),          \* two changes
   Upto(0, 1, 0, 0, 0, Both, Two),          \* a change and two processes
   Upto(0, 1, 0, 0, 0, {"c1", "c3"}, One),  \* a shared snapshot
   Upto(0, 1, 0, 1, 0, Both, One),          \* a change and a fault
   Upto(0, 1, 0, 1, 0, {"c2"}, Two),        \* a fault, another process takes over
   Upto(0, 1, 0, 2, 0, {"c2"}, One),        \* a fault during the recovery from one
   Upto(0, 0, 2, 0, 0, {"c1"}, One),        \* two account changes
   Upto(1, 0, 0, 0, 0, Both, One),          \* a login that ends an older session
   Upto(2, 0, 0, 0, 0, {}, One),            \* two logins at once
   Upto(1, 0, 1, 0, 0, {}, One)}            \* a login and an account change
=============================================================================
