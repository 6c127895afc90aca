--------------------------- MODULE SchedulesProofs ---------------------------
(***************************************************************************)
(* Proofs about Schedules, for any route, any orders, forms and material:  *)
(* its types, that the plans hang together, that an approval applies what   *)
(* its reviewer saw, and that everyone is told. They rest on what a request *)
(* that waits, the review of it and the notices say of each other's         *)
(* revisions, and on the sums of a request's rows.                          *)
(***************************************************************************)
EXTENDS Schedules, LedgerTotalsProofs

-----------------------------------------------------------------------------
(* The inductive invariant.                                                 *)

\* A review read a request that waited; while the node keeps its revision, the
\* same request waits.
ReviewIsOfItsRevision ==
    /\ review = NoReview \/ review \in [plan : Nat \ {0}, version : Nat, entries : Seq(EntryType)]
    /\ review # NoReview =>
         /\ review.plan \in Plans /\ review.entries # <<>>
         /\ plan[review.plan].version >= review.version
         /\ plan[review.plan].version = review.version => plan[review.plan].pending = review.entries

\* The notices of a node are of revisions it has had.
NoticesAreOfThePast ==
    \A key \in notices : key[1] = "plan" => key[2] \in Plans /\ key[3] \in 1..plan[key[2]].version

IInv ==
    /\ TypeOK
    /\ left \in [Kinds -> Nat]
    /\ PlansHangTogether
    /\ LotsAgree(lot)
    /\ ReviewIsOfItsRevision
    /\ NoticesAreOfThePast

-----------------------------------------------------------------------------
(* Tables as sequences.                                                     *)

LEMMA RowChanged ==
  ASSUME NEW T, NEW s \in Seq(T), NEW i \in DOMAIN s, NEW e \in T
  PROVE  /\ [s EXCEPT ![i] = e] \in Seq(T)
         /\ Len([s EXCEPT ![i] = e]) = Len(s)
         /\ DOMAIN [s EXCEPT ![i] = e] = DOMAIN s
         /\ \A j \in DOMAIN s : [s EXCEPT ![i] = e][j] = IF j = i THEN e ELSE s[j]
OBVIOUS

LEMMA RowsMapped ==
  ASSUME NEW T, NEW n \in Nat, NEW f \in [1 .. n -> T]
  PROVE  f \in Seq(T) /\ Len(f) = n /\ DOMAIN f = 1 .. n
OBVIOUS

LEMMA RowsAdded ==
  ASSUME NEW T, NEW s \in Seq(T), NEW t \in Seq(T)
  PROVE  /\ s \o t \in Seq(T)
         /\ Len(s \o t) = Len(s) + Len(t)
         /\ DOMAIN (s \o t) = 1 .. (Len(s) + Len(t))
         /\ \A i \in DOMAIN s : (s \o t)[i] = s[i]
         /\ \A i \in DOMAIN t : (s \o t)[Len(s) + i] = t[i]
OBVIOUS

LEMMA RowAdded ==
  ASSUME NEW T, NEW s \in Seq(T), NEW e \in T
  PROVE  /\ Append(s, e) \in Seq(T)
         /\ Len(Append(s, e)) = Len(s) + 1
         /\ DOMAIN Append(s, e) = 1 .. (Len(s) + 1)
         /\ \A i \in DOMAIN s : Append(s, e)[i] = s[i]
         /\ Append(s, e)[Len(s) + 1] = e
OBVIOUS

LEMMA Rows ==
  ASSUME NEW T, NEW s \in Seq(T)
  PROVE  /\ Len(s) \in Nat /\ DOMAIN s = 1 .. Len(s) /\ s \in [1 .. Len(s) -> T]
         /\ \A i \in DOMAIN s : s[i] \in T /\ i \in Nat \ {0}
OBVIOUS

LEMMA GreatestExists ==
  ASSUME NEW n \in Nat \ {0}, NEW f \in [1 .. n -> Nat]
  PROVE  /\ Max({f[i] : i \in 1 .. n}) \in Nat
         /\ \A i \in 1 .. n : f[i] <= Max({f[j] : j \in 1 .. n})
         /\ \E i \in 1 .. n : \A j \in 1 .. n : f[j] <= f[i]
<1> DEFINE S == {k \in Nat : k <= n => (k > 0 => \E i \in 1 .. k : \A j \in 1 .. k : f[j] <= f[i])}
<1>1. 0 \in S
  OBVIOUS
<1>2. ASSUME NEW k \in Nat, k \in S PROVE k + 1 \in S
  <2> SUFFICES ASSUME k + 1 <= n
               PROVE  \E i \in 1 .. (k + 1) : \A j \in 1 .. (k + 1) : f[j] <= f[i]
    OBVIOUS
  <2>1. CASE k = 0
    <3>1. f[1] <= f[1]
      OBVIOUS
    <3>. QED  BY <2>1, <3>1
  <2>2. CASE k > 0
    <3>1. PICK i \in 1 .. k : \A j \in 1 .. k : f[j] <= f[i]
      BY <1>2, <2>2
    <3>2. f[i] \in Nat /\ f[k + 1] \in Nat /\ \A j \in 1 .. k : f[j] \in Nat
      OBVIOUS
    <3>3. CASE f[i] <= f[k + 1]
      <4>1. \A j \in 1 .. (k + 1) : f[j] <= f[k + 1]
        BY <3>1, <3>2, <3>3
      <4>. QED  BY <4>1
    <3>4. CASE f[k + 1] <= f[i]
      <4>1. \A j \in 1 .. (k + 1) : f[j] <= f[i]
        BY <3>1, <3>2, <3>4
      <4>. QED  BY <4>1
    <3>. QED  BY <3>2, <3>3, <3>4
  <2>. QED  BY <2>1, <2>2
<1>3. S = Nat
  <2>1. S \in SUBSET Nat
    OBVIOUS
  <2> HIDE DEF S
  <2>. QED  BY <1>1, <1>2, <2>1, SetInduction
<1>4. \E i \in 1 .. n : \A j \in 1 .. n : f[j] <= f[i]
  <2>1. n \in S
    BY <1>3
  <2>. QED  BY <2>1
<1>5. PICK i \in 1 .. n : \A j \in 1 .. n : f[j] <= f[i]
  BY <1>4
<1> DEFINE V == {f[j] : j \in 1 .. n}
<1>6. f[i] \in V /\ \A x \in V : x \in Nat /\ f[i] >= x
  BY <1>5
<1>7. \A j \in 1 .. n : f[j] \in V
  OBVIOUS
<1> HIDE DEF V
<1>8. Max(V) \in V /\ \A x \in V : Max(V) >= x
  <2>1. Max(V) = CHOOSE x \in V : \A y \in V : x >= y
    BY DEF Max
  <2>2. \E x \in V : \A y \in V : x >= y
    BY <1>6
  <2>. QED  BY <2>1, <2>2
<1>9. Max(V) \in Nat /\ \A j \in 1 .. n : f[j] <= Max(V)
  <2>1. \A j \in 1 .. n : f[j] \in Nat
    OBVIOUS
  <2>. QED  BY <1>6, <1>7, <1>8, <2>1
<1>. QED
  BY <1>4, <1>9 DEF V
-----------------------------------------------------------------------------
(* Writes of orders and nodes that leave the batches and the material alone. *)

PlanWrite ==
    /\ task' \in Seq(TaskType) /\ Len(task') = Len(task) /\ DatesAgree(task')
    /\ plan' \in Seq(PlanType) /\ Len(plan') = Len(plan)
    /\ \A p \in Plans :
         /\ plan'[p].task = plan[p].task /\ plan'[p].pred = plan[p].pred
         /\ plan'[p].version >= plan[p].version
         /\ plan'[p].pending # plan[p].pending => plan'[p].version > plan[p].version
         /\ Batches(p) # {} => /\ plan'[p].due = plan[p].due /\ plan'[p].q = plan[p].q
                               /\ plan'[p].state \in {"confirmed", "revision_pending"}
         /\ ~plan'[p].cancelled => Waits(plan'[p])
    /\ left' \in [Kinds -> Nat]
    /\ \A key \in notices' \ notices :
         key[1] = "plan" => key[2] \in Plans /\ key[3] \in 1..plan'[key[2]].version
    /\ UNCHANGED <<now, batch, material, review>>

LEMMA RowTypes ==
  ASSUME TypeOK
  PROVE  /\ Len(task) \in Nat /\ Tasks = 1..Len(task)
         /\ Len(plan) \in Nat /\ Plans = 1..Len(plan)
         /\ Len(batch) \in Nat /\ DOMAIN batch = 1..Len(batch)
         /\ Len(lot) \in Nat /\ Lots = 1..Len(lot)
         /\ \A t \in Tasks : task[t] \in TaskType
         /\ \A p \in Plans : plan[p] \in PlanType
         /\ \A b \in DOMAIN batch : batch[b] \in BatchType
         /\ \A l \in Lots : lot[l] \in LotType
BY DEF TypeOK, Tasks, Plans, Lots

LEMMA BatchesAreInForce == \A p : Batches(p) = InForce(batch, p)
BY DEF Batches, InForce

LEMMA PlanWriteKeeps ==
  ASSUME IInv, PlanWrite
  PROVE  IInv'
<1> USE DEF Plans, Lots, Tasks
<1>1. /\ DOMAIN plan' = DOMAIN plan /\ DOMAIN task' = DOMAIN task
      /\ \A p : Batches(p)' = Batches(p)
      /\ UNCHANGED <<now, batch, lot, delivery, review>>
  BY DEF PlanWrite, IInv, TypeOK, Batches, material
<1>0. ASSUME NEW p \in Plans
      PROVE  plan'[p].version \in Nat /\ plan[p].version \in Nat
  <2>1. plan'[p] \in PlanType /\ plan[p] \in PlanType
    BY <1>1 DEF PlanWrite, IInv, TypeOK
  <2>. QED  BY <2>1 DEF PlanType
<1>2. TypeOK'
  <2>1. KeysExist(task', plan', batch', lot')
    BY <1>1 DEF PlanWrite, IInv, TypeOK, KeysExist
  <2>2. \A d \in DOMAIN delivery :
          /\ d \in DOMAIN lot /\ delivery[d].plan \in DOMAIN plan
          /\ delivery[d].batch # None => delivery[d].batch \in Batches(delivery[d].plan)
    BY DEF IInv, TypeOK
  <2>. QED  BY <1>1, <2>1, <2>2 DEF PlanWrite, IInv, TypeOK, Batches
<1>3. PlansHangTogether'
  <2>1. PlansAgree(plan', batch')
    <3> SUFFICES ASSUME NEW p \in DOMAIN plan
                 PROVE  PlanAgrees(plan'[p], batch, p)
      BY <1>1 DEF PlansAgree
    <3>1. PlanAgrees(plan[p], batch, p)
      BY DEF IInv, PlansHangTogether, PlansAgree
    <3>2. /\ plan'[p].pred = plan[p].pred
          /\ InForce(batch, p) # {} => /\ plan'[p].due = plan[p].due /\ plan'[p].q = plan[p].q
                                       /\ plan'[p].state \in {"confirmed", "revision_pending"}
          /\ ~plan'[p].cancelled => Waits(plan'[p])
      BY BatchesAreInForce DEF PlanWrite
    <3>. QED  BY <3>1, <3>2 DEF PlanAgrees
  <2>2. DatesAgree(task')
    BY DEF PlanWrite
  <2>. QED  BY <2>1, <2>2 DEF PlansHangTogether
<1>4. LotsAgree(lot')
  BY <1>1 DEF IInv
<1>5. ReviewIsOfItsRevision'
  <2>1. CASE review = NoReview
    BY <1>1, <2>1 DEF ReviewIsOfItsRevision
  <2>2. CASE review # NoReview
    <3>1. /\ review.plan \in Plans /\ review.entries # <<>>
          /\ review \in [plan : Nat \ {0}, version : Nat, entries : Seq(EntryType)]
          /\ plan[review.plan].version >= review.version
          /\ plan[review.plan].version = review.version => plan[review.plan].pending = review.entries
      BY <2>2 DEF IInv, ReviewIsOfItsRevision
    <3> DEFINE p == review.plan
    <3>2. /\ plan'[p].version >= plan[p].version
          /\ plan'[p].pending # plan[p].pending => plan'[p].version > plan[p].version
      BY <3>1 DEF PlanWrite
    <3>3. plan'[p].version \in Nat /\ plan[p].version \in Nat /\ review.version \in Nat
      BY <3>1, <1>0
    <3>4. /\ plan'[p].version >= review.version
          /\ plan'[p].version = review.version => plan'[p].pending = review.entries
      BY <3>1, <3>2, <3>3
    <3>. QED  BY <1>1, <2>2, <3>1, <3>4 DEF ReviewIsOfItsRevision
  <2>. QED  BY <2>1, <2>2
<1>6. NoticesAreOfThePast'
  <2> SUFFICES ASSUME NEW key \in notices', key[1] = "plan"
               PROVE  key[2] \in DOMAIN plan /\ key[3] \in 1..plan'[key[2]].version
    BY <1>1 DEF NoticesAreOfThePast
  <2>1. CASE key \notin notices
    BY <2>1 DEF PlanWrite
  <2>2. CASE key \in notices
    <3>1. key[2] \in Plans /\ key[3] \in 1..plan[key[2]].version
      BY <2>2 DEF IInv, NoticesAreOfThePast
    <3>2. plan'[key[2]].version >= plan[key[2]].version
      BY <3>1 DEF PlanWrite
    <3>3. plan'[key[2]].version \in Nat /\ plan[key[2]].version \in Nat
      BY <3>1, <1>0
    <3>. QED  BY <3>1, <3>2, <3>3
  <2>. QED  BY <2>1, <2>2
<1>. QED
  BY <1>2, <1>3, <1>4, <1>5, <1>6 DEF IInv, PlanWrite
\* Rows with some of their columns changed.
LEMMA TaskCounted ==
  ASSUME NEW r \in TaskType
  PROVE  /\ [r EXCEPT !.version = @ + 1] \in TaskType
         /\ [r EXCEPT !.version = @ + 1].customer = r.customer
         /\ [r EXCEPT !.version = @ + 1].final = r.final
BY DEF TaskType

\* The rows of an order and of a node as the writes leave them.
Edited(r, due, q, S) == [r EXCEPT !.due = due, !.q = q, !.sources = S, !.version = @ + 1]
Ended(r) == [r EXCEPT !.cancelled = TRUE, !.version = @ + 1]
Marked(r, locked, deleted) == [r EXCEPT !.locked = locked, !.deleted = deleted, !.version = @ + 1]
Redated(r, final, dates) == [r EXCEPT !.final = final, !.customer = dates, !.version = @ + 1]
Bump(r) == [r EXCEPT !.version = @ + 1]
Moved(r, step) == [r EXCEPT !.step = step]
Closed(r) == [r EXCEPT !.cancelled = TRUE, !.pending = <<>>, !.version = @ + 1]
Saved(r, q, due, initial) ==
    [r EXCEPT !.q = q, !.due = due, !.initial = initial,
              !.state = "confirmed", !.pending = <<>>, !.version = @ + 1]
States == {"pending", "submitted", "confirmed", "revision_pending"}
Asked(r, entries, state) == [r EXCEPT !.pending = entries, !.state = state, !.version = @ + 1]

LEMMA PlanEdited ==
  ASSUME NEW r \in PlanType, NEW due \in Nat, NEW q \in Nat \ {0}, NEW S \in SUBSET Nat
  PROVE  LET row == Edited(r, due, q, S) IN
         /\ row \in PlanType
         /\ row.task = r.task /\ row.pred = r.pred
         /\ row.version = r.version + 1 /\ row.due = due /\ row.q = q /\ row.state = r.state
         /\ row.pending = r.pending /\ row.cancelled = r.cancelled
<1> DEFINE v == r.version + 1
           new == [r EXCEPT !.due = due, !.q = q, !.sources = S, !.version = v]
<1>1. v \in Nat \ {0} /\ new = Edited(r, due, q, S)
  BY DEF PlanType, Edited
<1> HIDE DEF v
<1>2. new \in PlanType
  BY <1>1 DEF PlanType
<1>3. LET row == new IN
         /\ row.task = r.task /\ row.pred = r.pred
         /\ row.version = v /\ row.due = due /\ row.q = q /\ row.state = r.state
         /\ row.pending = r.pending /\ row.cancelled = r.cancelled
  BY <1>1 DEF PlanType
<1> HIDE DEF new
<1>. QED
  BY <1>1, <1>2, <1>3 DEF v

LEMMA PlanCancelled ==
  ASSUME NEW r \in PlanType
  PROVE  LET row == Ended(r) IN
         /\ row \in PlanType
         /\ row.task = r.task /\ row.pred = r.pred
         /\ row.version = r.version + 1 /\ row.due = r.due /\ row.q = r.q
         /\ row.state = r.state /\ row.cancelled
<1> DEFINE v == r.version + 1
           new == [r EXCEPT !.cancelled = TRUE, !.version = v]
<1>1. v \in Nat \ {0} /\ new = Ended(r)
  BY DEF PlanType, Ended
<1> HIDE DEF v
<1>2. new \in PlanType
  BY <1>1 DEF PlanType
<1>3. LET row == new IN
         /\ row.task = r.task /\ row.pred = r.pred
         /\ row.version = v /\ row.due = r.due /\ row.q = r.q
         /\ row.state = r.state /\ row.cancelled
  BY <1>1 DEF PlanType
<1> HIDE DEF new
<1>. QED
  BY <1>1, <1>2, <1>3 DEF v

LEMMA PlanAsked ==
  ASSUME NEW r \in PlanType, NEW entries \in Seq(EntryType),
         NEW state \in States
  PROVE  LET row == Asked(r, entries, state) IN
         /\ row \in PlanType
         /\ row.task = r.task /\ row.pred = r.pred
         /\ row.version = r.version + 1 /\ row.due = r.due /\ row.q = r.q
         /\ row.state = state /\ row.pending = entries /\ row.cancelled = r.cancelled
<1> DEFINE v == r.version + 1
           new == [r EXCEPT !.pending = entries, !.state = state, !.version = v]
<1>1. v \in Nat \ {0} /\ new = Asked(r, entries, state)
  BY DEF PlanType, Asked
<1> HIDE DEF v
<1>2. new \in PlanType
  BY <1>1 DEF PlanType, States
<1>3. LET row == new IN
         /\ row.task = r.task /\ row.pred = r.pred
         /\ row.version = v /\ row.due = r.due /\ row.q = r.q
         /\ row.state = state /\ row.pending = entries /\ row.cancelled = r.cancelled
  BY <1>1 DEF PlanType, States
<1> HIDE DEF new
<1>. QED
  BY <1>1, <1>2, <1>3 DEF v

LEMMA SpendKeeps ==
  ASSUME left \in [Kinds -> Nat], NEW kind \in Kinds, Spend(kind)
  PROVE  left' \in [Kinds -> Nat]
BY DEF Spend

LEMMA BumpedType ==
  ASSUME IInv, NEW t \in Tasks
  PROVE  Bumped(t) \in Seq(TaskType) /\ Len(Bumped(t)) = Len(task) /\ DatesAgree(Bumped(t))
<1> DEFINE row == [task[t] EXCEPT !.version = @ + 1]
<1>1. task \in Seq(TaskType) /\ task[t] \in TaskType /\ t \in DOMAIN task
  BY RowTypes DEF IInv, TypeOK, Tasks
<1>2. /\ row \in TaskType
      /\ row.customer = task[t].customer /\ row.final = task[t].final
  BY <1>1, TaskCounted
<1>3. Bumped(t) = [task EXCEPT ![t] = row]
  BY <1>1 DEF Bumped
<1> HIDE DEF row
<1>4. /\ Bumped(t) \in Seq(TaskType) /\ Len(Bumped(t)) = Len(task)
      /\ DOMAIN Bumped(t) = DOMAIN task
      /\ \A u \in DOMAIN task : Bumped(t)[u] = IF u = t THEN row ELSE task[u]
  BY <1>1, <1>2, <1>3, RowChanged
<1>5. DatesAgree(Bumped(t))
  BY <1>2, <1>4 DEF IInv, PlansHangTogether, DatesAgree
<1>. QED
  BY <1>4, <1>5

LEMMA PlanKept ==
  ASSUME IInv, NEW p \in Plans
  PROVE  /\ Batches(p) # {} => plan[p].state \in {"confirmed", "revision_pending"}
         /\ ~plan[p].cancelled => Waits(plan[p])
         /\ plan[p].version \in Nat \ {0}
         /\ plan[p].task \in Tasks
<1>1. PlanAgrees(plan[p], batch, p)
  BY DEF IInv, PlansHangTogether, PlansAgree, Plans
<1>2. plan[p] \in PlanType /\ plan[p].task \in Tasks
  BY RowTypes DEF IInv, TypeOK, KeysExist, Tasks, Plans
<1>. QED
  BY <1>1, <1>2, BatchesAreInForce DEF PlanAgrees, PlanType

\* A node is written, and its revision counted.
LEMMA NodeWritten ==
  ASSUME IInv, NEW p \in Plans, NEW row \in PlanType,
         plan' = [plan EXCEPT ![p] = row],
         task' = Bumped(plan[p].task),
         row.task = plan[p].task, row.pred = plan[p].pred,
         row.version = plan[p].version + 1,
         Batches(p) # {} => /\ row.due = plan[p].due /\ row.q = plan[p].q
                            /\ row.state \in {"confirmed", "revision_pending"},
         ~row.cancelled => Waits(row),
         left' \in [Kinds -> Nat],
         \A key \in notices' \ notices :
           key[1] = "plan" => key[2] = p /\ key[3] = plan[p].version + 1,
         UNCHANGED <<now, batch, material, review>>
  PROVE  PlanWrite
<1>1. /\ plan \in Seq(PlanType) /\ p \in DOMAIN plan
      /\ plan[p].version \in Nat \ {0} /\ plan[p].task \in Tasks
  BY PlanKept DEF IInv, TypeOK, Plans
<1>2. /\ plan' \in Seq(PlanType) /\ Len(plan') = Len(plan)
      /\ \A s \in Plans : plan'[s] = IF s = p THEN row ELSE plan[s]
  BY <1>1, RowChanged DEF Plans
<1>3. task' \in Seq(TaskType) /\ Len(task') = Len(task) /\ DatesAgree(task')
  BY <1>1, BumpedType
<1>4. ASSUME NEW s \in Plans
      PROVE  /\ plan'[s].task = plan[s].task /\ plan'[s].pred = plan[s].pred
             /\ plan'[s].version >= plan[s].version
             /\ plan'[s].pending # plan[s].pending => plan'[s].version > plan[s].version
             /\ Batches(s) # {} => /\ plan'[s].due = plan[s].due /\ plan'[s].q = plan[s].q
                                   /\ plan'[s].state \in {"confirmed", "revision_pending"}
             /\ ~plan'[s].cancelled => Waits(plan'[s])
  BY <1>1, <1>2, PlanKept
<1>5. ASSUME NEW key \in notices' \ notices, key[1] = "plan"
      PROVE  key[2] \in Plans /\ key[3] \in 1..plan'[key[2]].version
  BY <1>1, <1>2, <1>5
<1>. QED
  BY <1>2, <1>3, <1>4, <1>5 DEF PlanWrite

LEMMA UpdatePlanWrites ==
  ASSUME IInv, NEW p \in Plans, NEW due \in Nat, NEW q \in Nat \ {0}, NEW S \in SUBSET Nat,
         UpdatePlan(p, due, q, S)
  PROVE  PlanWrite
<1> DEFINE row == Edited(plan[p], due, q, S)
<1>0. plan[p] \in PlanType
  BY RowTypes DEF IInv, TypeOK, Plans
<1>1. p \in DOMAIN plan /\ plan \in Seq(PlanType)
  BY DEF IInv, TypeOK, Plans
<1>2. /\ row \in PlanType /\ row.task = plan[p].task /\ row.pred = plan[p].pred
      /\ row.version = plan[p].version + 1 /\ row.due = due /\ row.q = q
      /\ row.state = plan[p].state /\ row.pending = plan[p].pending
      /\ row.cancelled = plan[p].cancelled
  BY <1>0, PlanEdited
<1>3. plan' = [plan EXCEPT ![p] = row]
  BY <1>1 DEF UpdatePlan, Edited
<1>4. Waits(row) = Waits(plan[p])
  BY <1>2 DEF Waits
<1> HIDE DEF row
<1>5. /\ task' = Bumped(plan[p].task)
      /\ Batches(p) # {} => row.due = plan[p].due /\ row.q = plan[p].q
      /\ UNCHANGED <<now, batch, material, review>>
  BY <1>2 DEF UpdatePlan
<1>6. left' \in [Kinds -> Nat]
  BY SpendKeeps DEF UpdatePlan, IInv, Kinds
<1>7. \A key \in notices' \ notices : key[2] = p /\ key[3] = plan[p].version + 1
  BY DEF UpdatePlan, Told, ToldOnward
<1>. QED
  BY <1>2, <1>3, <1>4, <1>5, <1>6, <1>7, PlanKept, NodeWritten

LEMMA CancelPlanWrites ==
  ASSUME IInv, NEW p \in Plans, CancelPlan(p)
  PROVE  PlanWrite
<1> DEFINE row == Ended(plan[p])
<1>0. plan[p] \in PlanType
  BY RowTypes DEF IInv, TypeOK, Plans
<1>1. p \in DOMAIN plan /\ plan \in Seq(PlanType)
  BY DEF IInv, TypeOK, Plans
<1>2. /\ row \in PlanType /\ row.task = plan[p].task /\ row.pred = plan[p].pred
      /\ row.version = plan[p].version + 1 /\ row.due = plan[p].due /\ row.q = plan[p].q
      /\ row.state = plan[p].state /\ row.cancelled
  BY <1>0, PlanCancelled
<1>3. plan' = [plan EXCEPT ![p] = row]
  BY <1>1 DEF CancelPlan, Ended
<1> HIDE DEF row
<1>5. task' = Bumped(plan[p].task) /\ UNCHANGED <<now, batch, material, review>>
  BY DEF CancelPlan
<1>6. left' \in [Kinds -> Nat]
  BY SpendKeeps DEF CancelPlan, IInv, Kinds
<1>7. \A key \in notices' \ notices : key[2] = p /\ key[3] = plan[p].version + 1
  BY DEF CancelPlan, Told, ToldOnward
<1>. QED
  BY <1>2, <1>3, <1>5, <1>6, <1>7, PlanKept, NodeWritten

LEMMA ProposeWrites ==
  ASSUME IInv, NEW p \in Plans, NEW entries \in Seq(EntryType), entries # <<>>,
         Propose(p, entries)
  PROVE  PlanWrite
<1> DEFINE state == IF plan[p].state \in {"confirmed", "revision_pending"}
                    THEN "revision_pending" ELSE "submitted"
           row == Asked(plan[p], entries, state)
<1>0. plan[p] \in PlanType
  BY RowTypes DEF IInv, TypeOK, Plans
<1>1. p \in DOMAIN plan /\ plan \in Seq(PlanType)
  BY DEF IInv, TypeOK, Plans
<1>2. /\ row \in PlanType /\ row.task = plan[p].task /\ row.pred = plan[p].pred
      /\ row.version = plan[p].version + 1 /\ row.due = plan[p].due /\ row.q = plan[p].q
      /\ row.state = state /\ row.pending = entries
  <2> HIDE DEF state
  <2>1. state \in States
    BY DEF state, States
  <2>. QED  BY <1>0, <2>1, PlanAsked
<1>3. plan' = [plan EXCEPT ![p] = row]
  BY <1>1 DEF Propose, Asked
<1>4. Waits(row) /\ (Batches(p) # {} => row.state \in {"confirmed", "revision_pending"})
  BY <1>2, PlanKept DEF Waits
<1> HIDE DEF row
<1>5. task' = Bumped(plan[p].task) /\ UNCHANGED <<now, batch, material, review>>
  BY DEF Propose
<1>6. left' \in [Kinds -> Nat]
  BY SpendKeeps DEF Propose, IInv, Kinds
<1>7. \A key \in notices' \ notices : key[2] = p /\ key[3] = plan[p].version + 1
  BY DEF Propose
<1>. QED
  BY <1>2, <1>3, <1>4, <1>5, <1>6, <1>7, NodeWritten

LEMMA ReturnPlanWrites ==
  ASSUME IInv, NEW p \in Plans, ReturnPlan(p)
  PROVE  PlanWrite
<1> DEFINE state == IF plan[p].state = "revision_pending" \/ Batches(p) # {}
                    THEN "confirmed" ELSE "pending"
           none == <<>>
           row == Asked(plan[p], none, state)
<1>0. plan[p] \in PlanType
  BY RowTypes DEF IInv, TypeOK, Plans
<1>1. p \in DOMAIN plan /\ plan \in Seq(PlanType)
  BY DEF IInv, TypeOK, Plans
<1>2. /\ row \in PlanType /\ row.task = plan[p].task /\ row.pred = plan[p].pred
      /\ row.version = plan[p].version + 1 /\ row.due = plan[p].due /\ row.q = plan[p].q
      /\ row.state = state /\ row.pending = none
  <2> HIDE DEF state, none
  <2>1. state \in States /\ none \in Seq(EntryType)
    BY DEF state, States, none
  <2>. QED  BY <1>0, <2>1, PlanAsked
<1>3. plan' = [plan EXCEPT ![p] = row]
  BY <1>1 DEF ReturnPlan, Asked
<1>4. Waits(row) /\ (Batches(p) # {} => row.state \in {"confirmed", "revision_pending"})
  BY <1>2 DEF Waits
<1> HIDE DEF row
<1>5. task' = Bumped(plan[p].task) /\ UNCHANGED <<now, batch, material, review>>
  BY DEF ReturnPlan
<1>6. left' \in [Kinds -> Nat]
  BY SpendKeeps DEF ReturnPlan, IInv, Kinds
<1>7. \A key \in notices' \ notices : key[2] = p /\ key[3] = plan[p].version + 1
  BY DEF ReturnPlan, Told
<1>. QED
  BY <1>2, <1>3, <1>4, <1>5, <1>6, <1>7, NodeWritten

LEMMA TaskEdited ==
  ASSUME NEW r \in TaskType, NEW final \in Nat, NEW dates \in Seq(Nat)
  PROVE  LET row == Redated(r, final, dates) IN
         row \in TaskType /\ row.customer = dates /\ row.final = final
<1> DEFINE v == r.version + 1
           new == [r EXCEPT !.final = final, !.customer = dates, !.version = v]
<1>1. v \in Nat \ {0} /\ new = Redated(r, final, dates)
  BY DEF TaskType, Redated
<1> HIDE DEF v
<1>2. new \in TaskType /\ new.customer = dates /\ new.final = final
  BY <1>1 DEF TaskType
<1> HIDE DEF new
<1>. QED
  BY <1>1, <1>2

\* An order's own row is written.
LEMMA TaskWritten ==
  ASSUME IInv, NEW t \in Tasks, NEW row \in TaskType,
         task' = [task EXCEPT ![t] = row],
         row.customer = <<>> \/ CustomerDatesFit(row.customer, row.final)
  PROVE  task' \in Seq(TaskType) /\ Len(task') = Len(task) /\ DatesAgree(task')
<1>1. task \in Seq(TaskType) /\ t \in DOMAIN task
  BY DEF IInv, TypeOK, Tasks
<1>2. /\ task' \in Seq(TaskType) /\ Len(task') = Len(task) /\ DOMAIN task' = DOMAIN task
      /\ \A u \in DOMAIN task : task'[u] = IF u = t THEN row ELSE task[u]
  BY <1>1, RowChanged
<1>3. DatesAgree(task')
  BY <1>2 DEF IInv, PlansHangTogether, DatesAgree
<1>. QED
  BY <1>2, <1>3

LEMMA UpdateTaskWrites ==
  ASSUME IInv, NEW t \in Tasks, NEW final \in Nat, NEW dates \in Seq(Nat),
         UpdateTask(t, final, dates)
  PROVE  PlanWrite
<1> DEFINE row == Redated(task[t], final, dates)
<1>1. t \in DOMAIN task /\ task \in Seq(TaskType)
  BY DEF IInv, TypeOK, Tasks
<1>2. task[t] \in TaskType
  BY RowTypes DEF IInv, TypeOK
<1>3. row \in TaskType /\ row.customer = dates /\ row.final = final
  BY <1>2, TaskEdited
<1>4. task' = [task EXCEPT ![t] = row]
  BY <1>1 DEF UpdateTask, Redated
<1> HIDE DEF row
<1>5. dates = <<>> \/ CustomerDatesFit(dates, final)
  BY <1>1 DEF UpdateTask, IInv, PlansHangTogether, DatesAgree
<1>6. task' \in Seq(TaskType) /\ Len(task') = Len(task) /\ DatesAgree(task')
  BY <1>3, <1>4, <1>5, TaskWritten
<1>7. left' \in [Kinds -> Nat]
  BY SpendKeeps DEF UpdateTask, IInv, Kinds
<1>8. \A key \in notices' \ notices : key[1] # "plan"
  BY DEF UpdateTask
<1>9. UNCHANGED <<now, plan, batch, material, review>>
  BY DEF UpdateTask
<1>. QED
  BY <1>6, <1>7, <1>8, <1>9, PlanKept DEF PlanWrite, IInv, TypeOK

\* Some of the nodes are written.
LEMMA NodesWritten ==
  ASSUME IInv, NEW new, DOMAIN new = Plans, plan' = new,
         \A p \in Plans :
           /\ new[p] \in PlanType
           /\ new[p].task = plan[p].task /\ new[p].pred = plan[p].pred
           /\ new[p].due = plan[p].due /\ new[p].q = plan[p].q /\ new[p].state = plan[p].state
           /\ new[p].version \in {plan[p].version, plan[p].version + 1}
           /\ new[p].pending # plan[p].pending => new[p].version = plan[p].version + 1
           /\ ~new[p].cancelled => ~plan[p].cancelled /\ new[p].pending = plan[p].pending,
         new = [p \in Plans |-> new[p]],
         task' \in Seq(TaskType) /\ Len(task') = Len(task) /\ DatesAgree(task'),
         left' \in [Kinds -> Nat],
         \A key \in notices' \ notices :
           key[1] = "plan" => key[2] \in Plans /\ key[3] \in 1..new[key[2]].version,
         UNCHANGED <<now, batch, material, review>>
  PROVE  PlanWrite
<1>1. Len(plan) \in Nat /\ Plans = 1..Len(plan)
  BY RowTypes DEF IInv
<1>2. new \in [1..Len(plan) -> PlanType]
  BY <1>1
<1>3. plan' \in Seq(PlanType) /\ Len(plan') = Len(plan)
  BY <1>1, <1>2, RowsMapped
<1>4. ASSUME NEW p \in Plans
      PROVE  /\ plan'[p].task = plan[p].task /\ plan'[p].pred = plan[p].pred
             /\ plan'[p].version >= plan[p].version
             /\ plan'[p].pending # plan[p].pending => plan'[p].version > plan[p].version
             /\ Batches(p) # {} => /\ plan'[p].due = plan[p].due /\ plan'[p].q = plan[p].q
                                   /\ plan'[p].state \in {"confirmed", "revision_pending"}
             /\ ~plan'[p].cancelled => Waits(plan'[p])
  BY <1>4, PlanKept DEF Waits
<1>. QED
  BY <1>3, <1>4 DEF PlanWrite

\* A lock and a new step leave a node's commitment alone.
LEMMA PlanMoved ==
  ASSUME NEW r \in PlanType, NEW step \in Nat
  PROVE  LET row == Moved(r, step) IN
         /\ row \in PlanType /\ row.task = r.task /\ row.pred = r.pred
         /\ row.due = r.due /\ row.q = r.q /\ row.state = r.state
         /\ row.version = r.version /\ row.pending = r.pending /\ row.cancelled = r.cancelled
<1>1. Moved(r, step) \in PlanType
  BY DEF PlanType, Moved
<1>2. LET row == Moved(r, step) IN
         /\ row.task = r.task /\ row.pred = r.pred
         /\ row.due = r.due /\ row.q = r.q /\ row.state = r.state
         /\ row.version = r.version /\ row.pending = r.pending /\ row.cancelled = r.cancelled
  BY DEF PlanType, Moved
<1>. QED
  BY <1>1, <1>2

LEMMA PlanRevised ==
  ASSUME NEW r \in PlanType
  PROVE  LET row == Bump(r) IN
         /\ row \in PlanType /\ row.task = r.task /\ row.pred = r.pred
         /\ row.due = r.due /\ row.q = r.q /\ row.state = r.state
         /\ row.version = r.version + 1 /\ row.pending = r.pending /\ row.cancelled = r.cancelled
<1> DEFINE v == r.version + 1
           new == [r EXCEPT !.version = v]
<1>1. v \in Nat \ {0} /\ new = Bump(r)
  BY DEF PlanType, Bump
<1> HIDE DEF v
<1>2. new \in PlanType
  BY <1>1 DEF PlanType
<1>3. LET row == new IN
         /\ row.task = r.task /\ row.pred = r.pred
         /\ row.due = r.due /\ row.q = r.q /\ row.state = r.state
         /\ row.version = v /\ row.pending = r.pending /\ row.cancelled = r.cancelled
  BY <1>1 DEF PlanType
<1> HIDE DEF new
<1>. QED
  BY <1>1, <1>2, <1>3 DEF v

LEMMA PlanClosed ==
  ASSUME NEW r \in PlanType
  PROVE  LET row == Closed(r) IN
         /\ row \in PlanType /\ row.task = r.task /\ row.pred = r.pred
         /\ row.due = r.due /\ row.q = r.q /\ row.state = r.state
         /\ row.version = r.version + 1 /\ row.cancelled
<1> DEFINE v == r.version + 1
           none == <<>>
           new == [r EXCEPT !.cancelled = TRUE, !.pending = none, !.version = v]
<1>1. v \in Nat \ {0} /\ none \in Seq(EntryType) /\ new = Closed(r)
  BY DEF PlanType, Closed
<1> HIDE DEF v, none
<1>2. new \in PlanType
  BY <1>1 DEF PlanType
<1>3. /\ new.task = r.task /\ new.pred = r.pred
      /\ new.due = r.due /\ new.q = r.q /\ new.state = r.state
      /\ new.version = v /\ new.cancelled
  BY <1>1 DEF PlanType
<1> HIDE DEF new
<1>. QED
  BY <1>1, <1>2, <1>3 DEF v

LEMMA RevisedNodes ==
  ASSUME IInv, NEW S \in SUBSET Plans, NEW p \in Plans
  PROVE  /\ Revised(S)[p] \in PlanType
         /\ Revised(S)[p].task = plan[p].task /\ Revised(S)[p].pred = plan[p].pred
         /\ Revised(S)[p].due = plan[p].due /\ Revised(S)[p].q = plan[p].q
         /\ Revised(S)[p].state = plan[p].state
         /\ Revised(S)[p].version = IF p \in S THEN plan[p].version + 1 ELSE plan[p].version
         /\ Revised(S)[p].pending = plan[p].pending
         /\ Revised(S)[p].cancelled = plan[p].cancelled
<1>1. plan[p] \in PlanType /\ 0 \in Nat
  BY RowTypes DEF IInv
<1>2. Revised(S)[p] = IF p \in S THEN Bump(plan[p]) ELSE plan[p]
  BY DEF Revised, Bump
<1>. QED
  BY <1>1, <1>2, PlanRevised

LEMMA TaskMarked ==
  ASSUME NEW r \in TaskType, NEW locked \in BOOLEAN, NEW deleted \in BOOLEAN
  PROVE  LET row == Marked(r, locked, deleted) IN
         row \in TaskType /\ row.customer = r.customer /\ row.final = r.final
<1> DEFINE v == r.version + 1
           new == [r EXCEPT !.locked = locked, !.deleted = deleted, !.version = v]
<1>1. v \in Nat \ {0} /\ new = Marked(r, locked, deleted)
  BY DEF TaskType, Marked
<1> HIDE DEF v
<1>2. new \in TaskType /\ new.customer = r.customer /\ new.final = r.final
  BY <1>1 DEF TaskType
<1> HIDE DEF new
<1>. QED
  BY <1>1, <1>2

LEMMA LockTaskWrites ==
  ASSUME IInv, NEW t \in Tasks, NEW locked \in BOOLEAN, LockTask(t, locked)
  PROVE  PlanWrite
<1> DEFINE row == Marked(task[t], locked, task[t].deleted)
           open == Active(Nodes(t))
           new == Revised(open)
<1>1. t \in DOMAIN task /\ task \in Seq(TaskType) /\ open \in SUBSET Plans
  BY DEF IInv, TypeOK, Tasks, Active, Nodes
<1>2. task[t] \in TaskType
  BY RowTypes DEF IInv, TypeOK
<1>3. row \in TaskType /\ row.customer = task[t].customer /\ row.final = task[t].final
  <2>1. task[t].locked \in BOOLEAN /\ task[t].deleted \in BOOLEAN /\ TRUE \in BOOLEAN
    BY <1>2 DEF TaskType
  <2>. QED  BY <1>2, <2>1, TaskMarked
<1>4. task' = [task EXCEPT ![t] = row]
  BY <1>1, <1>2 DEF LockTask, Marked, TaskType
<1>5. plan' = new
  BY DEF LockTask
<1>6. \A key \in notices' \ notices :
        \E p \in open : key[1] = "plan" /\ key[2] = p /\ key[3] = plan[p].version + 1
  BY DEF LockTask, Told
<1>7. left' \in [Kinds -> Nat]
  BY SpendKeeps DEF LockTask, IInv, Kinds
<1>8. UNCHANGED <<now, batch, material, review>>
  BY DEF LockTask
<1> HIDE DEF row
<1>9. task' \in Seq(TaskType) /\ Len(task') = Len(task) /\ DatesAgree(task')
  <2>1. row.customer = <<>> \/ CustomerDatesFit(row.customer, row.final)
    BY <1>1, <1>3 DEF IInv, PlansHangTogether, DatesAgree
  <2>. QED  BY <1>3, <1>4, <2>1, TaskWritten
<1>10. DOMAIN new = Plans /\ new = [p \in Plans |-> new[p]]
  BY DEF Revised
<1> HIDE DEF open
<1>11. ASSUME NEW p \in Plans
       PROVE  /\ new[p] \in PlanType
              /\ new[p].task = plan[p].task /\ new[p].pred = plan[p].pred
              /\ new[p].due = plan[p].due /\ new[p].q = plan[p].q /\ new[p].state = plan[p].state
              /\ new[p].version = IF p \in open THEN plan[p].version + 1 ELSE plan[p].version
              /\ new[p].pending = plan[p].pending /\ new[p].cancelled = plan[p].cancelled
  BY <1>1, RevisedNodes
<1> HIDE DEF new
<1>12. \A key \in notices' \ notices :
         key[1] = "plan" => key[2] \in Plans /\ key[3] \in 1..new[key[2]].version
  BY <1>1, <1>6, <1>11, PlanKept
<1>. QED
  BY <1>5, <1>7, <1>8, <1>9, <1>10, <1>11, <1>12, NodesWritten

LEMMA DeleteTaskWrites ==
  ASSUME IInv, NEW t \in Tasks, DeleteTask(t)
  PROVE  PlanWrite
<1> DEFINE row == Marked(task[t], task[t].locked, TRUE)
           open == Active(Nodes(t))
           new == [p \in Plans |-> IF p \in open THEN Closed(plan[p]) ELSE plan[p]]
<1>1. t \in DOMAIN task /\ task \in Seq(TaskType) /\ open \in SUBSET Plans
  BY DEF IInv, TypeOK, Tasks, Active, Nodes
<1>2. task[t] \in TaskType
  BY RowTypes DEF IInv, TypeOK
<1>3. row \in TaskType /\ row.customer = task[t].customer /\ row.final = task[t].final
  <2>1. task[t].locked \in BOOLEAN /\ task[t].deleted \in BOOLEAN /\ TRUE \in BOOLEAN
    BY <1>2 DEF TaskType
  <2>. QED  BY <1>2, <2>1, TaskMarked
<1>4. task' = [task EXCEPT ![t] = row]
  BY <1>1, <1>2 DEF DeleteTask, Marked, TaskType
<1>5. plan' = new
  BY DEF DeleteTask, Closed
<1>6. \A key \in notices' \ notices :
        \E p \in open : key[1] = "plan" /\ key[2] = p /\ key[3] = plan[p].version + 1
  <2>1. ASSUME NEW p, NEW key \in Told(p, plan[p].version + 1, "cancelled")
                               \union ToldOnward(p, plan[p].version + 1, "cancelled")
        PROVE  key[1] = "plan" /\ key[2] = p /\ key[3] = plan[p].version + 1
    BY DEF Told, ToldOnward
  <2>2. \A key \in notices' \ notices :
          \E p \in open : key \in Told(p, plan[p].version + 1, "cancelled")
                                  \union ToldOnward(p, plan[p].version + 1, "cancelled")
    BY DEF DeleteTask
  <2>. QED  BY <2>1, <2>2
<1>7. left' \in [Kinds -> Nat]
  BY SpendKeeps DEF DeleteTask, IInv, Kinds
<1>8. UNCHANGED <<now, batch, material, review>>
  BY DEF DeleteTask
<1> HIDE DEF row
<1>9. task' \in Seq(TaskType) /\ Len(task') = Len(task) /\ DatesAgree(task')
  <2>1. row.customer = <<>> \/ CustomerDatesFit(row.customer, row.final)
    BY <1>1, <1>3 DEF IInv, PlansHangTogether, DatesAgree
  <2>. QED  BY <1>3, <1>4, <2>1, TaskWritten
<1>10. DOMAIN new = Plans /\ new = [p \in Plans |-> new[p]]
  OBVIOUS
<1> HIDE DEF open
<1>11. ASSUME NEW p \in Plans
       PROVE  /\ new[p] \in PlanType
              /\ new[p].task = plan[p].task /\ new[p].pred = plan[p].pred
              /\ new[p].due = plan[p].due /\ new[p].q = plan[p].q /\ new[p].state = plan[p].state
              /\ new[p].version = IF p \in open THEN plan[p].version + 1 ELSE plan[p].version
              /\ new[p].pending # plan[p].pending => p \in open
              /\ ~new[p].cancelled => new[p] = plan[p]
  <2>1. plan[p] \in PlanType
    BY RowTypes DEF IInv
  <2>2. CASE p \in open
    BY <2>1, <2>2, PlanClosed
  <2>3. CASE p \notin open
    BY <2>1, <2>3
  <2>. QED  BY <2>2, <2>3
<1> HIDE DEF new
<1>12. \A key \in notices' \ notices :
         key[1] = "plan" => key[2] \in Plans /\ key[3] \in 1..new[key[2]].version
  BY <1>1, <1>6, <1>11, PlanKept
<1>. QED
  BY <1>5, <1>7, <1>8, <1>9, <1>10, <1>11, <1>12, NodesWritten

LEMMA RouteSteps == \A s \in 1..Len(Route) : s \in Nat /\ Route[s] \in Teams
BY FormsAssumption DEF FormsAssumption, Teams

LEMMA LinkRouteWrites ==
  ASSUME IInv, NEW t \in Tasks, NEW S \in SUBSET Nodes(t), NEW steps \in [S -> 1..Len(Route)],
         LinkRoute(t, steps)
  PROVE  PlanWrite
<1> DEFINE moved == {p \in DOMAIN steps : steps[p] # plan[p].step}
           to(p) == IF p \in DOMAIN steps THEN steps[p] ELSE plan[p].step
           new == [p \in Plans |-> Moved(Revised(moved)[p], to(p))]
<1>1. S \in SUBSET Plans /\ moved \in SUBSET Plans
  BY DEF Nodes
<1>2. plan' = new
  BY DEF LinkRoute, Moved
<1>3. task' = Bumped(t) /\ UNCHANGED <<now, batch, material, notices, review>>
  BY DEF LinkRoute
<1>4. left' \in [Kinds -> Nat]
  BY SpendKeeps DEF LinkRoute, IInv, Kinds
<1>5. DOMAIN new = Plans /\ new = [p \in Plans |-> new[p]]
  OBVIOUS
<1>6. ASSUME NEW p \in Plans
      PROVE  /\ new[p] \in PlanType
             /\ new[p].task = plan[p].task /\ new[p].pred = plan[p].pred
             /\ new[p].due = plan[p].due /\ new[p].q = plan[p].q /\ new[p].state = plan[p].state
             /\ new[p].version = IF p \in moved THEN plan[p].version + 1 ELSE plan[p].version
             /\ new[p].pending = plan[p].pending /\ new[p].cancelled = plan[p].cancelled
  <2>1. to(p) \in Nat
    <3>1. plan[p].step \in Nat
      BY RowTypes DEF IInv, PlanType
    <3>. QED  BY <3>1, RouteSteps
  <2>2. new[p] = Moved(Revised(moved)[p], to(p))
    OBVIOUS
  <2> HIDE DEF moved, to, new
  <2>3. Revised(moved)[p] \in PlanType
    BY <1>1, RevisedNodes
  <2>4. PICK r : r = Revised(moved)[p]
    OBVIOUS
  <2>5. LET row == Moved(r, to(p)) IN
            /\ row \in PlanType /\ row.task = r.task /\ row.pred = r.pred
            /\ row.due = r.due /\ row.q = r.q /\ row.state = r.state
            /\ row.version = r.version /\ row.pending = r.pending /\ row.cancelled = r.cancelled
    BY <2>1, <2>3, <2>4, PlanMoved
  <2>. QED  BY <1>1, <2>2, <2>4, <2>5, RevisedNodes
<1> HIDE DEF new
<1>7. task' \in Seq(TaskType) /\ Len(task') = Len(task) /\ DatesAgree(task')
  BY <1>3, BumpedType
<1>8. UNCHANGED <<now, batch, material, review>>
  BY <1>3
<1>9. \A key \in notices' \ notices :
         key[1] = "plan" => key[2] \in Plans /\ key[3] \in 1..new[key[2]].version
  BY <1>3
<1>10. \A p \in Plans :
         /\ new[p] \in PlanType
         /\ new[p].task = plan[p].task /\ new[p].pred = plan[p].pred
         /\ new[p].due = plan[p].due /\ new[p].q = plan[p].q /\ new[p].state = plan[p].state
         /\ new[p].version \in {plan[p].version, plan[p].version + 1}
         /\ new[p].pending # plan[p].pending => new[p].version = plan[p].version + 1
         /\ ~new[p].cancelled => ~plan[p].cancelled /\ new[p].pending = plan[p].pending
  BY <1>6
<1> HIDE DEF moved, to
<1>. QED
  BY <1>2, <1>4, <1>5, <1>7, <1>8, <1>9, <1>10, NodesWritten

LEMMA RefreshWrites ==
  ASSUME IInv, NEW teams, Refresh(teams)
  PROVE  PlanWrite
<1>1. \A key \in Deadlines(teams) : key[1] # "plan"
  BY DEF Deadlines, DueKey
<1>2. left' \in [Kinds -> Nat]
  BY SpendKeeps DEF Refresh, IInv, Kinds
<1>3. \A p \in Plans : plan[p].version \in Nat
  BY PlanKept
<1>. QED
  BY <1>1, <1>2, <1>3, PlanKept DEF Refresh, PlanWrite, IInv, TypeOK, PlansHangTogether, books

-----------------------------------------------------------------------------
(* The clock, the review and a new order.                                   *)

LEMMA TickKeeps ==
  ASSUME IInv, Tick
  PROVE  IInv'
<1>1. UNCHANGED <<task, plan, batch, lot, delivery, notices, review>> /\ now' \in 1..MaxNow
  BY FormsAssumption DEF Tick, books, material, IInv, TypeOK, FormsAssumption
<1>2. left' \in [Kinds -> Nat]
  BY SpendKeeps DEF Tick, IInv, Kinds
<1>3. TypeOK'
  BY <1>1 DEF IInv, TypeOK, Batches, Plans, Lots
<1>4. ReviewIsOfItsRevision' /\ NoticesAreOfThePast'
  BY <1>1 DEF IInv, ReviewIsOfItsRevision, NoticesAreOfThePast, Plans
<1>. QED
  BY <1>1, <1>2, <1>3, <1>4 DEF IInv, PlansHangTogether

LEMMA ReviewPlanKeeps ==
  ASSUME IInv, NEW p \in Plans, ReviewPlan(p)
  PROVE  IInv'
<1>1. UNCHANGED <<now, task, plan, batch, lot, delivery, notices>>
  BY DEF ReviewPlan, books, material
<1>2. left' \in [Kinds -> Nat]
  BY SpendKeeps DEF ReviewPlan, IInv, Kinds
<1>3. TypeOK'
  BY <1>1 DEF IInv, TypeOK, Batches, Plans, Lots
<1>4. NoticesAreOfThePast'
  BY <1>1 DEF IInv, NoticesAreOfThePast, Plans
<1>5. ReviewIsOfItsRevision'
  <2>1. plan[p] \in PlanType /\ p \in Nat \ {0}
    BY RowTypes DEF IInv
  <2>2. review' = [plan |-> p, version |-> plan[p].version, entries |-> plan[p].pending]
    BY DEF ReviewPlan
  <2>3. /\ plan[p].version \in Nat /\ plan[p].pending \in Seq(EntryType)
        /\ plan[p].version >= plan[p].version /\ plan[p].pending # <<>>
    BY <2>1 DEF PlanType, ReviewPlan, Reviewable
  <2>. QED  BY <1>1, <2>1, <2>2, <2>3 DEF ReviewIsOfItsRevision, Plans
<1>. QED
  BY <1>1, <1>2, <1>3, <1>4, <1>5 DEF IInv, PlansHangTogether

AreNew(nodes, n, t) ==
    \A i \in DOMAIN nodes :
      /\ nodes[i].task = t /\ nodes[i].pred \in 0..(n + i - 1)
      /\ nodes[i].pending = <<>> /\ nodes[i].state = "pending" /\ nodes[i].version = 1

\* The nodes of a new order: one per team in turn, each after the one before.
LEMMA NewNodesType ==
  ASSUME NEW n \in Nat, NEW t \in Nat \ {0}, NEW due \in Nat, NEW q \in Nat \ {0}
  PROVE  /\ NewNodes(n, t, due, q) \in Seq(PlanType)
         /\ AreNew(NewNodes(n, t, due, q), n, t)
<1> DEFINE steps == Ranked(HandoverSteps)
           k == Cardinality(HandoverSteps)
           nodes == NewNodes(n, t, due, q)
<1>1. Len(Route) \in Nat /\ HandoverSteps \in SUBSET (1..Len(Route))
  BY FormsAssumption DEF FormsAssumption, HandoverSteps
<1>2. k \in Nat /\ steps \in [1..k -> HandoverSteps]
  BY <1>1, RankedLists
<1> HIDE DEF k, steps
<1>3. DOMAIN steps = 1..k /\ Len(steps) = k
  <2>1. steps \in Seq(HandoverSteps) /\ Len(steps) = k /\ DOMAIN steps = 1..k
    BY <1>2, RowsMapped
  <2>. QED  BY <2>1
<1>4. ASSUME NEW i \in 1..k
      PROVE  LET row == [task |-> t, step |-> steps[i], team |-> Route[steps[i]],
                         next |-> IF i < k THEN Route[steps[i + 1]] ELSE Outside,
                         pred |-> IF i > 1 THEN n + (i - 1) ELSE None,
                         due |-> due, initial |-> due, q |-> q,
                         state |-> "pending", pending |-> <<>>,
                         version |-> 1, cancelled |-> FALSE, sources |-> {}]
             IN /\ row \in PlanType
                /\ row.task = t /\ row.pred \in 0..(n + i - 1)
                /\ row.pending = <<>> /\ row.state = "pending" /\ row.version = 1
  <2> DEFINE next == IF i < k THEN Route[steps[i + 1]] ELSE Outside
             pred == IF i > 1 THEN n + (i - 1) ELSE None
             none == <<>>
             team == Route[steps[i]]
             step == steps[i]
  <2>1. step \in Nat /\ team \in Teams
    BY <1>1, <1>2, RouteSteps
  <2>2. next \in Teams \union {Outside}
    <3>1. ASSUME i < k PROVE steps[i + 1] \in 1..Len(Route)
      <4>1. i + 1 \in 1..k
        BY <1>2, <3>1
      <4>2. steps[i + 1] \in HandoverSteps
        BY <1>2, <4>1
      <4>. QED  BY <1>1, <4>2
    <3>. QED  BY <3>1, RouteSteps
  <2>3. pred \in Nat /\ pred \in 0..(n + i - 1)
    BY <1>2 DEF None
  <2>4. none \in Seq(EntryType)
    OBVIOUS
  <2> HIDE DEF next, pred, none, team, step
  <2> DEFINE row == [task |-> t, step |-> step, team |-> team, next |-> next, pred |-> pred,
                     due |-> due, initial |-> due, q |-> q, state |-> "pending", pending |-> none,
                     version |-> 1, cancelled |-> FALSE, sources |-> {}]
  <2>5. row \in PlanType
    BY <2>1, <2>2, <2>3, <2>4 DEF PlanType
  <2>6. /\ row.task = t /\ row.pred \in 0..(n + i - 1)
        /\ row.pending = none /\ row.state = "pending" /\ row.version = 1
    BY <2>3
  <2>. QED  BY <2>5, <2>6 DEF next, pred, none, team, step
<1>5. nodes = [i \in 1..k |->
                [task |-> t, step |-> steps[i], team |-> Route[steps[i]],
                 next |-> IF i < k THEN Route[steps[i + 1]] ELSE Outside,
                 pred |-> IF i > 1 THEN n + (i - 1) ELSE None,
                 due |-> due, initial |-> due, q |-> q,
                 state |-> "pending", pending |-> <<>>,
                 version |-> 1, cancelled |-> FALSE, sources |-> {}]]
  BY <1>3 DEF NewNodes, steps
<1> HIDE DEF nodes
<1>6. \A i \in 1..k : /\ nodes[i] \in PlanType
                      /\ nodes[i].task = t /\ nodes[i].pred \in 0..(n + i - 1)
                      /\ nodes[i].pending = <<>> /\ nodes[i].state = "pending"
                      /\ nodes[i].version = 1
  BY <1>4, <1>5, Zenon
<1>7. nodes \in [1..k -> PlanType]
  BY <1>5, <1>6
<1>8. nodes \in Seq(PlanType) /\ DOMAIN nodes = 1..k
  BY <1>2, <1>7, RowsMapped
<1>. QED
  BY <1>6, <1>8 DEF nodes, AreNew

LEMMA CreateTaskKeeps ==
  ASSUME IInv, NEW dates \in Seq(Nat), NEW final \in Nat, NEW q \in Nat \ {0},
         CreateTask(dates, final, q)
  PROVE  IInv'
<1> DEFINE t == Len(task) + 1
           n == Len(plan)
           nodes == NewNodes(n, t, final, q)
           row == [version |-> 1, final |-> final, customer |-> dates,
                   locked |-> FALSE, deleted |-> FALSE]
<1>1. /\ task \in Seq(TaskType) /\ plan \in Seq(PlanType)
      /\ Len(task) \in Nat /\ DOMAIN task = 1..Len(task)
      /\ n \in Nat /\ DOMAIN plan = 1..n
  BY RowTypes DEF IInv, TypeOK, Tasks, Plans
<1>2. row \in TaskType
  BY DEF TaskType
<1>3. /\ nodes \in Seq(PlanType)
      /\ \A i \in DOMAIN nodes :
           /\ nodes[i].task = t /\ nodes[i].pred \in 0..(n + i - 1)
           /\ nodes[i].pending = <<>> /\ nodes[i].state = "pending" /\ nodes[i].version = 1
  <2>1. t \in Nat \ {0} /\ n \in Nat
    BY <1>1
  <2>2. nodes \in Seq(PlanType) /\ AreNew(nodes, n, t)
    <3> HIDE DEF t, n
    <3>. QED  BY <2>1, NewNodesType
  <2>. QED  BY <2>2 DEF AreNew
<1>4. /\ CustomerDatesFit(dates, final)
      /\ task' = Append(task, row) /\ plan' = plan \o nodes
      /\ notices' = notices \union UNION {Told(n + i, 1, "created") : i \in DOMAIN nodes}
      /\ UNCHANGED <<now, batch, lot, delivery, review>>
  BY DEF CreateTask, material
<1>5. left' \in [Kinds -> Nat]
  BY SpendKeeps DEF CreateTask, IInv, Kinds
<1>6. row.customer = dates /\ row.final = final
  OBVIOUS
<1> HIDE DEF nodes, row
<1> DEFINE k == Len(nodes)
<1>7. k \in Nat /\ DOMAIN nodes = 1..k
  BY <1>3
<1>8. /\ task' \in Seq(TaskType) /\ DOMAIN task' = 1..(Len(task) + 1)
      /\ \A u \in DOMAIN task : task'[u] = task[u]
      /\ task'[t] = row
  BY <1>1, <1>2, <1>4, RowAdded
<1>9. /\ plan' \in Seq(PlanType) /\ DOMAIN plan' = 1..(n + k)
      /\ \A p \in DOMAIN plan : plan'[p] = plan[p]
      /\ \A i \in DOMAIN nodes : plan'[n + i] = nodes[i]
  BY <1>1, <1>3, <1>4, RowsAdded
<1> HIDE DEF k, n
<1>10. ASSUME NEW p \in DOMAIN plan', p \notin DOMAIN plan
       PROVE  /\ plan'[p].task = t /\ plan'[p].pred \in 0..(p - 1)
              /\ plan'[p].pending = <<>> /\ plan'[p].state = "pending" /\ plan'[p].version = 1
  <2>1. p - n \in DOMAIN nodes /\ n + (p - n) = p
    BY <1>1, <1>7, <1>9, <1>10
  <2>2. PICK i \in DOMAIN nodes : n + i = p
    BY <2>1
  <2>3. plan'[p] = nodes[i]
    BY <1>9, <2>2
  <2>4. nodes[i].pred \in 0..(n + i - 1) /\ n + i - 1 = p - 1
    BY <1>1, <1>3, <1>7, <2>2
  <2>. QED  BY <1>3, <2>3, <2>4
<1>11. DOMAIN plan \subseteq DOMAIN plan' /\ DOMAIN task \subseteq DOMAIN task' /\ t \in DOMAIN task'
  BY <1>1, <1>7, <1>8, <1>9
<1>12. KeysExist(task', plan', batch', lot')
  <2>1. KeysExist(task, plan, batch, lot)
    BY DEF IInv, TypeOK
  <2>2. ASSUME NEW p \in DOMAIN plan'
        PROVE  plan'[p].task \in DOMAIN task' /\ plan'[p].pred \in 0..(p - 1)
    BY <1>9, <1>10, <1>11, <2>1 DEF KeysExist
  <2>. QED  BY <1>4, <1>11, <2>1, <2>2 DEF KeysExist
<1>13. TypeOK'
  BY <1>4, <1>8, <1>9, <1>11, <1>12 DEF IInv, TypeOK, Batches, Lots, Plans
<1>14. PlansHangTogether'
  <2>1. ASSUME NEW p \in DOMAIN plan' PROVE PlanAgrees(plan'[p], batch', p)
    <3>1. CASE p \in DOMAIN plan
      BY <1>4, <1>9, <3>1 DEF IInv, PlansHangTogether, PlansAgree
    <3>2. CASE p \notin DOMAIN plan
      <4>1. InForce(batch', p) = {}
        BY <1>4, <3>2 DEF InForce, IInv, TypeOK, KeysExist
      <4>2. Waits(plan'[p])
        BY <1>10, <3>2 DEF Waits
      <4>. QED  BY <4>1, <4>2 DEF PlanAgrees
    <3>. QED  BY <3>1, <3>2
  <2>2. ASSUME NEW u \in DOMAIN task'
        PROVE  task'[u].customer = <<>> \/ CustomerDatesFit(task'[u].customer, task'[u].final)
    <3>1. CASE u \in DOMAIN task
      BY <1>8, <3>1 DEF IInv, PlansHangTogether, DatesAgree
    <3>2. CASE u \notin DOMAIN task
      <4>1. u = t
        BY <1>1, <1>8, <3>2
      <4>. QED  BY <1>4, <1>6, <1>8, <4>1
    <3>. QED  BY <3>1, <3>2
  <2>. QED  BY <2>1, <2>2 DEF PlansHangTogether, PlansAgree, DatesAgree
<1>15. ReviewIsOfItsRevision'
  BY <1>4, <1>9, <1>11 DEF IInv, ReviewIsOfItsRevision, Plans
<1>16. NoticesAreOfThePast'
  <2> SUFFICES ASSUME NEW key \in notices', key[1] = "plan"
               PROVE  key[2] \in DOMAIN plan' /\ key[3] \in 1..plan'[key[2]].version
    BY DEF NoticesAreOfThePast, Plans
  <2>1. CASE key \in notices
    BY <1>9, <1>11, <2>1 DEF IInv, NoticesAreOfThePast, Plans
  <2>2. CASE key \notin notices
    <3>1. PICK i \in DOMAIN nodes : key \in Told(n + i, 1, "created")
      BY <1>4, <2>2
    <3>2. key[2] = n + i /\ key[3] = 1
      BY <3>1 DEF Told
    <3>3. n + i \in DOMAIN plan' /\ plan'[n + i].version = 1
      BY <1>1, <1>3, <1>7, <1>9
    <3>. QED  BY <3>2, <3>3
  <2>. QED  BY <2>1, <2>2
<1>. QED
  BY <1>4, <1>5, <1>13, <1>14, <1>15, <1>16 DEF IInv

-----------------------------------------------------------------------------
(* A request that is saved: every entry has its row, the other rows of the  *)
(* node are marked deleted, the rows of other nodes stay.                   *)

NewOnes(entries) == {i \in DOMAIN entries : entries[i].id = None}
Size(entries) == Len(batch) + Cardinality(NewOnes(entries))
At(entries, i) ==
    IF entries[i].id = None THEN Len(batch) + Rank(NewOnes(entries), i) ELSE entries[i].id
RowOf(p, entry) ==
    [plan |-> p, due |-> entry.due, q |-> entry.q, up |-> entry.up, deleted |-> FALSE]
Struck(row) == [row EXCEPT !.deleted = TRUE]

LEMMA RowOfType ==
  ASSUME NEW p \in Nat \ {0}, NEW entry \in EntryType
  PROVE  /\ RowOf(p, entry) \in BatchType
         /\ RowOf(p, entry).plan = p /\ RowOf(p, entry).due = entry.due
         /\ RowOf(p, entry).q = entry.q /\ RowOf(p, entry).up = entry.up
         /\ ~RowOf(p, entry).deleted
BY DEF RowOf, EntryType, BatchType

LEMMA StruckType ==
  ASSUME NEW row \in BatchType
  PROVE  Struck(row) \in BatchType /\ Struck(row).plan = row.plan /\ Struck(row).deleted
BY DEF Struck, BatchType

LEMMA EntriesPlaced ==
  ASSUME IInv, NEW entries \in Seq(EntryType), NamedOnce(entries),
         NEW p \in Plans, Kept(entries) \subseteq Batches(p)
  PROVE  /\ Cardinality(NewOnes(entries)) \in Nat /\ Size(entries) \in Nat
         /\ Size(entries) >= Len(batch)
         /\ \A i \in DOMAIN entries : At(entries, i) \in 1..Size(entries)
         /\ \A i, j \in DOMAIN entries : At(entries, i) = At(entries, j) => i = j
         /\ \A b \in 1..Size(entries) :
              b > Len(batch) => \E i \in DOMAIN entries : At(entries, i) = b /\ entries[i].id = None
         /\ \A i \in DOMAIN entries :
              IF entries[i].id = None THEN At(entries, i) > Len(batch)
              ELSE At(entries, i) \in Kept(entries) /\ At(entries, i) \in 1..Len(batch)
<1> DEFINE n == Len(entries)
           S == NewOnes(entries)
           c == Cardinality(S)
           N == Len(batch)
<1>1. n \in Nat /\ DOMAIN entries = 1..n /\ S \in SUBSET (1..n) /\ N \in Nat /\ DOMAIN batch = 1..N
  BY RowTypes DEF NewOnes, IInv
<1>2. /\ c \in Nat
      /\ Ranked(S) \in [1..c -> S]
      /\ \A k \in 1..c : Rank(S, Ranked(S)[k]) = k
      /\ \A i \in S : Rank(S, i) \in 1..c /\ Ranked(S)[Rank(S, i)] = i
  BY <1>1, RankedLists
<1>3. Size(entries) = N + c
  BY DEF Size
<1>4. \A i \in DOMAIN entries : i \in S <=> entries[i].id = None
  BY DEF NewOnes
<1>5. \A i \in DOMAIN entries : At(entries, i) = IF i \in S THEN N + Rank(S, i) ELSE entries[i].id
  BY <1>4 DEF At
<1>6. ASSUME NEW i \in DOMAIN entries, i \notin S
      PROVE  entries[i].id \in Kept(entries) /\ entries[i].id \in 1..N
  <2>1. entries[i].id \in Kept(entries)
    BY <1>4, <1>6 DEF Kept
  <2>2. entries[i].id \in DOMAIN batch
    BY <2>1 DEF Batches
  <2>. QED  BY <1>1, <2>1, <2>2
<1> HIDE DEF n, S, c, N
<1>7. \A i \in DOMAIN entries :
        IF i \in S THEN At(entries, i) \in N + 1 .. N + c
        ELSE At(entries, i) \in Kept(entries) /\ At(entries, i) \in 1..N
  BY <1>1, <1>2, <1>5, <1>6
<1>8. ASSUME NEW i \in DOMAIN entries, NEW j \in DOMAIN entries, At(entries, i) = At(entries, j)
      PROVE  i = j
  <2>1. CASE i \in S /\ j \in S
    <3>1. N + Rank(S, i) = N + Rank(S, j)
      BY <1>5, <1>8, <2>1
    <3>2. Rank(S, i) = Rank(S, j)
      BY <1>1, <1>2, <2>1, <3>1
    <3>. QED  BY <1>2, <2>1, <3>2
  <2>2. CASE i \notin S /\ j \notin S
    BY <1>4, <1>5, <1>8, <2>2 DEF NamedOnce
  <2>3. CASE (i \in S) # (j \in S)
    BY <1>1, <1>2, <1>7, <1>8, <2>3
  <2>. QED  BY <2>1, <2>2, <2>3
<1>9. ASSUME NEW b \in 1..(N + c), b > N
      PROVE  \E i \in DOMAIN entries : At(entries, i) = b /\ entries[i].id = None
  <2>1. b - N \in 1..c
    BY <1>1, <1>2, <1>9
  <2>2. PICK k \in 1..c : k = b - N
    BY <2>1
  <2>3. Ranked(S)[k] \in S /\ Rank(S, Ranked(S)[k]) = k
    BY <1>2
  <2>4. Ranked(S)[k] \in DOMAIN entries
    BY <1>1, <2>3
  <2>5. At(entries, Ranked(S)[k]) = N + k
    BY <1>5, <2>3, <2>4
  <2>6. N + k = b
    BY <1>1, <2>2
  <2>. QED  BY <1>4, <2>3, <2>4, <2>5, <2>6
<1>10. N = Len(batch) /\ c = Cardinality(NewOnes(entries))
  BY DEF N, c, S
<1>11. \A i \in DOMAIN entries : At(entries, i) \in 1..(N + c)
  BY <1>1, <1>2, <1>7
<1>12. \A i \in DOMAIN entries : i \in S => At(entries, i) > N
  BY <1>1, <1>2, <1>7
<1>. QED
  BY <1>1, <1>2, <1>3, <1>4, <1>7, <1>8, <1>9, <1>10, <1>11, <1>12

LEMMA WrittenRows ==
  ASSUME IInv, NEW entries \in Seq(EntryType), NamedOnce(entries),
         NEW p \in Plans, Kept(entries) \subseteq Batches(p)
  PROVE  /\ Written(p, entries) \in Seq(BatchType)
         /\ Len(Written(p, entries)) = Size(entries)
         /\ DOMAIN Written(p, entries) = 1..Size(entries)
         /\ \A i \in DOMAIN entries : Written(p, entries)[At(entries, i)] = RowOf(p, entries[i])
         /\ \A b \in 1..Len(batch) : b \notin Kept(entries) =>
              Written(p, entries)[b] = IF b \in Batches(p) THEN Struck(batch[b]) ELSE batch[b]
         /\ \A b \in Kept(entries) : \E i \in DOMAIN entries : At(entries, i) = b
<1> DEFINE S == NewOnes(entries)
           N == Len(batch)
           new == Ranked(S)
           entry(b) == CHOOSE i \in DOMAIN entries : entries[i].id = b
           W == Written(p, entries)
<1>1. /\ N \in Nat /\ DOMAIN batch = 1..N /\ \A b \in 1..N : batch[b] \in BatchType
      /\ Plans \subseteq Nat \ {0}
      /\ \A i \in DOMAIN entries : entries[i] \in EntryType
  BY RowTypes DEF IInv
<1>2. /\ Cardinality(S) \in Nat /\ S \in SUBSET DOMAIN entries
      /\ DOMAIN new = 1..Cardinality(S)
      /\ \A i \in S : Rank(S, i) \in 1..Cardinality(S) /\ new[Rank(S, i)] = i
  <2>1. Len(entries) \in Nat /\ S \in SUBSET (1..Len(entries))
    BY DEF NewOnes
  <2>2. S \in SUBSET DOMAIN entries
    BY DEF NewOnes
  <2> HIDE DEF S
  <2>. QED  BY <2>1, <2>2, RankedLists
<1>3. Len(new) = Cardinality(S)
  <2> DEFINE c == Cardinality(S)
  <2>1. new \in [1..c -> S] /\ c \in Nat
    <3>1. Len(entries) \in Nat /\ S \in SUBSET (1..Len(entries))
      BY DEF NewOnes
    <3> HIDE DEF S
    <3>. QED  BY <3>1, RankedLists
  <2> HIDE DEF new, c
  <2>2. Len(new) = c
    BY <2>1, RowsMapped
  <2>. QED  BY <2>2 DEF c
<1>4. W = [b \in 1..(N + Len(new)) |->
             IF b > N THEN RowOf(p, entries[new[b - N]])
             ELSE IF b \in Kept(entries) THEN RowOf(p, entries[entry(b)])
             ELSE IF b \in Batches(p) THEN Struck(batch[b])
             ELSE batch[b]]
  BY DEF Written, RowOf, Struck, NewOnes
<1> HIDE DEF W
<1>5. DOMAIN W = 1..Size(entries) /\ Size(entries) \in Nat
  BY <1>1, <1>2, <1>3, <1>4 DEF Size
<1>6. ASSUME NEW i \in DOMAIN entries
      PROVE  W[At(entries, i)] = RowOf(p, entries[i])
  <2>1. At(entries, i) \in 1..(N + Len(new))
    BY <1>3, EntriesPlaced DEF Size
  <2>2. CASE i \in S
    <3>1. At(entries, i) = N + Rank(S, i) /\ At(entries, i) > N
      BY <1>1, <1>2, <2>2 DEF At, NewOnes
    <3>2. At(entries, i) - N = Rank(S, i)
      BY <1>1, <1>2, <2>2, <3>1
    <3>3. W[At(entries, i)] = RowOf(p, entries[new[At(entries, i) - N]])
      BY <1>4, <2>1, <3>1, Zenon
    <3>. QED  BY <1>2, <2>2, <3>2, <3>3
  <2>3. CASE i \notin S
    <3>1. At(entries, i) = entries[i].id /\ entries[i].id # None
      BY <2>3 DEF At, NewOnes
    <3>2. At(entries, i) \in Kept(entries) /\ ~(At(entries, i) > N)
      <4>1. At(entries, i) \in Kept(entries) /\ At(entries, i) \in 1..Len(batch)
        BY <3>1, EntriesPlaced
      <4>. QED  BY <1>1, <4>1
    <3>3. W[At(entries, i)] = RowOf(p, entries[entry(At(entries, i))])
      BY <1>4, <2>1, <3>2, Zenon
    <3>4. entry(At(entries, i)) = i
      <4>1. \A j \in DOMAIN entries : entries[j].id = At(entries, i) => j = i
        BY <3>1 DEF NamedOnce
      <4>. QED  BY <3>1, <4>1
    <3>. QED  BY <3>3, <3>4
  <2>. QED  BY <2>2, <2>3
<1>7. ASSUME NEW b \in 1..N, b \notin Kept(entries)
      PROVE  W[b] = IF b \in Batches(p) THEN Struck(batch[b]) ELSE batch[b]
  <2>1. b \in 1..(N + Len(new)) /\ ~(b > N)
    BY <1>1, <1>2, <1>3
  <2>. QED  BY <1>4, <1>7, <2>1
<1>8. ASSUME NEW b \in Kept(entries) PROVE \E i \in DOMAIN entries : At(entries, i) = b
  BY DEF Kept, At
<1>9. ASSUME NEW b \in 1..Size(entries) PROVE W[b] \in BatchType
  <2>1. CASE \E i \in DOMAIN entries : At(entries, i) = b
    BY <1>1, <1>6, <2>1, RowOfType
  <2>2. CASE ~\E i \in DOMAIN entries : At(entries, i) = b
    <3>1. b \in 1..N
      <4>1. ~(b > N)
        BY <2>2, EntriesPlaced
      <4>. QED  BY <1>1, <1>5, <4>1
    <3>2. b \notin Kept(entries)
      BY <1>8, <2>2
    <3>. QED  BY <1>1, <1>7, <3>1, <3>2, StruckType
  <2>. QED  BY <2>1, <2>2
<1>10. W \in Seq(BatchType) /\ Len(W) = Size(entries)
  <2>1. W = [b \in 1..Size(entries) |-> W[b]]
    BY <1>4, <1>5
  <2>2. W \in [1..Size(entries) -> BatchType]
    BY <1>9, <2>1
  <2>. QED  BY <1>5, <2>2, RowsMapped
<1>. QED
  BY <1>5, <1>6, <1>7, <1>8, <1>10 DEF W

\* The rows in force afterwards: the entries' own; other nodes keep theirs.
LEMMA WrittenInForce ==
  ASSUME IInv, NEW entries \in Seq(EntryType), NamedOnce(entries),
         NEW p \in Plans, Kept(entries) \subseteq Batches(p)
  PROVE  /\ InForce(Written(p, entries), p) = {At(entries, i) : i \in DOMAIN entries}
         /\ \A s : s # p => /\ InForce(Written(p, entries), s) = Batches(s)
                            /\ \A b \in Batches(s) : Written(p, entries)[b] = batch[b]
<1> DEFINE W == Written(p, entries)
           N == Len(batch)
<1>1. /\ N \in Nat /\ DOMAIN batch = 1..N /\ \A b \in 1..N : batch[b] \in BatchType
      /\ p \in Nat \ {0}
      /\ \A i \in DOMAIN entries : entries[i] \in EntryType
  BY RowTypes DEF IInv
<1>2. /\ DOMAIN W = 1..Size(entries)
      /\ \A i \in DOMAIN entries : W[At(entries, i)] = RowOf(p, entries[i])
      /\ \A b \in 1..N : b \notin Kept(entries) =>
           W[b] = IF b \in Batches(p) THEN Struck(batch[b]) ELSE batch[b]
      /\ \A b \in Kept(entries) : \E i \in DOMAIN entries : At(entries, i) = b
  BY WrittenRows
<1>3. /\ Size(entries) \in Nat /\ Size(entries) >= N
      /\ \A i \in DOMAIN entries : At(entries, i) \in 1..Size(entries)
      /\ \A b \in 1..Size(entries) : b > N => \E i \in DOMAIN entries : At(entries, i) = b
  BY EntriesPlaced
<1> HIDE DEF W, N
<1>4. ASSUME NEW i \in DOMAIN entries
      PROVE  /\ At(entries, i) \in DOMAIN W
             /\ W[At(entries, i)].plan = p /\ ~W[At(entries, i)].deleted
  BY <1>1, <1>2, <1>3, RowOfType
<1>5. ASSUME NEW b \in DOMAIN W, \A i \in DOMAIN entries : At(entries, i) # b
      PROVE  /\ b \in 1..N
             /\ W[b] = IF b \in Batches(p) THEN Struck(batch[b]) ELSE batch[b]
  <2>1. ~(b > N)
    BY <1>2, <1>3, <1>5
  <2>2. b \in 1..N
    BY <1>1, <1>2, <1>3, <2>1
  <2>3. b \notin Kept(entries)
    BY <1>2, <1>5
  <2>. QED  BY <1>2, <2>2, <2>3
<1>6. ASSUME NEW b \in DOMAIN W, W[b].plan = p, ~W[b].deleted
      PROVE  \E i \in DOMAIN entries : At(entries, i) = b
  <2> SUFFICES ASSUME \A i \in DOMAIN entries : At(entries, i) # b
               PROVE  FALSE
    OBVIOUS
  <2>1. b \in 1..N /\ W[b] = IF b \in Batches(p) THEN Struck(batch[b]) ELSE batch[b]
    BY <1>5
  <2>2. CASE b \in Batches(p)
    BY <1>1, <1>6, <2>1, <2>2, StruckType
  <2>3. CASE b \notin Batches(p)
    BY <1>1, <1>6, <2>1, <2>3 DEF Batches
  <2>. QED  BY <2>2, <2>3
<1>7. InForce(W, p) = {At(entries, i) : i \in DOMAIN entries}
  <2>1. \A b : b \in InForce(W, p) <=> b \in {At(entries, i) : i \in DOMAIN entries}
    BY <1>4, <1>6 DEF InForce
  <2>. QED  BY <2>1
<1>8. ASSUME NEW s, s # p, NEW b \in Batches(s)
      PROVE  b \in DOMAIN W /\ W[b] = batch[b]
  <2>1. b \in 1..N /\ batch[b].plan = s
    BY <1>1 DEF Batches
  <2>2. b \notin Batches(p) /\ b \notin Kept(entries)
    BY <1>8, <2>1 DEF Batches
  <2>3. b \in 1..Size(entries)
    BY <1>1, <1>3, <2>1
  <2>. QED  BY <1>2, <2>1, <2>2, <2>3
<1>9. ASSUME NEW s, s # p, NEW b \in InForce(W, s)
      PROVE  b \in Batches(s)
  <2>1. b \in DOMAIN W /\ W[b].plan = s /\ ~W[b].deleted
    BY DEF InForce
  <2>2. \A i \in DOMAIN entries : At(entries, i) # b
    BY <1>4, <1>9, <2>1
  <2>3. b \in 1..N /\ W[b] = IF b \in Batches(p) THEN Struck(batch[b]) ELSE batch[b]
    BY <1>5, <2>1, <2>2
  <2>4. CASE b \in Batches(p)
    BY <1>1, <2>1, <2>3, <2>4, StruckType
  <2>5. CASE b \notin Batches(p)
    BY <1>1, <2>1, <2>3, <2>5 DEF Batches
  <2>. QED  BY <2>4, <2>5
<1>10. ASSUME NEW s, s # p
       PROVE  InForce(W, s) = Batches(s) /\ \A b \in Batches(s) : W[b] = batch[b]
  <2>1. ASSUME NEW b \in Batches(s) PROVE b \in InForce(W, s)
    <3>1. b \in DOMAIN W /\ W[b] = batch[b]
      BY <1>8, <1>10, <2>1
    <3>2. batch[b].plan = s /\ ~batch[b].deleted
      BY <2>1 DEF Batches
    <3>. QED  BY <3>1, <3>2 DEF InForce
  <2>2. \A b \in InForce(W, s) : b \in Batches(s)
    BY <1>9, <1>10
  <2>3. \A b \in Batches(s) : W[b] = batch[b]
    BY <1>8, <1>10
  <2>. QED  BY <2>1, <2>2, <2>3
<1>. QED
  BY <1>7, <1>10 DEF W

\* The date and the amount of the node are those of its rows.
LEMMA WrittenSums ==
  ASSUME IInv, NEW entries \in Seq(EntryType), NamedOnce(entries), entries # <<>>,
         NEW p \in Plans, Kept(entries) \subseteq Batches(p)
  PROVE  LET W == Written(p, entries)
             own == InForce(W, p)
             due == Max({entries[i].due : i \in DOMAIN entries})
         IN /\ own # {} /\ due \in Nat
            /\ due = Max({W[b].due : b \in own})
            /\ Pieces(entries) \in Nat \ {0}
            /\ Pieces(entries) = Total([b \in DOMAIN W |-> When(b \in own, W[b].q)], Len(W))
<1> DEFINE n == Len(entries)
           k == Size(entries)
           W == Written(p, entries)
           own == InForce(W, p)
           f == [i \in 1..n |-> entries[i].q]
           g == [b \in 1..k |-> When(b \in own, W[b].q)]
           at == [i \in 1..n |-> At(entries, i)]
           dates == [i \in 1..n |-> entries[i].due]
<1>1. /\ n \in Nat \ {0} /\ DOMAIN entries = 1..n
      /\ \A i \in 1..n : entries[i] \in EntryType
  OBVIOUS
<1>2. /\ W \in Seq(BatchType) /\ Len(W) = k /\ DOMAIN W = 1..k
      /\ \A i \in 1..n : W[At(entries, i)] = RowOf(p, entries[i])
  BY <1>1, WrittenRows
<1>3. /\ k \in Nat
      /\ \A i \in 1..n : At(entries, i) \in 1..k
      /\ \A i, j \in 1..n : At(entries, i) = At(entries, j) => i = j
  BY <1>1, EntriesPlaced
<1>4. own = {At(entries, i) : i \in 1..n}
  BY <1>1, WrittenInForce
<1>5. \A i \in 1..n : /\ W[At(entries, i)].q = entries[i].q /\ entries[i].q \in Nat \ {0}
                      /\ W[At(entries, i)].due = entries[i].due /\ entries[i].due \in Nat
  <2> SUFFICES ASSUME NEW i \in 1..n
               PROVE  /\ W[At(entries, i)].q = entries[i].q /\ entries[i].q \in Nat \ {0}
                      /\ W[At(entries, i)].due = entries[i].due /\ entries[i].due \in Nat
    OBVIOUS
  <2>1. p \in Nat \ {0} /\ entries[i] \in EntryType
    BY <1>1, RowTypes DEF IInv
  <2>2. entries[i].q \in Nat \ {0} /\ entries[i].due \in Nat
    BY <2>1 DEF EntryType
  <2>3. RowOf(p, entries[i]).q = entries[i].q /\ RowOf(p, entries[i]).due = entries[i].due
    BY <2>1, RowOfType
  <2>. QED  BY <1>2, <2>2, <2>3
<1>6. \A b \in 1..k : W[b].q \in Nat
  <2>1. \A b \in 1..k : W[b] \in BatchType
    BY <1>2
  <2> HIDE DEF W, k
  <2>. QED  BY <2>1 DEF BatchType
<1> HIDE DEF n, k, W, own
<1>7. own # {}
  BY <1>1, <1>4
<1>8. {entries[i].due : i \in 1..n} = {W[b].due : b \in own}
  <2>1. \A x : x \in {entries[i].due : i \in 1..n} <=> x \in {W[b].due : b \in own}
    BY <1>4, <1>5
  <2>. QED  BY <2>1
<1>9. Max({dates[i] : i \in 1..n}) \in Nat /\ {dates[i] : i \in 1..n} = {entries[i].due : i \in 1..n}
  <2>1. dates \in [1..n -> Nat]
    BY <1>5
  <2>2. {dates[i] : i \in 1..n} = {entries[i].due : i \in 1..n}
    OBVIOUS
  <2> HIDE DEF dates
  <2>. QED  BY <1>1, <2>1, <2>2, GreatestExists
<1>10. /\ f \in [1..n -> Nat] /\ g \in [1..k -> Nat] /\ at \in [1..n -> 1..k]
  BY <1>3, <1>5, <1>6 DEF When
<1>11. /\ \A i, j \in 1..n : at[i] = at[j] => i = j
       /\ \A i \in 1..n : g[at[i]] = f[i]
       /\ \A b \in 1..k : (\A i \in 1..n : at[i] # b) => g[b] = 0
  <2>1. \A i \in 1..n : at[i] = At(entries, i)
    OBVIOUS
  <2>2. \A i, j \in 1..n : at[i] = at[j] => i = j
    BY <1>3, <2>1
  <2>3. \A b \in 1..k : g[b] = When(b \in own, W[b].q)
    OBVIOUS
  <2>4. \A i \in 1..n : f[i] = entries[i].q
    OBVIOUS
  <2> HIDE DEF at, g, f
  <2>5. \A i \in 1..n : g[at[i]] = f[i]
    BY <1>3, <1>4, <1>5, <2>1, <2>3, <2>4 DEF When
  <2>6. \A b \in 1..k : (\A i \in 1..n : at[i] # b) => g[b] = 0
    BY <1>4, <2>1, <2>3 DEF When
  <2>. QED  BY <2>2, <2>5, <2>6
<1>12. Pieces(entries) = Total(f, n)
  BY <1>1 DEF Pieces, n
<1>13. Total(f, n) = Total(g, k)
  <2>1. f \in [1..n -> Int] /\ g \in [1..k -> Int]
    BY <1>10
  <2>2. n \in Nat /\ at \in [1..n -> 1..k]
    BY <1>1, <1>10
  <2> HIDE DEF f, g, at
  <2>. QED  BY <1>3, <1>11, <2>1, <2>2, TotalMoved, Zenon
<1>14. Total(f, n) \in Nat \ {0}
  <2>1. 1 \in 1..n /\ f[1] \in Nat \ {0}
    BY <1>1, <1>5
  <2> HIDE DEF f
  <2>2. Total(f, n) \in Nat /\ f[1] <= Total(f, n)
    BY <1>1, <1>10, <2>1, TotalOfNat
  <2>. QED  BY <2>1, <2>2
<1>15. Total([b \in DOMAIN W |-> When(b \in own, W[b].q)], Len(W)) = Total(g, k)
  BY <1>2
<1> HIDE DEF f, g, at, dates
<1>16. {entries[i].due : i \in DOMAIN entries} = {entries[i].due : i \in 1..n}
  BY <1>1
<1>17. /\ own # {}
       /\ Max({entries[i].due : i \in DOMAIN entries}) \in Nat
       /\ Max({entries[i].due : i \in DOMAIN entries}) = Max({W[b].due : b \in own})
       /\ Pieces(entries) \in Nat \ {0}
       /\ Pieces(entries) = Total([b \in DOMAIN W |-> When(b \in own, W[b].q)], Len(W))
  BY <1>7, <1>8, <1>9, <1>12, <1>13, <1>14, <1>15, <1>16
<1>. QED
  BY <1>17, Zenon DEF W, own

\* Other nodes agree with the rows as before.
LEMMA OthersAgree ==
  ASSUME IInv, NEW entries \in Seq(EntryType), NEW p \in Plans, BatchesFit(p, entries),
         NEW s \in Plans, s # p
  PROVE  PlanAgrees(plan[s], Written(p, entries), s)
<1> DEFINE W == Written(p, entries)
           own == Batches(s)
           N == Len(batch)
           k == Size(entries)
           f == [b \in 1..N |-> When(b \in own, batch[b].q)]
           g == [b \in 1..k |-> When(b \in own, W[b].q)]
<1>1. /\ NamedOnce(entries) /\ Kept(entries) \subseteq Batches(p)
      /\ \A b \in UNION {Batches(u) : u \in Successors(p)} :
           batch[b].up \intersect (Batches(p) \ Kept(entries)) = {}
  BY DEF BatchesFit
<1>2. InForce(W, s) = own /\ \A b \in own : W[b] = batch[b]
  BY <1>1, WrittenInForce
<1>3. \A u : u # p => InForce(W, u) = Batches(u)
  BY <1>1, WrittenInForce
<1>4. InForce(W, p) = {At(entries, i) : i \in DOMAIN entries}
  BY <1>1, WrittenInForce
<1>5. PlanAgrees(plan[s], batch, s)
  BY DEF IInv, PlansHangTogether, PlansAgree, Plans
<1>6. InForce(batch, s) = own /\ \A u : InForce(batch, u) = Batches(u)
  BY BatchesAreInForce
<1>7. /\ N \in Nat /\ DOMAIN batch = 1..N /\ \A b \in 1..N : batch[b] \in BatchType
      /\ own \in SUBSET (1..N)
  BY RowTypes DEF IInv, Batches
<1>8. /\ W \in Seq(BatchType) /\ Len(W) = k /\ DOMAIN W = 1..k
      /\ \A b \in Kept(entries) : \E i \in DOMAIN entries : At(entries, i) = b
  BY <1>1, WrittenRows
<1>9. k \in Nat /\ k >= N
  BY <1>1, EntriesPlaced
<1>10. Kept(entries) \subseteq InForce(W, p)
  BY <1>4, <1>8
<1>11. \A b \in own : W[b].up \subseteq (IF plan[s].pred = None THEN {} ELSE InForce(W, plan[s].pred))
  <2> SUFFICES ASSUME NEW b \in own, NEW u \in W[b].up
               PROVE  plan[s].pred # None /\ u \in InForce(W, plan[s].pred)
    OBVIOUS
  <2>1. u \in batch[b].up
    BY <1>2
  <2>2. plan[s].pred # None /\ u \in Batches(plan[s].pred)
    BY <1>5, <1>6, <2>1 DEF PlanAgrees
  <2>3. CASE plan[s].pred # p
    BY <1>3, <2>2, <2>3
  <2>4. CASE plan[s].pred = p
    <3>1. b \in UNION {Batches(v) : v \in Successors(p)}
      BY <2>4 DEF Successors
    <3>2. u \notin Batches(p) \ Kept(entries)
      BY <1>1, <2>1, <3>1
    <3>. QED  BY <1>10, <2>2, <2>4, <3>2
  <2>. QED  BY <2>3, <2>4
<1>12. {W[b].due : b \in own} = {batch[b].due : b \in own}
  <2>1. \A x : x \in {W[b].due : b \in own} <=> x \in {batch[b].due : b \in own}
    BY <1>2
  <2>. QED  BY <2>1
<1> HIDE DEF W, own, N, k
<1>13. Total(f, N) = Total(g, k)
  <2> DEFINE at == [b \in 1..N |-> b]
  <2>1. f \in [1..N -> Int] /\ g \in [1..k -> Int] /\ at \in [1..N -> 1..k]
    <3>1. (\A b \in 1..N : batch[b].q \in Int) /\ (\A b \in 1..k : W[b].q \in Int)
      <4>1. \A b \in 1..k : W[b] \in BatchType
        BY <1>8
      <4>. QED  BY <1>7, <4>1 DEF BatchType
    <3>. QED  BY <1>7, <1>9, <3>1 DEF When
  <2>2. \A i \in 1..N : g[at[i]] = f[i]
    BY <1>2, <1>7, <1>9 DEF When
  <2>3. \A i, j \in 1..N : at[i] = at[j] => i = j
    OBVIOUS
  <2>4. \A b \in 1..k : (\A i \in 1..N : at[i] # b) => g[b] = 0
    <3>1. \A b \in 1..N : at[b] = b
      OBVIOUS
    <3>2. \A b \in 1..k : g[b] = When(b \in own, W[b].q)
      OBVIOUS
    <3> HIDE DEF at, g
    <3>. QED  BY <1>7, <3>1, <3>2 DEF When
  <2> HIDE DEF at, f, g
  <2>. QED  BY <1>7, <1>9, <2>1, <2>2, <2>3, <2>4, TotalMoved
<1>14. Total([b \in DOMAIN batch |-> When(b \in own, batch[b].q)], Len(batch))
         = Total([b \in DOMAIN W |-> When(b \in own, W[b].q)], Len(W))
  BY <1>7, <1>8, <1>13 DEF N
<1>15. /\ own # {} => /\ plan[s].due = Max({batch[b].due : b \in own})
                      /\ plan[s].q = Total([b \in DOMAIN batch |-> When(b \in own, batch[b].q)], Len(batch))
                      /\ plan[s].state \in {"confirmed", "revision_pending"}
       /\ ~plan[s].cancelled => Waits(plan[s])
  BY <1>5, <1>6, Zenon DEF PlanAgrees
<1> DEFINE total == Total([b \in DOMAIN W |-> When(b \in own, W[b].q)], Len(W))
<1>16. own # {} => /\ plan[s].due = Max({W[b].due : b \in own})
                   /\ plan[s].q = total
                   /\ plan[s].state \in {"confirmed", "revision_pending"}
  BY <1>12, <1>14, <1>15
<1>17. /\ \A b \in InForce(W, s) :
            W[b].up \subseteq (IF plan[s].pred = None THEN {} ELSE InForce(W, plan[s].pred))
       /\ InForce(W, s) # {} =>
            /\ plan[s].due = Max({W[b].due : b \in InForce(W, s)})
            /\ plan[s].q = Total([b \in DOMAIN W |-> When(b \in InForce(W, s), W[b].q)], Len(W))
            /\ plan[s].state \in {"confirmed", "revision_pending"}
       /\ ~plan[s].cancelled => Waits(plan[s])
  BY <1>2, <1>11, <1>15, <1>16, Zenon
<1>. QED
  BY <1>17, Zenon DEF PlanAgrees, W

IsSaved(row, r, q, due) ==
    /\ row \in PlanType /\ row.task = r.task /\ row.pred = r.pred
    /\ row.due = due /\ row.q = q /\ row.state = "confirmed" /\ row.pending = <<>>
    /\ row.version = r.version + 1 /\ row.cancelled = r.cancelled

LEMMA PlanSaved ==
  ASSUME NEW r \in PlanType, NEW q \in Nat \ {0}, NEW due \in Nat, NEW initial \in Nat
  PROVE  IsSaved(Saved(r, q, due, initial), r, q, due)
<1> DEFINE v == r.version + 1
           none == <<>>
           new == [r EXCEPT !.q = q, !.due = due, !.initial = initial,
                            !.state = "confirmed", !.pending = none, !.version = v]
<1>1. v \in Nat \ {0} /\ none \in Seq(EntryType) /\ new = Saved(r, q, due, initial)
  BY DEF PlanType, Saved
<1>0. none = <<>>
  OBVIOUS
<1> HIDE DEF v, none
<1>2. new \in PlanType
  BY <1>1 DEF PlanType
<1>3. /\ new.task = r.task /\ new.pred = r.pred
      /\ new.due = due /\ new.q = q /\ new.state = "confirmed" /\ new.pending = none
      /\ new.version = v /\ new.cancelled = r.cancelled
  BY <1>1 DEF PlanType
<1> HIDE DEF new
<1>4. IsSaved(new, r, q, due)
  BY <1>0, <1>2, <1>3 DEF v, IsSaved
<1>. QED
  BY <1>1, <1>4

\* What a save leaves: the rows of the node, and the node itself.
LEMMA SaveWrites ==
  ASSUME IInv, NEW p \in Plans, NEW entries \in Seq(EntryType), entries # <<>>,
         SaveBatches(p, entries)
  PROVE  /\ BatchesFit(p, entries) /\ batch' = Written(p, entries)
         /\ plan' \in Seq(PlanType) /\ DOMAIN plan' = DOMAIN plan
         /\ \A s \in Plans : s # p => plan'[s] = plan[s]
         /\ plan'[p].task = plan[p].task /\ plan'[p].pred = plan[p].pred
         /\ plan'[p].due = Max({entries[i].due : i \in DOMAIN entries})
         /\ plan'[p].q = Pieces(entries)
         /\ plan'[p].state = "confirmed" /\ plan'[p].pending = <<>>
         /\ plan'[p].version = plan[p].version + 1 /\ plan'[p].cancelled = plan[p].cancelled
         /\ task' = Bumped(plan[p].task)
         /\ \A key \in notices' \ notices : key[2] = p /\ key[3] = plan[p].version + 1
<1> DEFINE due == Max({entries[i].due : i \in DOMAIN entries})
           q == Pieces(entries)
           first == Batches(p) = {} /\ plan[p].state \in {"pending", "submitted"}
           initial == IF first THEN due ELSE plan[p].initial
           row == Saved(plan[p], q, due, initial)
<1>1. /\ BatchesFit(p, entries) /\ batch' = Written(p, entries)
      /\ task' = Bumped(plan[p].task)
  BY DEF SaveBatches
<1>2. due \in Nat /\ q \in Nat \ {0}
  <2>1. NamedOnce(entries) /\ Kept(entries) \subseteq Batches(p)
    BY <1>1 DEF BatchesFit
  <2>. QED  BY <2>1, WrittenSums
<1>3. plan[p] \in PlanType /\ plan \in Seq(PlanType) /\ p \in DOMAIN plan
  BY RowTypes DEF IInv, TypeOK, Plans
<1>4. plan' = [plan EXCEPT ![p] = row]
  <2>1. plan' = [plan EXCEPT ![p] = [@ EXCEPT
                    !.q = q, !.due = due, !.initial = initial,
                    !.state = "confirmed", !.pending = <<>>, !.version = plan[p].version + 1]]
    BY Zenon DEF SaveBatches
  <2> HIDE DEF q, due, initial
  <2>. QED  BY <1>3, <2>1 DEF Saved
<1>5. \A key \in notices' \ notices : key[2] = p /\ key[3] = plan[p].version + 1
  <2>1. notices' \subseteq notices \union Told(p, plan[p].version + 1, "batches")
                             \union ToldOnward(p, plan[p].version + 1, "batches")
    BY Zenon DEF SaveBatches
  <2>. QED  BY <2>1 DEF Told, ToldOnward
<1> HIDE DEF due, q
<1>6. initial \in Nat
  <2>1. plan[p].initial \in Nat
    BY <1>3 DEF PlanType
  <2>. QED  BY <1>2, <2>1
<1> HIDE DEF initial
<1>7. /\ row \in PlanType /\ row.task = plan[p].task /\ row.pred = plan[p].pred
      /\ row.due = due /\ row.q = q /\ row.state = "confirmed" /\ row.pending = <<>>
      /\ row.version = plan[p].version + 1 /\ row.cancelled = plan[p].cancelled
  <2>1. IsSaved(row, plan[p], q, due)
    BY <1>2, <1>3, <1>6, PlanSaved
  <2> HIDE DEF row
  <2>. QED  BY <2>1 DEF IsSaved
<1> HIDE DEF row
<1>8. /\ plan' \in Seq(PlanType) /\ DOMAIN plan' = DOMAIN plan
      /\ \A s \in DOMAIN plan : plan'[s] = IF s = p THEN row ELSE plan[s]
  BY <1>3, <1>4, <1>7, RowChanged
<1>. QED
  BY <1>1, <1>3, <1>5, <1>7, <1>8 DEF Plans, due, q

LEMMA SaveKeeps ==
  ASSUME IInv, NEW p \in Plans, NEW entries \in Seq(EntryType), entries # <<>>,
         SaveBatches(p, entries),
         UNCHANGED <<now, material>>, left' \in [Kinds -> Nat],
         review' \in {review, NoReview}
  PROVE  IInv'
<1> DEFINE W == Written(p, entries)
<1>1. /\ BatchesFit(p, entries) /\ batch' = W
      /\ plan' \in Seq(PlanType) /\ DOMAIN plan' = DOMAIN plan
      /\ \A s \in Plans : s # p => plan'[s] = plan[s]
      /\ plan'[p].task = plan[p].task /\ plan'[p].pred = plan[p].pred
      /\ plan'[p].due = Max({entries[i].due : i \in DOMAIN entries})
      /\ plan'[p].q = Pieces(entries)
      /\ plan'[p].state = "confirmed" /\ plan'[p].pending = <<>>
      /\ plan'[p].version = plan[p].version + 1
      /\ task' = Bumped(plan[p].task)
      /\ \A key \in notices' \ notices : key[2] = p /\ key[3] = plan[p].version + 1
  BY SaveWrites
<1>2. NamedOnce(entries) /\ Kept(entries) \subseteq Batches(p)
  BY <1>1 DEF BatchesFit
<1>3. /\ W \in Seq(BatchType) /\ DOMAIN W = 1..Size(entries)
      /\ InForce(W, p) = {At(entries, i) : i \in DOMAIN entries}
      /\ \A i \in DOMAIN entries : W[At(entries, i)] = RowOf(p, entries[i])
      /\ \A s : s # p => InForce(W, s) = Batches(s)
      /\ \A b \in Kept(entries) : \E i \in DOMAIN entries : At(entries, i) = b
  BY <1>2, WrittenRows, WrittenInForce
<1>4. /\ UNCHANGED <<now, lot, delivery>>
      /\ \A s \in Plans : plan[s] \in PlanType /\ plan[s].version \in Nat \ {0}
      /\ plan[p].task \in Tasks
      /\ Plans \subseteq Nat \ {0}
  BY RowTypes, PlanKept DEF material, IInv
<1>5. task' \in Seq(TaskType) /\ DOMAIN task' = DOMAIN task /\ DatesAgree(task')
  <2>1. task' \in Seq(TaskType) /\ Len(task') = Len(task) /\ DatesAgree(task')
    BY <1>1, <1>4, BumpedType
  <2>. QED  BY <2>1 DEF IInv, TypeOK
<1>6. /\ InForce(W, p) # {}
      /\ plan'[p].due = Max({W[b].due : b \in InForce(W, p)})
      /\ plan'[p].q = Total([b \in DOMAIN W |-> When(b \in InForce(W, p), W[b].q)], Len(W))
  BY <1>1, <1>2, WrittenSums
<1>7. \A s \in Plans : s # p => PlanAgrees(plan[s], W, s)
  BY <1>1, OthersAgree
<1>8. \A s : Batches(s)' = InForce(W, s)
  BY <1>1 DEF Batches, InForce
<1> HIDE DEF W
<1>9. KeysExist(task', plan', W, lot)
  <2>1. KeysExist(task, plan, batch, lot)
    BY DEF IInv, TypeOK
  <2>2. \A s \in DOMAIN plan : plan'[s].task = plan[s].task /\ plan'[s].pred = plan[s].pred
    BY <1>1 DEF Plans
  <2>3. ASSUME NEW b \in DOMAIN W PROVE W[b].plan \in DOMAIN plan
    <3>1. /\ \A i \in DOMAIN entries : RowOf(p, entries[i]).plan = p
          /\ \A c \in DOMAIN batch : Struck(batch[c]).plan = batch[c].plan
      <4>1. \A i \in DOMAIN entries : entries[i] \in EntryType
        OBVIOUS
      <4>2. \A c \in DOMAIN batch : batch[c] \in BatchType
        BY RowTypes DEF IInv
      <4>. QED  BY <1>4, <4>1, <4>2, RowOfType, StruckType
    <3>2. CASE \E i \in DOMAIN entries : At(entries, i) = b
      BY <1>3, <3>1, <3>2 DEF Plans
    <3>3. CASE ~\E i \in DOMAIN entries : At(entries, i) = b
      <4>1. b \in 1..Len(batch) /\ b \notin Kept(entries)
        <5>1. b \in 1..Size(entries) /\ ~(b > Len(batch))
          BY <1>2, <1>3, <3>3, EntriesPlaced
        <5>2. Len(batch) \in Nat /\ Size(entries) \in Nat
          BY <1>2, RowTypes, EntriesPlaced DEF IInv
        <5>. QED  BY <1>3, <3>3, <5>1, <5>2
      <4>2. W[b] = IF b \in Batches(p) THEN Struck(batch[b]) ELSE batch[b]
        BY <1>2, <4>1, WrittenRows DEF W
      <4>3. b \in DOMAIN batch
        BY <4>1, RowTypes DEF IInv
      <4>. QED  BY <2>1, <3>1, <4>2, <4>3 DEF KeysExist
    <3>. QED  BY <3>2, <3>3
  <2>. QED  BY <1>1, <1>5, <2>1, <2>2, <2>3 DEF KeysExist
<1>10. \A d \in DOMAIN delivery :
         /\ d \in Lots /\ delivery[d].plan \in Plans
         /\ delivery[d].batch # None => delivery[d].batch \in InForce(W, delivery[d].plan)
  <2> SUFFICES ASSUME NEW d \in DOMAIN delivery
               PROVE  /\ d \in Lots /\ delivery[d].plan \in Plans
                      /\ delivery[d].batch # None =>
                           delivery[d].batch \in InForce(W, delivery[d].plan)
    OBVIOUS
  <2>1. /\ d \in Lots /\ delivery[d].plan \in Plans
        /\ delivery[d].batch # None => delivery[d].batch \in Batches(delivery[d].plan)
    BY DEF IInv, TypeOK
  <2>2. delivery[d].batch \notin Batches(p) \ Kept(entries)
    BY <1>1 DEF BatchesFit
  <2>3. CASE delivery[d].plan # p
    BY <1>3, <2>1, <2>3
  <2>4. CASE delivery[d].plan = p
    <3>1. Kept(entries) \subseteq InForce(W, p)
      BY <1>3
    <3>. QED  BY <2>1, <2>2, <2>4, <3>1
  <2>. QED  BY <2>3, <2>4
<1>11. TypeOK'
  <2>1. DOMAIN plan' = Plans /\ Plans' = Plans /\ Lots' = Lots
    BY <1>1, <1>4 DEF Plans, Lots
  <2>2. (\A d \in DOMAIN delivery :
           /\ d \in Lots /\ delivery[d].plan \in Plans
           /\ delivery[d].batch # None => delivery[d].batch \in Batches(delivery[d].plan))'
    BY <1>4, <1>8, <1>10, <2>1
  <2>3. (\A l \in Lots : lot[l].hand <= lot[l].q)' /\ now' \in 1..MaxNow /\ lot' \in Seq(LotType)
    BY <1>4 DEF IInv, TypeOK, Lots
  <2>. QED  BY <1>1, <1>3, <1>4, <1>5, <1>9, <2>2, <2>3 DEF TypeOK
<1>12. PlanAgrees(plan'[p], W, p)
  <2>1. Waits(plan'[p])
    BY <1>1 DEF Waits
  <2>2. ASSUME NEW b \in InForce(W, p), NEW u \in W[b].up
        PROVE  plan[p].pred # None /\ u \in InForce(W, plan[p].pred)
    <3>1. PICK i \in DOMAIN entries : b = At(entries, i)
      BY <1>3
    <3>2. W[b].up = entries[i].up
      <4>1. entries[i] \in EntryType
        OBVIOUS
      <4>. QED  BY <1>3, <1>4, <3>1, <4>1, RowOfType
    <3>3. plan[p].pred # None /\ u \in Batches(plan[p].pred)
      BY <1>1, <2>2, <3>2 DEF BatchesFit
    <3>4. plan[p].pred # p
      BY <1>4 DEF IInv, TypeOK, KeysExist, Plans
    <3>. QED  BY <1>3, <3>3, <3>4
  <2>3. \A b \in InForce(W, p) :
          W[b].up \subseteq (IF plan'[p].pred = None THEN {} ELSE InForce(W, plan'[p].pred))
    BY <1>1, <2>2
  <2>. QED  BY <1>1, <1>6, <2>1, <2>3, Zenon DEF PlanAgrees
<1>13. PlansHangTogether'
  <2>1. \A s \in DOMAIN plan' : PlanAgrees(plan'[s], batch', s)
    BY <1>1, <1>7, <1>12 DEF Plans
  <2>. QED  BY <1>5, <2>1 DEF PlansHangTogether, PlansAgree
<1>14. ReviewIsOfItsRevision'
  <2>1. CASE review' = NoReview
    BY <2>1 DEF ReviewIsOfItsRevision
  <2>2. CASE review' = review /\ review # NoReview
    <3>1. /\ review.plan \in Plans /\ review.entries # <<>>
          /\ review \in [plan : Nat \ {0}, version : Nat, entries : Seq(EntryType)]
          /\ plan[review.plan].version >= review.version
          /\ plan[review.plan].version = review.version => plan[review.plan].pending = review.entries
      BY <2>2 DEF IInv, ReviewIsOfItsRevision
    <3>2. review.version \in Nat
      BY <3>1
    <3>3. /\ plan'[review.plan].version >= review.version
          /\ plan'[review.plan].version = review.version
               => plan'[review.plan].pending = review.entries
      BY <1>1, <1>4, <3>1, <3>2
    <3>. QED  BY <1>1, <2>2, <3>1, <3>3 DEF ReviewIsOfItsRevision, Plans
  <2>. QED  BY <2>1, <2>2
<1>15. NoticesAreOfThePast'
  <2> SUFFICES ASSUME NEW key \in notices', key[1] = "plan"
               PROVE  key[2] \in Plans /\ key[3] \in 1..plan'[key[2]].version
    BY <1>1 DEF NoticesAreOfThePast, Plans
  <2>1. CASE key \notin notices
    BY <1>1, <1>4, <2>1
  <2>2. CASE key \in notices
    <3>1. key[2] \in Plans /\ key[3] \in 1..plan[key[2]].version
      BY <2>2 DEF IInv, NoticesAreOfThePast
    <3>2. plan[key[2]].version \in Nat
      BY <1>4, <3>1
    <3>3. plan'[key[2]].version \in {plan[key[2]].version, plan[key[2]].version + 1}
      BY <1>1, <3>1
    <3>. QED  BY <3>1, <3>2, <3>3
  <2>. QED  BY <2>1, <2>2
<1>16. LotsAgree(lot')
  BY <1>4 DEF IInv
<1>. QED
  BY <1>11, <1>13, <1>14, <1>15, <1>16 DEF IInv

\* What a form can ask for has the columns of a request.
LEMMA RequestsType ==
  ASSUME IInv, NEW p \in Plans, NEW entries \in Requests(p)
  PROVE  entries \in Seq(EntryType) /\ entries # <<>>
<1>0. PICK form \in Forms :
        \E ids \in [DOMAIN form -> {None} \union Batches(p)], ups \in [DOMAIN form -> SUBSET Supplies(p)] :
          entries = [i \in DOMAIN form |-> Entry(ids[i], form[i].due, form[i].q, ups[i])]
  BY DEF Requests
<1>1. PICK ids \in [DOMAIN form -> {None} \union Batches(p)],
           ups \in [DOMAIN form -> SUBSET Supplies(p)] :
        entries = [i \in DOMAIN form |-> Entry(ids[i], form[i].due, form[i].q, ups[i])]
  BY <1>0
<1>2. form \in Seq([due : Nat, q : Nat \ {0}]) /\ form # <<>>
  BY FormsAssumption DEF FormsAssumption
<1>3. {None} \union Batches(p) \subseteq Nat /\ Supplies(p) \subseteq Nat
  <2>1. DOMAIN batch \subseteq Nat
    BY RowTypes DEF IInv
  <2>. QED  BY <2>1 DEF Supplies, Batches, None
<1>4. Len(form) \in Nat \ {0} /\ DOMAIN form = 1..Len(form)
  BY <1>2
<1>5. ASSUME NEW i \in 1..Len(form)
      PROVE  Entry(ids[i], form[i].due, form[i].q, ups[i]) \in EntryType
  <2>0. form[i] \in [due : Nat, q : Nat \ {0}]
    <3> DEFINE T == [due : Nat, q : Nat \ {0}]
    <3>1. form \in Seq(T)
      BY <1>2
    <3> HIDE DEF T
    <3>2. form[i] \in T
      BY <1>4, <3>1
    <3>. QED  BY <3>2 DEF T
  <2>1. form[i].due \in Nat /\ form[i].q \in Nat \ {0}
    BY <2>0
  <2>2. ids[i] \in Nat /\ ups[i] \in SUBSET Nat
    BY <1>3, <1>4
  <2>. QED  BY <2>1, <2>2 DEF Entry, EntryType
<1>6. entries \in [1..Len(form) -> EntryType]
  BY <1>1, <1>4, <1>5
<1>7. entries \in Seq(EntryType) /\ Len(entries) = Len(form)
  BY <1>4, <1>6, RowsMapped
<1>. QED
  BY <1>4, <1>7

LEMMA DispatchBatchesKeeps ==
  ASSUME IInv, NEW p \in Plans, NEW entries \in Requests(p), DispatchBatches(p, entries)
  PROVE  IInv'
<1>1. left' \in [Kinds -> Nat]
  BY SpendKeeps DEF DispatchBatches, IInv, Kinds
<1>2. entries \in Seq(EntryType) /\ entries # <<>>
  BY RequestsType
<1>. QED
  BY <1>1, <1>2, SaveKeeps DEF DispatchBatches

LEMMA ApplyReviewKeeps ==
  ASSUME IInv, ApplyReview
  PROVE  IInv'
<1>1. /\ review # NoReview /\ review' = NoReview
      /\ UNCHANGED <<now, material, left>>
  BY DEF ApplyReview
<1>2. review.plan \in Plans /\ review.entries \in Seq(EntryType) /\ review.entries # <<>>
  BY <1>1 DEF IInv, ReviewIsOfItsRevision
<1>3. CASE SaveBatches(review.plan, review.entries)
  <2>1. left' \in [Kinds -> Nat]
    BY <1>1 DEF IInv
  <2> DEFINE p == review.plan
             entries == review.entries
  <2>2. p \in Plans /\ entries \in Seq(EntryType) /\ entries # <<>> /\ SaveBatches(p, entries)
    BY <1>2, <1>3
  <2> HIDE DEF p, entries
  <2>. QED  BY <1>1, <2>1, <2>2, SaveKeeps
<1>4. CASE UNCHANGED <<books, notices>>
  <2>1. UNCHANGED <<now, task, plan, batch, lot, delivery, notices, left>>
    BY <1>1, <1>4 DEF books, material
  <2>2. TypeOK'
    BY <2>1 DEF IInv, TypeOK, Batches, Plans, Lots
  <2>3. ReviewIsOfItsRevision' /\ NoticesAreOfThePast'
    BY <1>1, <2>1 DEF IInv, ReviewIsOfItsRevision, NoticesAreOfThePast, Plans
  <2>. QED  BY <2>1, <2>2, <2>3 DEF IInv, PlansHangTogether
<1>. QED
  BY <1>3, <1>4 DEF ApplyReview

-----------------------------------------------------------------------------
(* The material: what is taken from a lot becomes another.                  *)

LEMMA LotColumns ==
  ASSUME NEW row \in LotType
  PROVE  row.hand \in Nat /\ row.q \in Nat \ {0} /\ row.src \in Nat
BY DEF LotType

SourcesExist(lots) ==
    \A d \in DOMAIN lots : /\ lots[d].src \in 0..(d - 1)
                           /\ lots[d].status = "pending" => lots[d].src # None

Column(lots, k) ==
    [d \in DOMAIN lots |-> When(lots[d].src = k /\ lots[d].status # "voided", lots[d].q)]

LEMMA ColumnType ==
  ASSUME NEW lots \in Seq(LotType), NEW k
  PROVE  /\ Len(lots) \in Nat /\ DOMAIN lots = 1..Len(lots)
         /\ Column(lots, k) \in [1..Len(lots) -> Nat]
         /\ Column(lots, k) \in [1..Len(lots) -> Int]
         /\ Taken(lots, k) = Total(Column(lots, k), Len(lots))
         /\ Taken(lots, k) \in Nat
         /\ \A d \in DOMAIN lots :
              Column(lots, k)[d] = When(lots[d].src = k /\ lots[d].status # "voided", lots[d].q)
<1>1. Len(lots) \in Nat /\ DOMAIN lots = 1..Len(lots)
  OBVIOUS
<1>2. \A d \in 1..Len(lots) : lots[d].q \in Nat
  <2>1. \A d \in 1..Len(lots) : lots[d] \in LotType
    OBVIOUS
  <2>. QED  BY <2>1 DEF LotType
<1>3. Column(lots, k) \in [1..Len(lots) -> Nat]
  BY <1>1, <1>2 DEF Column, When
<1>4. Taken(lots, k) = Total(Column(lots, k), Len(lots))
  BY DEF Taken, Column
<1>5. \A d \in DOMAIN lots :
        Column(lots, k)[d] = When(lots[d].src = k /\ lots[d].status # "voided", lots[d].q)
  BY DEF Column
<1> DEFINE c == Column(lots, k)
           n == Len(lots)
<1> HIDE DEF c, n
<1>6. Total(c, n) \in Nat
  <2>1. n \in Nat /\ c \in [1..n -> Nat]
    BY <1>1, <1>3 DEF c, n
  <2>. QED  BY <2>1, TotalOfNat
<1>7. c \in [1..n -> Int]
  BY <1>3 DEF c, n
<1>. QED
  BY <1>1, <1>3, <1>4, <1>5, <1>6, <1>7 DEF c, n

\* A document or a lot is cut from lot l.
LEMMA LotAdded ==
  ASSUME NEW lots \in Seq(LotType), LotsAgree(lots), SourcesExist(lots),
         NEW l \in DOMAIN lots, NEW n \in Nat \ {0}, n <= lots[l].hand,
         NEW e \in LotType, e.src = l, e.q = n, e.status \in {"pending", "received"},
         e.hand = When(e.status = "received", n),
         NEW new \in Seq(LotType), DOMAIN new = 1..(Len(lots) + 1), new[Len(lots) + 1] = e,
         \A d \in DOMAIN lots :
           /\ new[d].src = lots[d].src /\ new[d].status = lots[d].status /\ new[d].q = lots[d].q
           /\ new[d].hand = IF d = l THEN lots[d].hand - n ELSE lots[d].hand
  PROVE  LotsAgree(new) /\ SourcesExist(new)
<1> DEFINE N == Len(lots)
           m == N + 1
<1>1. /\ N \in Nat /\ DOMAIN lots = 1..N /\ DOMAIN new = 1..m /\ m \in Nat
      /\ Len(new) = m /\ m \in 1..m
      /\ l \in 1..N /\ \A d \in 1..m : d = m \/ d \in 1..N
      /\ 1..N \subseteq 1..m /\ m \notin 1..N
  OBVIOUS
<1>2. /\ \A d \in 1..N : lots[d] \in LotType
      /\ \A d \in 1..N : lots[d].hand \in Nat /\ lots[d].q \in Nat
  <2>1. \A d \in 1..N : lots[d] \in LotType
    BY <1>1
  <2>. QED  BY <2>1 DEF LotType
<1>3. new[m] = e
  OBVIOUS
<1> HIDE DEF N, m
<1>4. SourcesExist(new)
  <2> SUFFICES ASSUME NEW d \in 1..m
               PROVE  new[d].src \in 0..(d - 1) /\ (new[d].status = "pending" => new[d].src # None)
    BY <1>1 DEF SourcesExist
  <2>1. CASE d \in 1..N
    BY <1>1, <2>1 DEF SourcesExist
  <2>2. CASE d = m
    <3>1. l \in 0..(m - 1) /\ l # None
      BY <1>1 DEF None, m
    <3>. QED  BY <1>3, <2>2, <3>1
  <2>. QED  BY <1>1, <2>1, <2>2
<1>5. ASSUME NEW k
      PROVE  Taken(new, k) = Total(Column(new, k), m) /\ Column(new, k) \in [1..m -> Int]
             /\ \A d \in 1..m : Column(new, k)[d] = When(new[d].src = k /\ new[d].status # "voided", new[d].q)
  <2>1. /\ Taken(new, k) = Total(Column(new, k), Len(new))
        /\ Column(new, k) \in [1..Len(new) -> Int]
        /\ \A d \in DOMAIN new :
             Column(new, k)[d] = When(new[d].src = k /\ new[d].status # "voided", new[d].q)
    BY ColumnType
  <2>. QED  BY <1>1, <2>1, Zenon
<1>6. ASSUME NEW k
      PROVE  /\ Taken(lots, k) = Total(Column(lots, k), N) /\ Column(lots, k) \in [1..N -> Int]
             /\ Taken(lots, k) \in Nat
             /\ \A d \in 1..N : Column(lots, k)[d] = When(lots[d].src = k /\ lots[d].status # "voided", lots[d].q)
  BY <1>1, ColumnType DEF N
<1>7. ASSUME NEW k \in 1..N PROVE Taken(new, k) = Taken(lots, k) + When(k = l, n)
  <2> DEFINE f == Column(new, k)
             g == Column(lots, k)
  <2>1. f \in [1..m -> Int] /\ g \in [1..N -> Int]
    BY <1>5, <1>6
  <2>2. \A d \in 1..N : f[d] = g[d]
    <3>4. \A d \in 1..m : f[d] = When(new[d].src = k /\ new[d].status # "voided", new[d].q)
      BY <1>5, Zenon
    <3>5. \A d \in 1..N : g[d] = When(lots[d].src = k /\ lots[d].status # "voided", lots[d].q)
      BY <1>6, Zenon
    <3>6. \A d \in 1..N : d \in 1..m
      BY <1>1
    <3>1. \A d \in 1..N : /\ f[d] = When(new[d].src = k /\ new[d].status # "voided", new[d].q)
                          /\ g[d] = When(lots[d].src = k /\ lots[d].status # "voided", lots[d].q)
      BY <3>4, <3>5, <3>6, Zenon
    <3> HIDE DEF f, g
    <3>2. \A d \in 1..N : new[d].src = lots[d].src /\ new[d].status = lots[d].status /\ new[d].q = lots[d].q
      BY <1>1
    <3>. QED  BY <3>1, <3>2 DEF When
  <2>3. f[m] = When(l = k, n)
    BY <1>1, <1>3, <1>5 DEF When
  <2>4. Taken(new, k) = Total(f, m) /\ Taken(lots, k) = Total(g, N)
    BY <1>5, <1>6
  <2> HIDE DEF f, g
  <2>5. Total(f, m) = Total(g, N) + f[m]
    <3>1. f \in [1..(N + 1) -> Int] /\ \A i \in 1..N : f[i] = g[i]
      BY <2>1, <2>2 DEF m
    <3>2. Total(f, N + 1) = Total(g, N) + f[N + 1]
      <4>1. N \in Nat /\ g \in [1..N -> Int]
        BY <1>1, <2>1
      <4>. QED  BY <3>1, <4>1, TotalExtended
    <3>. QED  BY <3>2 DEF m
  <2>. QED  BY <2>3, <2>4, <2>5
<1>8. Taken(new, m) = 0
  <2> DEFINE f == Column(new, m)
  <2>1. f \in [1..m -> Int] /\ Taken(new, m) = Total(f, m)
    BY <1>5
  <2>2. \A d \in 1..m : f[d] = 0
    <3> SUFFICES ASSUME NEW d \in 1..m PROVE new[d].src # m
      BY <1>5 DEF When
    <3>1. new[d].src \in 0..(d - 1)
      BY <1>1, <1>4 DEF SourcesExist
    <3>. QED  BY <1>1, <3>1
  <2> HIDE DEF f
  <2>. QED  BY <1>1, <2>1, <2>2, TotalOfZeros
<1>9. ASSUME NEW k \in 1..m
      PROVE  new[k].hand + Taken(new, k) = When(new[k].status = "received", new[k].q)
  <2>1. CASE k = m
    BY <1>3, <1>8, <2>1 DEF When
  <2>2. CASE k \in 1..N
    <3>1. lots[k].hand + Taken(lots, k) = When(lots[k].status = "received", lots[k].q)
      BY <1>1, <2>2 DEF LotsAgree
    <3>2. /\ new[k].status = lots[k].status /\ new[k].q = lots[k].q
          /\ new[k].hand = IF k = l THEN lots[k].hand - n ELSE lots[k].hand
      BY <1>1, <2>2
    <3>3. Taken(new, k) = Taken(lots, k) + When(k = l, n) /\ Taken(lots, k) \in Nat
      BY <1>6, <1>7, <2>2
    <3>4. lots[k].hand \in Nat
      BY <1>2, <2>2
    <3>5. new[k].hand + Taken(new, k) = lots[k].hand + Taken(lots, k)
      BY <3>2, <3>3, <3>4 DEF When
    <3>. QED  BY <3>1, <3>2, <3>5
  <2>. QED  BY <1>1, <2>1, <2>2
<1>. QED
  BY <1>1, <1>4, <1>9 DEF LotsAgree

\* A document that waits arrives, or a lot's work is written down.
LEMMA LotMarked ==
  ASSUME NEW lots \in Seq(LotType), LotsAgree(lots), SourcesExist(lots),
         NEW l \in DOMAIN lots, NEW new \in Seq(LotType), DOMAIN new = DOMAIN lots,
         \A d \in DOMAIN lots : d # l => new[d] = lots[d],
         new[l].src = lots[l].src, new[l].q = lots[l].q,
         \/ new[l].status = lots[l].status /\ new[l].hand = lots[l].hand
         \/ /\ lots[l].status = "pending" /\ new[l].status \in {"received", "dispatched"}
            /\ new[l].hand = When(new[l].status = "received", lots[l].q)
  PROVE  LotsAgree(new) /\ SourcesExist(new)
<1> DEFINE N == Len(lots)
<1>1. N \in Nat /\ DOMAIN lots = 1..N /\ DOMAIN new = 1..N /\ l \in 1..N /\ Len(new) = N
  OBVIOUS
<1>2. \A d \in 1..N : lots[d].hand \in Nat
  <2>1. \A d \in 1..N : lots[d] \in LotType
    BY <1>1
  <2>. QED  BY <2>1 DEF LotType
<1> HIDE DEF N
<1>3. SourcesExist(new)
  BY <1>1 DEF SourcesExist
<1>4. ASSUME NEW k PROVE Taken(new, k) = Taken(lots, k) /\ Taken(lots, k) \in Nat
  <2> DEFINE f == Column(new, k)
             g == Column(lots, k)
  <2>1. /\ f \in [1..N -> Int] /\ g \in [1..N -> Int]
        /\ Taken(new, k) = Total(f, N) /\ Taken(lots, k) = Total(g, N)
        /\ Taken(lots, k) \in Nat
        /\ \A d \in 1..N : f[d] = When(new[d].src = k /\ new[d].status # "voided", new[d].q)
        /\ \A d \in 1..N : g[d] = When(lots[d].src = k /\ lots[d].status # "voided", lots[d].q)
    BY <1>1, ColumnType DEF N
  <2> HIDE DEF f, g
  <2>2. \A d \in 1..N : f[d] = g[d]
    <3>1. \A d \in 1..N : /\ new[d].src = lots[d].src /\ new[d].q = lots[d].q
                          /\ (new[d].status # "voided") = (lots[d].status # "voided")
      BY <1>1
    <3>. QED  BY <2>1, <3>1 DEF When
  <2>. QED  BY <1>1, <2>1, <2>2, TotalAgrees
<1>5. ASSUME NEW k \in 1..N
      PROVE  new[k].hand + Taken(new, k) = When(new[k].status = "received", new[k].q)
  <2>1. lots[k].hand + Taken(lots, k) = When(lots[k].status = "received", lots[k].q)
    BY <1>1 DEF LotsAgree
  <2>2. Taken(new, k) = Taken(lots, k) /\ Taken(lots, k) \in Nat /\ lots[k].hand \in Nat
    BY <1>2, <1>4
  <2>3. CASE k # l \/ (new[l].status = lots[l].status /\ new[l].hand = lots[l].hand)
    BY <1>1, <2>1, <2>2, <2>3
  <2>4. CASE /\ k = l /\ lots[l].status = "pending" /\ new[l].status \in {"received", "dispatched"}
             /\ new[l].hand = When(new[l].status = "received", lots[l].q)
    <3>1. Taken(lots, k) = 0
      BY <2>1, <2>2, <2>4 DEF When
    <3>2. new[k].hand \in Int
      <4>1. new[k] \in LotType
        <5>1. \A i \in DOMAIN new : new[i] \in LotType
          OBVIOUS
        <5>. QED  BY <1>1, <5>1, Zenon
      <4>. QED  BY <4>1, LotColumns
    <3>. QED  BY <2>2, <2>4, <3>1, <3>2 DEF When
  <2>. QED  BY <2>3, <2>4
<1>. QED
  BY <1>1, <1>3, <1>5 DEF LotsAgree

\* A document that waits is voided: its pieces return to the lot they were taken from.
LEMMA LotReturned ==
  ASSUME NEW lots \in Seq(LotType), LotsAgree(lots), SourcesExist(lots),
         NEW d \in DOMAIN lots, lots[d].status = "pending",
         NEW new \in Seq(LotType), DOMAIN new = DOMAIN lots,
         \A k \in DOMAIN lots :
           /\ new[k].src = lots[k].src /\ new[k].q = lots[k].q
           /\ new[k].status = IF k = d THEN "voided" ELSE lots[k].status
           /\ new[k].hand = IF k = lots[d].src THEN lots[k].hand + lots[d].q ELSE lots[k].hand
  PROVE  LotsAgree(new) /\ SourcesExist(new)
<1> DEFINE N == Len(lots)
           s == lots[d].src
           q == lots[d].q
<1>1. N \in Nat /\ DOMAIN lots = 1..N /\ DOMAIN new = 1..N /\ d \in 1..N /\ Len(new) = N
  OBVIOUS
<1>2. (\A k \in 1..N : lots[k].hand \in Nat) /\ q \in Nat
  <2>1. \A k \in 1..N : lots[k] \in LotType
    BY <1>1
  <2>. QED  BY <1>1, <2>1 DEF LotType
<1>3. s \in 1..N /\ s # d
  BY <1>1 DEF SourcesExist, None
<1>4. SourcesExist(new)
  BY <1>1 DEF SourcesExist
<1> HIDE DEF N, s, q
<1>5. ASSUME NEW k \in 1..N
      PROVE  Taken(lots, k) = Taken(new, k) + When(k = s, q)
             /\ Taken(lots, k) \in Nat /\ Taken(new, k) \in Nat
  <2> DEFINE f == Column(new, k)
             g == Column(lots, k)
             e == [i \in 1..N |-> IF i = d THEN When(k = s, q) ELSE 0]
  <2>1. /\ f \in [1..N -> Int] /\ g \in [1..N -> Int]
        /\ Taken(new, k) = Total(f, N) /\ Taken(lots, k) = Total(g, N)
        /\ Taken(lots, k) \in Nat /\ Taken(new, k) \in Nat
        /\ \A i \in 1..N : f[i] = When(new[i].src = k /\ new[i].status # "voided", new[i].q)
        /\ \A i \in 1..N : g[i] = When(lots[i].src = k /\ lots[i].status # "voided", lots[i].q)
    BY <1>1, ColumnType DEF N
  <2>2. e \in [1..N -> Int] /\ \A i \in 1..N : e[i] = IF i = d THEN When(k = s, q) ELSE 0
    BY <1>2 DEF When
  <2> HIDE DEF f, g, e
  <2>3. ASSUME NEW i \in 1..N PROVE g[i] = f[i] + e[i]
    <3>1. f[i] \in Int /\ g[i] \in Int
      BY <2>1
    <3>2. CASE i # d
      <4>1. new[i].src = lots[i].src /\ new[i].q = lots[i].q /\ new[i].status = lots[i].status
        BY <1>1, <3>2
      <4>. QED  BY <2>1, <2>2, <3>1, <3>2, <4>1
    <3>3. CASE i = d
      <4>1. new[i].status = "voided" /\ lots[i].status = "pending"
        BY <1>1, <3>3
      <4>2. f[i] = 0 /\ g[i] = When(k = s, q) /\ e[i] = When(k = s, q)
        BY <2>1, <2>2, <3>3, <4>1 DEF When, s, q
      <4>. QED  BY <3>1, <4>2
    <3>. QED  BY <3>2, <3>3
  <2>4. Total(g, N) = Total(f, N) + Total(e, N)
    <3>1. N \in Nat /\ f \in [1..N -> Int] /\ g \in [1..N -> Int] /\ e \in [1..N -> Int]
      BY <1>1, <2>1, <2>2
    <3>2. \A i \in 1..N : g[i] = f[i] + e[i]
      BY <2>3
    <3>. QED  BY ONLY <3>1, <3>2, TotalAdds
  <2>5. Total(e, N) = e[d]
    BY <1>1, <2>2, TotalOfOne
  <2>. QED  BY <1>1, <2>1, <2>2, <2>4, <2>5
<1>6. ASSUME NEW k \in 1..N
      PROVE  new[k].hand + Taken(new, k) = When(new[k].status = "received", new[k].q)
  <2>1. lots[k].hand + Taken(lots, k) = When(lots[k].status = "received", lots[k].q)
    BY <1>1 DEF LotsAgree
  <2>2. /\ new[k].q = lots[k].q /\ new[k].status = (IF k = d THEN "voided" ELSE lots[k].status)
        /\ new[k].hand = IF k = s THEN lots[k].hand + q ELSE lots[k].hand
    BY <1>1 DEF s, q
  <2>3. new[k].hand + Taken(new, k) = lots[k].hand + Taken(lots, k)
    BY <1>2, <1>5, <2>2 DEF When
  <2>. QED  BY <2>1, <2>2, <2>3 DEF When
<1>. QED
  BY <1>1, <1>4, <1>6 DEF LotsAgree

LEMMA LotsNow ==
  ASSUME IInv
  PROVE  /\ lot \in Seq(LotType) /\ DOMAIN lot = Lots /\ LotsAgree(lot) /\ SourcesExist(lot)
         /\ Len(lot) \in Nat /\ Lots = 1..Len(lot)
         /\ \A l \in Lots : lot[l] \in LotType
         /\ now \in Nat \ {0}
BY RowTypes, FormsAssumption DEF IInv, TypeOK, KeysExist, SourcesExist, Lots, FormsAssumption

\* The material moves: the books, the notices and the review stay.
LEMMA MaterialKeeps ==
  ASSUME IInv, lot' \in Seq(LotType), LotsAgree(lot'), SourcesExist(lot'),
         (\A d \in DOMAIN delivery :
            /\ d \in Lots /\ delivery[d].plan \in Plans
            /\ delivery[d].batch # None => delivery[d].batch \in Batches(delivery[d].plan))',
         UNCHANGED <<now, books, notices, review>>, Spend("move")
  PROVE  IInv'
<1>1. UNCHANGED <<now, task, plan, batch, notices, review>>
  BY DEF books
<1>2. left' \in [Kinds -> Nat]
  BY SpendKeeps DEF IInv, Kinds
<1>3. KeysExist(task', plan', batch', lot')
  BY <1>1 DEF IInv, TypeOK, KeysExist, SourcesExist
<1>4. \A l \in DOMAIN lot' : lot'[l].hand <= lot'[l].q
  <2> SUFFICES ASSUME NEW l \in DOMAIN lot' PROVE lot'[l].hand <= lot'[l].q
    OBVIOUS
  <2>1. lot'[l] \in LotType
    OBVIOUS
  <2>2. lot'[l].hand \in Nat /\ lot'[l].q \in Nat
    BY <2>1, LotColumns
  <2>3. Taken(lot', l) \in Nat
    BY ColumnType
  <2>4. lot'[l].hand + Taken(lot', l) = When(lot'[l].status = "received", lot'[l].q)
    BY DEF LotsAgree
  <2>. QED  BY <2>2, <2>3, <2>4 DEF When
<1>5. TypeOK'
  BY <1>1, <1>3, <1>4 DEF IInv, TypeOK, Lots
<1>6. ReviewIsOfItsRevision' /\ NoticesAreOfThePast'
  BY <1>1 DEF IInv, ReviewIsOfItsRevision, NoticesAreOfThePast, Plans
<1>. QED
  BY <1>1, <1>2, <1>5, <1>6 DEF IInv, PlansHangTogether

\* Nothing is booked while the table of lots only grows.
LEMMA BookingsStay ==
  ASSUME IInv, DOMAIN lot \subseteq DOMAIN lot', UNCHANGED <<books, delivery>>
  PROVE  (\A d \in DOMAIN delivery :
            /\ d \in Lots /\ delivery[d].plan \in Plans
            /\ delivery[d].batch # None => delivery[d].batch \in Batches(delivery[d].plan))'
BY DEF IInv, TypeOK, books, Lots, Plans, Batches

LEMMA ReceiveKeeps ==
  ASSUME IInv, NEW l \in Lots, Receive(l)
  PROVE  IInv'
<1> DEFINE sent == [lot[l] EXCEPT !.status = "dispatched", !.at = now]
           here == [lot[l] EXCEPT !.status = "received", !.hand = lot[l].q]
           row == IF lot[l].kind = "shipment" THEN sent ELSE here
<1>1. /\ lot \in Seq(LotType) /\ l \in DOMAIN lot /\ LotsAgree(lot) /\ SourcesExist(lot)
      /\ lot[l] \in LotType /\ now \in Nat \ {0}
  BY LotsNow
<1>2. lot[l].status = "pending" /\ Spend("move") /\ UNCHANGED <<now, books, delivery, notices, review>>
  BY DEF Receive
<1>3. lot' = [lot EXCEPT ![l] = row]
  BY <1>1 DEF Receive
<1>4. lot[l].q \in Nat \ {0} /\ lot[l].hand \in Nat
  BY <1>1, LotColumns
<1>5. /\ sent \in LotType /\ sent.src = lot[l].src /\ sent.q = lot[l].q
      /\ sent.status = "dispatched" /\ sent.hand = lot[l].hand
  BY <1>1 DEF LotType
<1>6. /\ here \in LotType /\ here.src = lot[l].src /\ here.q = lot[l].q
      /\ here.status = "received" /\ here.hand = lot[l].q
  BY <1>1, <1>4 DEF LotType
<1>7. lot[l].hand = 0
  <2>1. lot[l].hand + Taken(lot, l) = When(lot[l].status = "received", lot[l].q)
    BY <1>1 DEF LotsAgree
  <2>2. Taken(lot, l) \in Nat
    BY <1>1, ColumnType
  <2>. QED  BY <1>2, <1>4, <2>1, <2>2 DEF When
<1> HIDE DEF sent, here
<1>8. /\ row \in LotType /\ row.src = lot[l].src /\ row.q = lot[l].q
      /\ row.status \in {"received", "dispatched"}
      /\ row.hand = When(row.status = "received", lot[l].q)
  BY <1>5, <1>6, <1>7 DEF When
<1> HIDE DEF row
<1>9. /\ lot' \in Seq(LotType) /\ DOMAIN lot' = DOMAIN lot /\ lot'[l] = row
      /\ \A d \in DOMAIN lot : d # l => lot'[d] = lot[d]
  BY <1>1, <1>3, <1>8, RowChanged
<1>10. LotsAgree(lot') /\ SourcesExist(lot')
  <2> DEFINE new == lot'
  <2>1. /\ new \in Seq(LotType) /\ DOMAIN new = DOMAIN lot
        /\ \A d \in DOMAIN lot : d # l => new[d] = lot[d]
        /\ new[l].src = lot[l].src /\ new[l].q = lot[l].q
        /\ lot[l].status = "pending" /\ new[l].status \in {"received", "dispatched"}
        /\ new[l].hand = When(new[l].status = "received", lot[l].q)
    BY <1>2, <1>8, <1>9
  <2> HIDE DEF new
  <2>2. LotsAgree(new) /\ SourcesExist(new)
    BY <1>1, <2>1, LotMarked
  <2>. QED  BY <2>2 DEF new
<1>11. (\A d \in DOMAIN delivery :
            /\ d \in Lots /\ delivery[d].plan \in Plans
            /\ delivery[d].batch # None => delivery[d].batch \in Batches(delivery[d].plan))'
  BY <1>2, <1>9, BookingsStay
<1>. QED
  BY <1>2, <1>9, <1>10, <1>11, MaterialKeeps

LEMMA VoidKeeps ==
  ASSUME IInv, NEW d \in Lots, Void(d)
  PROVE  IInv'
<1> DEFINE s == lot[d].src
           gone == [lot[d] EXCEPT !.status = "voided"]
           back == [lot[s] EXCEPT !.hand = lot[s].hand + lot[d].q]
<1>1. /\ lot \in Seq(LotType) /\ d \in DOMAIN lot /\ LotsAgree(lot) /\ SourcesExist(lot)
      /\ \A l \in DOMAIN lot : lot[l] \in LotType /\ l \in Nat
      /\ DOMAIN lot = 1..Len(lot) /\ Len(lot) \in Nat
  BY LotsNow
<1>2. lot[d].status = "pending" /\ Spend("move") /\ UNCHANGED <<now, books, delivery, notices, review>>
  BY DEF Void
<1>3. s \in DOMAIN lot /\ s # d
  BY <1>1, <1>2 DEF SourcesExist, None
<1>4. lot' = [[lot EXCEPT ![d] = gone] EXCEPT ![s] = back]
  BY <1>1, <1>3 DEF Void
<1>5. lot[d].q \in Nat \ {0} /\ lot[s].hand \in Nat
  BY <1>1, <1>3, LotColumns
<1>6. /\ gone \in LotType /\ gone.src = lot[d].src /\ gone.q = lot[d].q
      /\ gone.status = "voided" /\ gone.hand = lot[d].hand
  <2>1. lot[d] \in LotType
    BY <1>1
  <2>. QED  BY <2>1 DEF LotType
<1>7. /\ back \in LotType /\ back.src = lot[s].src /\ back.q = lot[s].q
      /\ back.status = lot[s].status /\ back.hand = lot[s].hand + lot[d].q
  <2>1. lot[s] \in LotType /\ lot[s].hand + lot[d].q \in Nat
    BY <1>1, <1>3, <1>5
  <2>. QED  BY <2>1 DEF LotType
<1> HIDE DEF gone, back, s
<1>8. /\ [lot EXCEPT ![d] = gone] \in Seq(LotType)
      /\ DOMAIN [lot EXCEPT ![d] = gone] = DOMAIN lot
      /\ \A k \in DOMAIN lot : [lot EXCEPT ![d] = gone][k] = IF k = d THEN gone ELSE lot[k]
  BY <1>1, <1>6, RowChanged
<1>9. /\ lot' \in Seq(LotType) /\ DOMAIN lot' = DOMAIN lot
      /\ \A k \in DOMAIN lot : lot'[k] = IF k = s THEN back ELSE IF k = d THEN gone ELSE lot[k]
  <2> DEFINE mid == [lot EXCEPT ![d] = gone]
  <2>1. mid \in Seq(LotType) /\ DOMAIN mid = DOMAIN lot /\ lot' = [mid EXCEPT ![s] = back]
        /\ \A k \in DOMAIN lot : mid[k] = IF k = d THEN gone ELSE lot[k]
    BY <1>4, <1>8
  <2> HIDE DEF mid
  <2>2. /\ lot' \in Seq(LotType) /\ DOMAIN lot' = DOMAIN mid
        /\ \A k \in DOMAIN mid : lot'[k] = IF k = s THEN back ELSE mid[k]
    BY <1>3, <1>7, <2>1, RowChanged
  <2>. QED  BY <2>1, <2>2
<1>10. LotsAgree(lot') /\ SourcesExist(lot')
  <2> DEFINE new == lot'
  <2>1. /\ new \in Seq(LotType) /\ DOMAIN new = DOMAIN lot
        /\ \A k \in DOMAIN lot :
             /\ new[k].src = lot[k].src /\ new[k].q = lot[k].q
             /\ new[k].status = IF k = d THEN "voided" ELSE lot[k].status
             /\ new[k].hand = IF k = lot[d].src THEN lot[k].hand + lot[d].q ELSE lot[k].hand
    BY <1>3, <1>6, <1>7, <1>9 DEF s
  <2> HIDE DEF new
  <2>2. LotsAgree(new) /\ SourcesExist(new)
    BY <1>1, <1>2, <2>1, LotReturned
  <2>. QED  BY <2>2 DEF new
<1>11. (\A e \in DOMAIN delivery :
            /\ e \in Lots /\ delivery[e].plan \in Plans
            /\ delivery[e].batch # None => delivery[e].batch \in Batches(delivery[e].plan))'
  BY <1>2, <1>9, BookingsStay
<1>. QED
  BY <1>2, <1>9, <1>10, <1>11, MaterialKeeps

LEMMA ChooseGives ==
  ASSUME NEW S, NEW named, NEW x \in Choose(S, named)
  PROVE  x = None \/ x \in S
BY DEF Choose

LEMMA StepsAreSteps ==
  ASSUME NEW s \in Nat
  PROVE  NextStep(s) \in Nat
BY FormsAssumption DEF NextStep, None, FormsAssumption

\* A row that is cut from a lot: sent to a team, or made of it where it is.
DocumentType ==
    [src : Nat, from : Teams \union {Outside, None}, team : Teams \union {Outside},
     kind : {"receipt", "output", "transfer", "shipment"}, q : Nat, hand : Nat,
     status : {"pending", "received", "dispatched", "voided"}, routed : BOOLEAN,
     step : Nat, done : BOOLEAN, sent : {"none", "complete", "unregistered"},
     sentStep : Nat, bound : Nat, at : Nat \ {0}]
SentRow(r, team, kind, n, step, done, sent, sentStep) ==
    [r EXCEPT !.team = team, !.q = n, !.status = "pending", !.kind = kind,
              !.step = step, !.done = done, !.sent = sent, !.sentStep = sentStep]
MadeRow(r, n, step, done, bound) ==
    [r EXCEPT !.q = n, !.hand = n, !.step = step, !.done = done, !.bound = bound]
LeftRow(r, n, done, bound) ==
    [r EXCEPT !.q = n, !.hand = n, !.done = done, !.bound = bound]
CutFrom(lots, l, n, e) == Append([lots EXCEPT ![l].hand = @ - n], e)
IsDocument(e, src, n, status, hand) ==
    e \in LotType /\ e.src = src /\ e.q = n /\ e.status = status /\ e.hand = hand
AreCut(new, lots, l, n, e) ==
    /\ new \in Seq(LotType) /\ DOMAIN new = 1..(Len(lots) + 1)
    /\ LotsAgree(new) /\ SourcesExist(new)
    /\ new[l].hand = lots[l].hand - n /\ new[Len(lots) + 1] = e
    /\ \A d \in DOMAIN lots : d # l => new[d] = lots[d]
    /\ new[l] = [lots[l] EXCEPT !.hand = @ - n]

LEMMA DocumentTyped ==
  ASSUME IInv, NEW l \in Lots
  PROVE  /\ Document(l) \in DocumentType
         /\ Document(l).src = l /\ Document(l).status = "received" /\ Document(l).hand = 0
         /\ Document(l).step = lot[l].step
<1>1. lot[l] \in LotType /\ now \in Nat \ {0} /\ l \in Nat
  BY LotsNow
<1>2. /\ lot[l].team \in Teams \union {Outside} /\ lot[l].routed \in BOOLEAN
      /\ lot[l].step \in Nat
  BY <1>1 DEF LotType
<1> DEFINE team == lot[l].team
           routed == lot[l].routed
           step == lot[l].step
           none == None
<1>3. none \in Nat
  BY DEF None
<1> HIDE DEF team, routed, step, none
<1> DEFINE e == [src |-> l, from |-> team, team |-> team, kind |-> "output",
                 q |-> 0, hand |-> 0, status |-> "received", routed |-> routed,
                 step |-> step, done |-> FALSE, sent |-> "none", sentStep |-> none,
                 bound |-> none, at |-> now]
<1>4. e \in DocumentType
  BY <1>1, <1>2, <1>3 DEF DocumentType, team, routed, step
<1>5. e.src = l /\ e.status = "received" /\ e.hand = 0 /\ e.step = step
  OBVIOUS
<1>6. Document(l) = e
  BY DEF Document, team, routed, step, none
<1> HIDE DEF e
<1>. QED
  BY <1>4, <1>5, <1>6 DEF step

LEMMA SentType ==
  ASSUME NEW r \in DocumentType,
         NEW team \in Teams \union {Outside}, NEW kind \in {"transfer", "shipment"},
         NEW n \in Nat \ {0}, NEW step \in Nat, NEW done \in BOOLEAN,
         NEW sent \in {"none", "complete", "unregistered"}, NEW sentStep \in Nat
  PROVE  IsDocument(SentRow(r, team, kind, n, step, done, sent, sentStep),
                    r.src, n, "pending", r.hand)
<1> DEFINE e == SentRow(r, team, kind, n, step, done, sent, sentStep)
<1>1. e \in LotType
  BY DEF SentRow, DocumentType, LotType
<1>2. e.src = r.src /\ e.q = n /\ e.status = "pending" /\ e.hand = r.hand
  BY DEF SentRow, DocumentType
<1> HIDE DEF e
<1>3. e \in LotType /\ e.src = r.src /\ e.q = n /\ e.status = "pending" /\ e.hand = r.hand
  BY <1>1, <1>2
<1>. QED
  BY <1>3 DEF e, IsDocument

LEMMA MadeType ==
  ASSUME NEW r \in DocumentType,
         NEW n \in Nat \ {0}, NEW step \in Nat, NEW done \in BOOLEAN, NEW bound \in Nat
  PROVE  IsDocument(MadeRow(r, n, step, done, bound), r.src, n, r.status, n)
<1> DEFINE e == MadeRow(r, n, step, done, bound)
<1>1. e \in LotType
  BY DEF MadeRow, DocumentType, LotType
<1>2. e.src = r.src /\ e.q = n /\ e.status = r.status /\ e.hand = n
  BY DEF MadeRow, DocumentType
<1> HIDE DEF e
<1>3. e \in LotType /\ e.src = r.src /\ e.q = n /\ e.status = r.status /\ e.hand = n
  BY <1>1, <1>2
<1>. QED
  BY <1>3 DEF e, IsDocument

LEMMA LeftType ==
  ASSUME NEW r \in DocumentType, NEW n \in Nat \ {0}, NEW done \in BOOLEAN, NEW bound \in Nat
  PROVE  IsDocument(LeftRow(r, n, done, bound), r.src, n, r.status, n)
<1> DEFINE e == LeftRow(r, n, done, bound)
<1>1. e \in LotType
  BY DEF LeftRow, DocumentType, LotType
<1>2. e.src = r.src /\ e.q = n /\ e.status = r.status /\ e.hand = n
  BY DEF LeftRow, DocumentType
<1> HIDE DEF e
<1>3. e \in LotType /\ e.src = r.src /\ e.q = n /\ e.status = r.status /\ e.hand = n
  BY <1>1, <1>2
<1>. QED
  BY <1>3 DEF e, IsDocument

\* n pieces are taken from a lot for a row of their own.
LEMMA RowCut ==
  ASSUME NEW lots \in Seq(LotType), LotsAgree(lots), SourcesExist(lots),
         NEW l \in DOMAIN lots, NEW n \in Nat \ {0}, n <= lots[l].hand,
         NEW e \in LotType, e.src = l, e.q = n, e.status \in {"pending", "received"},
         e.hand = When(e.status = "received", n)
  PROVE  AreCut(CutFrom(lots, l, n, e), lots, l, n, e)
<1> DEFINE left1 == [lots[l] EXCEPT !.hand = lots[l].hand - n]
           mid == [lots EXCEPT ![l] = left1]
           new == Append(mid, e)
           m == Len(lots) + 1
<1>1. lots[l] \in LotType /\ lots[l].hand \in Nat /\ lots[l].hand - n \in Nat
  <2>1. lots[l] \in LotType
    OBVIOUS
  <2>2. lots[l].hand \in Nat
    BY <2>1, LotColumns
  <2>. QED  BY <2>1, <2>2
<1>2. /\ left1 \in LotType /\ left1.src = lots[l].src /\ left1.q = lots[l].q
      /\ left1.status = lots[l].status /\ left1.hand = lots[l].hand - n
  BY <1>1 DEF LotType
<1>3. new = CutFrom(lots, l, n, e)
  BY DEF CutFrom
<1>0. left1 = [lots[l] EXCEPT !.hand = @ - n]
  OBVIOUS
<1> HIDE DEF left1
<1>4. /\ mid \in Seq(LotType) /\ Len(mid) = Len(lots) /\ DOMAIN mid = DOMAIN lots
      /\ \A d \in DOMAIN lots : mid[d] = IF d = l THEN left1 ELSE lots[d]
  BY <1>2, RowChanged
<1> HIDE DEF mid
<1>5. /\ new \in Seq(LotType) /\ DOMAIN new = 1..m /\ new[m] = e
      /\ \A d \in DOMAIN mid : new[d] = mid[d]
  BY <1>4, RowAdded
<1> HIDE DEF new
<1>6. \A d \in DOMAIN lots :
        /\ new[d].src = lots[d].src /\ new[d].status = lots[d].status /\ new[d].q = lots[d].q
        /\ new[d].hand = IF d = l THEN lots[d].hand - n ELSE lots[d].hand
  BY <1>2, <1>4, <1>5
<1>7. LotsAgree(new) /\ SourcesExist(new)
  BY <1>5, <1>6, LotAdded DEF m
<1>8. /\ new \in Seq(LotType) /\ DOMAIN new = 1..(Len(lots) + 1)
      /\ LotsAgree(new) /\ SourcesExist(new)
      /\ new[l].hand = lots[l].hand - n /\ new[Len(lots) + 1] = e
      /\ \A d \in DOMAIN lots : d # l => new[d] = lots[d]
      /\ new[l] = [lots[l] EXCEPT !.hand = @ - n]
  BY <1>0, <1>4, <1>5, <1>6, <1>7 DEF m
<1>9. AreCut(new, lots, l, n, e)
  BY <1>8 DEF AreCut
<1>. QED
  BY <1>3, <1>9

LEMMA SendKeeps ==
  ASSUME IInv, NEW l \in Lots, NEW n \in 1..lot[l].hand, NEW to \in Teams \union {Outside},
         NEW named, NEW namedBatch, Send(l, n, to, named, namedBatch)
  PROVE  IInv'
<1> DEFINE d == Len(lot) + 1
           next == NextStep(lot[l].step)
           kind == IF to = Outside THEN "shipment" ELSE "transfer"
           step == IF next = None \/ ~lot[l].routed THEN lot[l].step ELSE next
           done == to = Warehouse \/ (lot[l].routed /\ next = None)
           sent == IF lot[l].team = Warehouse THEN "none"
                   ELSE IF lot[l].done THEN "complete" ELSE "unregistered"
           sentStep == IF lot[l].routed THEN lot[l].step ELSE None
           e == SentRow(Document(l), to, kind, n, step, done, sent, sentStep)
<1>1. /\ lot \in Seq(LotType) /\ l \in DOMAIN lot /\ LotsAgree(lot) /\ SourcesExist(lot)
      /\ lot[l] \in LotType /\ Len(lot) \in Nat /\ DOMAIN lot = 1..Len(lot)
      /\ lot[l].hand \in Nat /\ DOMAIN lot = Lots
  BY LotsNow, LotColumns
<1>2. n \in Nat \ {0} /\ n <= lot[l].hand
  BY <1>1
<1>3. PICK p \in Choose(DispatchChoices(l, to), IF named = None THEN Inherited(l) ELSE named),
           b \in Nat : 
        /\ p # None => b \in ChosenBatch(p, namedBatch)
        /\ lot' = Append([lot EXCEPT ![l].hand = @ - n], e)
        /\ delivery' = IF p = None THEN delivery ELSE Booked(d, p, b)
  <2>1. PICK p \in Choose(DispatchChoices(l, to), IF named = None THEN Inherited(l) ELSE named) :
             \E b \in ChosenBatch(p, namedBatch) :
               /\ lot' = Append([lot EXCEPT ![l].hand = @ - n],
                 [Document(l) EXCEPT
                    !.team = to, !.q = n, !.status = "pending",
                    !.kind = kind, !.step = step,
                    !.done = done, !.sent = sent, !.sentStep = sentStep])
               /\ delivery' = IF p = None THEN delivery ELSE Booked(d, p, b)
    BY Zenon DEF Send
  <2>2. PICK b \in ChosenBatch(p, namedBatch) :
               /\ lot' = Append([lot EXCEPT ![l].hand = @ - n],
                 [Document(l) EXCEPT
                    !.team = to, !.q = n, !.status = "pending",
                    !.kind = kind, !.step = step,
                    !.done = done, !.sent = sent, !.sentStep = sentStep])
               /\ delivery' = IF p = None THEN delivery ELSE Booked(d, p, b)
    BY <2>1
  <2>3. [Document(l) EXCEPT
                    !.team = to, !.q = n, !.status = "pending",
                    !.kind = kind, !.step = step,
                    !.done = done, !.sent = sent, !.sentStep = sentStep] = e
    <3> HIDE DEF kind, next, done, sent, sentStep, step
    <3>. QED  BY DEF SentRow
  <2>4. b \in Nat
    <3>1. ChosenBatch(p, namedBatch) \subseteq {None} \union Batches(p)
      BY ChooseGives DEF ChosenBatch
    <3>2. DOMAIN batch \subseteq Nat
      BY RowTypes DEF IInv
    <3>. QED  BY <3>1, <3>2 DEF Batches, None
  <2> HIDE DEF kind, next, done, sent, sentStep, step, e
  <2>. QED  BY <2>1, <2>2, <2>3, <2>4
<1>4. Spend("move") /\ UNCHANGED <<now, books, notices, review>>
  BY DEF Send
<1>5. e \in LotType /\ e.src = l /\ e.q = n /\ e.status = "pending" /\ e.hand = 0
  <2>1. lot[l].step \in Nat /\ lot[l].routed \in BOOLEAN
    BY <1>1 DEF LotType
  <2>2. next \in Nat
    BY <2>1, StepsAreSteps
  <2> HIDE DEF next
  <2>3. /\ kind \in {"transfer", "shipment"} /\ step \in Nat /\ done \in BOOLEAN
        /\ sent \in {"none", "complete", "unregistered"} /\ sentStep \in Nat
    BY <2>1, <2>2 DEF None
  <2> HIDE DEF kind, step, done, sent, sentStep
  <2>4. /\ Document(l) \in DocumentType /\ Document(l).src = l /\ Document(l).hand = 0
    BY DocumentTyped
  <2>5. IsDocument(SentRow(Document(l), to, kind, n, step, done, sent, sentStep),
                   Document(l).src, n, "pending", Document(l).hand)
    BY <1>2, <2>3, <2>4, SentType
  <2> HIDE DEF e
  <2>6. e = SentRow(Document(l), to, kind, n, step, done, sent, sentStep)
    BY DEF e
  <2>7. IsDocument(e, Document(l).src, n, "pending", Document(l).hand)
    BY <2>5, <2>6
  <2>. QED  BY <2>4, <2>7 DEF IsDocument
<1> HIDE DEF e, d
<1>6. /\ lot' \in Seq(LotType) /\ DOMAIN lot' = 1..(Len(lot) + 1)
      /\ LotsAgree(lot') /\ SourcesExist(lot')
  <2>1. e.status \in {"pending", "received"} /\ e.hand = When(e.status = "received", n)
    BY <1>5 DEF When
  <2> DEFINE new == CutFrom(lot, l, n, e)
  <2>4. AreCut(CutFrom(lot, l, n, e), lot, l, n, e)
    BY <1>1, <1>2, <1>5, <2>1, RowCut
  <2>2. /\ new \in Seq(LotType) /\ DOMAIN new = 1..(Len(lot) + 1)
        /\ LotsAgree(new) /\ SourcesExist(new)
    BY <2>4 DEF AreCut
  <2>3. lot' = new
    BY <1>3 DEF CutFrom
  <2> HIDE DEF new
  <2>. QED  BY <2>2, <2>3
<1>7. (\A k \in DOMAIN delivery :
            /\ k \in Lots /\ delivery[k].plan \in Plans
            /\ delivery[k].batch # None => delivery[k].batch \in Batches(delivery[k].plan))'
  <2>1. DOMAIN lot \subseteq DOMAIN lot' /\ d \in DOMAIN lot'
    BY <1>1, <1>6 DEF d
  <2>2. \A k \in DOMAIN delivery :
            /\ k \in Lots /\ delivery[k].plan \in Plans
            /\ delivery[k].batch # None => delivery[k].batch \in Batches(delivery[k].plan)
    BY DEF IInv, TypeOK
  <2>3. p = None \/ p \in Plans
    BY ChooseGives DEF DispatchChoices
  <2>4. ASSUME p # None PROVE b = None \/ b \in Batches(p)
    <3>1. b \in Choose(Batches(p), namedBatch)
      BY <1>3, <2>4 DEF ChosenBatch
    <3>. QED  BY <3>1, ChooseGives
  <2>5. CASE p = None
    BY <1>1, <1>3, <1>4, <2>1, <2>2, <2>5 DEF books, Batches, Plans, Lots
  <2>6. CASE p # None
    <3>1. delivery' = Booked(d, p, b)
      BY <1>3, <2>6
    <3>2. /\ DOMAIN delivery' = DOMAIN delivery \union {d}
          /\ \A k \in DOMAIN delivery' :
               /\ delivery'[k].plan = IF k = d THEN p ELSE delivery[k].plan
               /\ delivery'[k].batch = IF k = d THEN b ELSE delivery[k].batch
      BY <3>1 DEF Booked
    <3>3. Plans' = Plans /\ Lots' = DOMAIN lot' /\ \A s : Batches(s)' = Batches(s)
      BY <1>4 DEF books, Plans, Lots, Batches
    <3>4. \A k \in DOMAIN delivery' :
            /\ k \in DOMAIN lot' /\ delivery'[k].plan \in Plans
            /\ delivery'[k].batch # None => delivery'[k].batch \in Batches(delivery'[k].plan)
      BY <1>1, <2>1, <2>2, <2>3, <2>4, <2>6, <3>2
    <3>. QED  BY <1>4, <3>3, <3>4 DEF books, Plans, Lots, Batches
  <2>. QED  BY <2>5, <2>6
<1>. QED
  BY <1>4, <1>6, <1>7, MaterialKeeps

\* The premises of LotAdded under one name.
IsAdded(new, lots, l, n, e) ==
    /\ lots \in Seq(LotType) /\ LotsAgree(lots) /\ SourcesExist(lots)
    /\ l \in DOMAIN lots /\ n \in Nat \ {0} /\ n <= lots[l].hand
    /\ e \in LotType /\ e.src = l /\ e.q = n /\ e.status \in {"pending", "received"}
    /\ e.hand = When(e.status = "received", n)
    /\ new \in Seq(LotType) /\ DOMAIN new = 1..(Len(lots) + 1) /\ new[Len(lots) + 1] = e
    /\ \A d \in DOMAIN lots :
         /\ new[d].src = lots[d].src /\ new[d].status = lots[d].status /\ new[d].q = lots[d].q
         /\ new[d].hand = IF d = l THEN lots[d].hand - n ELSE lots[d].hand

LEMMA AddedAgrees ==
  ASSUME NEW new, NEW lots, NEW l, NEW n, NEW e, IsAdded(new, lots, l, n, e)
  PROVE  LotsAgree(new) /\ SourcesExist(new)
<1>1. /\ lots \in Seq(LotType) /\ LotsAgree(lots) /\ SourcesExist(lots)
      /\ l \in DOMAIN lots /\ n \in Nat \ {0} /\ n <= lots[l].hand
      /\ e \in LotType /\ e.src = l /\ e.q = n /\ e.status \in {"pending", "received"}
      /\ e.hand = When(e.status = "received", n)
      /\ new \in Seq(LotType) /\ DOMAIN new = 1..(Len(lots) + 1) /\ new[Len(lots) + 1] = e
      /\ \A d \in DOMAIN lots :
           /\ new[d].src = lots[d].src /\ new[d].status = lots[d].status /\ new[d].q = lots[d].q
           /\ new[d].hand = IF d = l THEN lots[d].hand - n ELSE lots[d].hand
  BY DEF IsAdded
<1>. QED
  BY <1>1, LotAdded

\* A lot is used up for two rows of its own.
LEMMA LotSplit ==
  ASSUME NEW lots \in Seq(LotType), LotsAgree(lots), SourcesExist(lots),
         NEW l \in DOMAIN lots, NEW n \in Nat \ {0}, NEW k \in Nat \ {0}, lots[l].hand = n + k,
         NEW a, IsDocument(a, l, n, "received", n), NEW b, IsDocument(b, l, k, "received", k)
  PROVE  LET new == [lots EXCEPT ![l].hand = 0] \o <<a, b>> IN
         /\ new \in Seq(LotType) /\ DOMAIN lots \subseteq DOMAIN new
         /\ LotsAgree(new) /\ SourcesExist(new)
<1> DEFINE N == Len(lots)
           mid == CutFrom(lots, l, n, a)
           used == [lots[l] EXCEPT !.hand = 0]
           stock == [lots EXCEPT ![l].hand = 0]
           new == stock \o <<a, b>>
<1>1. /\ N \in Nat /\ DOMAIN lots = 1..N /\ n \in Nat /\ k \in Nat
      /\ lots[l] \in LotType /\ lots[l].hand \in Nat /\ n <= lots[l].hand
      /\ \A d \in 1..N : lots[d] \in LotType
  <2>1. lots[l] \in LotType
    OBVIOUS
  <2>2. lots[l].hand \in Nat
    BY <2>1, LotColumns
  <2>. QED  BY <2>1, <2>2
<1>2. /\ a \in LotType /\ a.src = l /\ a.q = n /\ a.status = "received" /\ a.hand = n
      /\ b \in LotType /\ b.src = l /\ b.q = k /\ b.status = "received" /\ b.hand = k
  BY DEF IsDocument
<1>3. AreCut(mid, lots, l, n, a)
  BY <1>1, <1>2, RowCut DEF When
<1>4. used \in LotType /\ used.src = lots[l].src /\ used.q = lots[l].q
      /\ used.status = lots[l].status /\ used.hand = 0
  BY <1>1 DEF LotType
<1>5. stock = [lots EXCEPT ![l] = used]
  BY <1>1
<1> HIDE DEF used
<1>6. /\ stock \in Seq(LotType) /\ Len(stock) = N
      /\ \A d \in DOMAIN lots : stock[d] = IF d = l THEN used ELSE lots[d]
  <2>1. /\ [lots EXCEPT ![l] = used] \in Seq(LotType)
        /\ Len([lots EXCEPT ![l] = used]) = Len(lots)
        /\ \A d \in DOMAIN lots : [lots EXCEPT ![l] = used][d] = IF d = l THEN used ELSE lots[d]
    BY <1>4, RowChanged
  <2> HIDE DEF stock
  <2>. QED  BY <1>5, <2>1
<1> HIDE DEF stock
<1>7. /\ new \in Seq(LotType) /\ DOMAIN new = 1..(N + 2) /\ new[N + 1] = a /\ new[N + 2] = b
      /\ \A d \in 1..N : new[d] = stock[d]
  <2> DEFINE two == <<a, b>>
  <2>1. two \in Seq(LotType) /\ Len(two) = 2 /\ DOMAIN two = 1..2 /\ two[1] = a /\ two[2] = b
    BY <1>2
  <2> HIDE DEF two
  <2>2. /\ stock \o two \in Seq(LotType)
        /\ DOMAIN (stock \o two) = 1..(Len(stock) + Len(two))
        /\ \A i \in DOMAIN stock : (stock \o two)[i] = stock[i]
        /\ \A i \in DOMAIN two : (stock \o two)[Len(stock) + i] = two[i]
    <3> DEFINE s == stock
    <3>1. s \in Seq(LotType) /\ two \in Seq(LotType)
      BY <1>6, <2>1
    <3> HIDE DEF s
    <3>2. /\ s \o two \in Seq(LotType)
          /\ DOMAIN (s \o two) = 1..(Len(s) + Len(two))
          /\ \A i \in DOMAIN s : (s \o two)[i] = s[i]
          /\ \A i \in DOMAIN two : (s \o two)[Len(s) + i] = two[i]
      BY <3>1, RowsAdded
    <3>. QED  BY <3>2 DEF s
  <2>3. DOMAIN stock = 1..N
    BY <1>6
  <2>4. new = stock \o two
    BY DEF two
  <2>5. 1 \in DOMAIN two /\ 2 \in DOMAIN two /\ Len(stock) + 1 = N + 1 /\ Len(stock) + 2 = N + 2
    BY <1>6, <2>1
  <2> HIDE DEF new
  <2>. QED  BY <1>6, <2>1, <2>2, <2>3, <2>4, <2>5
<1> HIDE DEF new, mid
<1>8. /\ mid \in Seq(LotType) /\ DOMAIN mid = 1..(N + 1) /\ LotsAgree(mid) /\ SourcesExist(mid)
      /\ mid[l].hand = k /\ mid[N + 1] = a
      /\ \A d \in 1..N : d # l => mid[d] = lots[d]
      /\ mid[l] = [lots[l] EXCEPT !.hand = lots[l].hand - n]
  <2>1. lots[l].hand - n = k
    BY <1>1
  <2>. QED  BY <1>1, <1>3, <2>1 DEF AreCut
<1>9. /\ mid[l].src = lots[l].src /\ mid[l].q = lots[l].q /\ mid[l].status = lots[l].status
  <2> DEFINE h == lots[l].hand - n
  <2> HIDE DEF h
  <2>1. \A r \in LotType : /\ [r EXCEPT !.hand = h].src = r.src /\ [r EXCEPT !.hand = h].q = r.q
                           /\ [r EXCEPT !.hand = h].status = r.status
    BY DEF LotType
  <2>2. mid[l] = [lots[l] EXCEPT !.hand = h]
    BY <1>8 DEF h
  <2>. QED  BY <1>1, <2>1, <2>2
<1>10. \A d \in DOMAIN mid :
         /\ new[d].src = mid[d].src /\ new[d].status = mid[d].status /\ new[d].q = mid[d].q
         /\ new[d].hand = IF d = l THEN mid[d].hand - k ELSE mid[d].hand
  <2>1. \A d \in 1..(N + 1) : d = N + 1 \/ d \in 1..N
    BY <1>1
  <2>2. l # N + 1 /\ l \in 1..N /\ mid[l].hand - k = 0
    BY <1>1, <1>8
  <2>3. ASSUME NEW d \in 1..N, d # l PROVE new[d] = mid[d]
    BY <1>1, <1>6, <1>7, <1>8, <2>3
  <2>4. new[l] = used
    BY <1>1, <1>6, <1>7
  <2>. QED  BY <1>4, <1>7, <1>8, <1>9, <2>1, <2>2, <2>3, <2>4
<1>11. LotsAgree(new) /\ SourcesExist(new)
  <2> HIDE DEF N
  <2>1. /\ Len(mid) + 1 = N + 2 /\ l \in DOMAIN mid /\ k <= mid[l].hand
        /\ b.hand = When(b.status = "received", k)
        /\ b \in LotType /\ b.src = l /\ b.q = k /\ b.status \in {"pending", "received"}
        /\ mid \in Seq(LotType) /\ LotsAgree(mid) /\ SourcesExist(mid) /\ new \in Seq(LotType)
    BY <1>1, <1>2, <1>7, <1>8 DEF When
  <2>2. DOMAIN new = 1..(Len(mid) + 1) /\ new[Len(mid) + 1] = b
    BY <1>7, <2>1
  <2>3. IsAdded(new, mid, l, k, b)
    BY <1>10, <2>1, <2>2 DEF IsAdded
  <2>. QED  BY <2>3, AddedAgrees
<1>12. DOMAIN lots \subseteq DOMAIN new
  BY <1>1, <1>7
<1>. QED
  BY <1>7, <1>11, <1>12 DEF new, stock

LEMMA ProcessKeeps ==
  ASSUME IInv, NEW l \in Lots, NEW n \in 1..lot[l].hand, NEW named, Process(l, n, named)
  PROVE  IInv'
<1> DEFINE choices == PlanChoices(l)
           bound == IF lot[l].bound \in choices THEN lot[l].bound ELSE None
           step == IF lot[l].routed THEN WorkStep(l) ELSE lot[l].step
<1>1. /\ lot \in Seq(LotType) /\ l \in DOMAIN lot /\ LotsAgree(lot) /\ SourcesExist(lot)
      /\ lot[l] \in LotType /\ Len(lot) \in Nat /\ DOMAIN lot = 1..Len(lot)
      /\ lot[l].hand \in Nat /\ DOMAIN lot = Lots
  BY LotsNow, LotColumns
<1>2. n \in Nat \ {0} /\ n <= lot[l].hand
  BY <1>1
<1>3. PICK p \in Choose(choices, IF named = None THEN bound ELSE named) :
               lot' = IF n = lot[l].hand
                      THEN [lot EXCEPT ![l] = [@ EXCEPT !.step = step, !.done = TRUE,
                                                        !.bound = IF p = None THEN lot[l].bound ELSE p]]
                      ELSE [lot EXCEPT ![l].hand = 0]
                             \o << [Document(l) EXCEPT !.q = n, !.hand = n, !.step = step,
                                                       !.done = TRUE, !.bound = p],
                                   [Document(l) EXCEPT !.q = lot[l].hand - n, !.hand = lot[l].hand - n,
                                                       !.done = lot[l].done, !.bound = lot[l].bound] >>
  BY Zenon DEF Process
<1>4. Spend("move") /\ UNCHANGED <<now, books, delivery, notices, review>> /\ lot[l].status = "received"
  BY DEF Process
<1>5. p \in Nat /\ lot[l].bound \in Nat /\ lot[l].done \in BOOLEAN
  <2>1. p = None \/ p \in Plans
    <3>1. choices \subseteq Plans
      BY DEF PlanChoices
    <3>. QED  BY <3>1, ChooseGives
  <2>2. Plans \subseteq Nat
    BY RowTypes DEF IInv
  <2>3. lot[l].bound \in Nat /\ lot[l].done \in BOOLEAN
    BY <1>1 DEF LotType
  <2>4. p \in Nat
    <3>1. None \in Nat
      BY DEF None
    <3>. QED  BY <2>1, <2>2, <3>1
  <2>. QED  BY <2>3, <2>4
<1>6. step \in Nat
  <2>1. lot[l].step \in Nat
    BY <1>1 DEF LotType
  <2>2. NextStep(lot[l].step) \in Nat /\ None \in Nat
    BY <2>1, StepsAreSteps DEF None
  <2>3. WorkStep(l) \in Nat
    BY <2>1, <2>2 DEF WorkStep
  <2>. QED  BY <2>1, <2>3
<1> HIDE DEF step, bound, choices
<1>7. CASE n = lot[l].hand
  <2> DEFINE to == IF p = None THEN lot[l].bound ELSE p
             row == [lot[l] EXCEPT !.step = step, !.done = TRUE, !.bound = to]
  <2>1. lot' = [lot EXCEPT ![l] = row]
    BY <1>1, <1>3, <1>7
  <2>2. to \in Nat
    BY <1>5
  <2> HIDE DEF to
  <2>3. /\ row \in LotType /\ row.src = lot[l].src /\ row.q = lot[l].q
        /\ row.status = lot[l].status /\ row.hand = lot[l].hand
    BY <1>1, <1>6, <2>2 DEF LotType
  <2> HIDE DEF row
  <2>4. /\ lot' \in Seq(LotType) /\ DOMAIN lot' = DOMAIN lot /\ lot'[l] = row
        /\ \A d \in DOMAIN lot : d # l => lot'[d] = lot[d]
    BY <1>1, <2>1, <2>3, RowChanged
  <2>5. LotsAgree(lot') /\ SourcesExist(lot')
    <3> DEFINE new == lot'
    <3>1. /\ new \in Seq(LotType) /\ DOMAIN new = DOMAIN lot
          /\ \A d \in DOMAIN lot : d # l => new[d] = lot[d]
          /\ new[l].src = lot[l].src /\ new[l].q = lot[l].q
          /\ new[l].status = lot[l].status /\ new[l].hand = lot[l].hand
      BY <2>3, <2>4
    <3> HIDE DEF new
    <3>2. LotsAgree(new) /\ SourcesExist(new)
      BY <1>1, <3>1, LotMarked
    <3>. QED  BY <3>2 DEF new
  <2>6. (\A d \in DOMAIN delivery :
            /\ d \in Lots /\ delivery[d].plan \in Plans
            /\ delivery[d].batch # None => delivery[d].batch \in Batches(delivery[d].plan))'
    BY <1>4, <2>4, BookingsStay
  <2>. QED
    BY <1>4, <2>4, <2>5, <2>6, MaterialKeeps
<1>8. CASE n # lot[l].hand
  <2> DEFINE k == lot[l].hand - n
             a == MadeRow(Document(l), n, step, TRUE, p)
             b == LeftRow(Document(l), k, lot[l].done, lot[l].bound)
  <2>1. k \in Nat \ {0} /\ lot[l].hand = n + k
    BY <1>1, <1>2, <1>8
  <2>2. /\ Document(l) \in DocumentType /\ Document(l).src = l
        /\ Document(l).status = "received" /\ Document(l).step \in Nat
    BY <1>1, DocumentTyped DEF LotType
  <2> HIDE DEF k
  <2>3. IsDocument(a, Document(l).src, n, Document(l).status, n)
    BY <1>2, <1>5, <1>6, <2>2, MadeType
  <2>4. IsDocument(b, Document(l).src, k, Document(l).status, k)
    BY <1>5, <2>1, <2>2, LeftType
  <2>6. lot' = [lot EXCEPT ![l].hand = 0] \o <<a, b>>
    <3>1. b = [Document(l) EXCEPT !.q = k, !.hand = k, !.done = lot[l].done, !.bound = lot[l].bound]
      BY DEF LeftRow
    <3>2. a = [Document(l) EXCEPT !.q = n, !.hand = n, !.step = step, !.done = TRUE, !.bound = p]
      BY DEF MadeRow
    <3>. QED  BY <1>3, <1>8, <3>1, <3>2 DEF k
  <2> HIDE DEF a, b
  <2>7. IsDocument(a, l, n, "received", n) /\ IsDocument(b, l, k, "received", k)
    BY <2>2, <2>3, <2>4
  <2> DEFINE new == [lot EXCEPT ![l].hand = 0] \o <<a, b>>
  <2>8. /\ new \in Seq(LotType) /\ DOMAIN lot \subseteq DOMAIN new
        /\ LotsAgree(new) /\ SourcesExist(new)
    BY <1>1, <1>2, <2>1, <2>7, LotSplit
  <2>9. lot' = new
    BY <2>6
  <2> HIDE DEF new
  <2>10. /\ lot' \in Seq(LotType) /\ LotsAgree(lot') /\ SourcesExist(lot')
         /\ DOMAIN lot \subseteq DOMAIN lot'
    BY <2>8, <2>9
  <2>11. (\A d \in DOMAIN delivery :
            /\ d \in Lots /\ delivery[d].plan \in Plans
            /\ delivery[d].batch # None => delivery[d].batch \in Batches(delivery[d].plan))'
    BY <1>4, <2>10, BookingsStay
  <2>. QED
    BY <1>4, <2>10, <2>11, MaterialKeeps
<1>. QED
  BY <1>7, <1>8

-----------------------------------------------------------------------------
(* The invariant holds in every state.                                      *)

LEMMA InitHolds == Init => IInv
<1> SUFFICES ASSUME Init PROVE IInv
  OBVIOUS
<1>1. PICK case \in Cases :
        task = case.task /\ plan = case.plan /\ batch = case.batch
        /\ lot = case.lot /\ left = case.left
  BY DEF Init
<1>2. /\ task \in Seq(TaskType) /\ plan \in Seq(PlanType)
      /\ batch \in Seq(BatchType) /\ lot \in Seq(LotType)
      /\ left \in [Kinds -> Nat] /\ KeysExist(task, plan, batch, lot)
      /\ PlansAgree(plan, batch) /\ DatesAgree(task) /\ LotsAgree(lot)
  BY <1>1, CasesAssumption DEF CasesAssumption
<1>3. now = 1 /\ delivery = <<>> /\ review = NoReview
      /\ notices = UNION {Told(p, 1, "created") : p \in Plans}
  BY DEF Init
<1>4. now \in 1..MaxNow
  BY <1>3, FormsAssumption DEF FormsAssumption
<1>5. \A l \in Lots : lot[l].hand <= lot[l].q
  <2> SUFFICES ASSUME NEW l \in DOMAIN lot PROVE lot[l].hand <= lot[l].q
    BY DEF Lots
  <2>1. lot[l] \in LotType
    BY <1>2
  <2>2. lot[l].hand \in Nat /\ lot[l].q \in Nat
    BY <2>1, LotColumns
  <2>3. Taken(lot, l) \in Nat
    BY <1>2, ColumnType
  <2>4. lot[l].hand + Taken(lot, l) = When(lot[l].status = "received", lot[l].q)
    BY <1>2 DEF LotsAgree
  <2>. QED  BY <2>2, <2>3, <2>4 DEF When
<1>6. DOMAIN delivery = {}
  BY <1>3
<1>7. TypeOK
  BY <1>2, <1>4, <1>5, <1>6 DEF TypeOK
<1>8. NoticesAreOfThePast
  <2>1. ASSUME NEW p \in Plans PROVE plan[p].version \in Nat \ {0}
    <3>1. plan[p] \in PlanType
      BY <1>7, RowTypes
    <3>. QED  BY <3>1 DEF PlanType
  <2>2. \A key \in notices : \E p \in Plans : key = <<"plan", p, 1, "created", p>>
    BY <1>3 DEF Told
  <2>. QED  BY <2>1, <2>2 DEF NoticesAreOfThePast
<1>. QED
  BY <1>2, <1>3, <1>7, <1>8 DEF IInv, PlansHangTogether, ReviewIsOfItsRevision

LEMMA OrdersKeep ==
  ASSUME IInv, Orders
  PROVE  IInv'
<1>1. Dues \subseteq Nat /\ Amounts \subseteq Nat \ {0}
  BY FormsAssumption DEF FormsAssumption
<1>2. CASE \E final \in Dues, early \in Dues, q \in Amounts :
             CreateTask(IF early < final THEN <<early, final>> ELSE <<final>>, final, q)
  <2>1. PICK final \in Dues, early \in Dues, q \in Amounts :
          CreateTask(IF early < final THEN <<early, final>> ELSE <<final>>, final, q)
    BY <1>2
  <2> DEFINE dates == IF early < final THEN <<early, final>> ELSE <<final>>
  <2>2. dates \in Seq(Nat) /\ final \in Nat /\ q \in Nat \ {0}
    BY <1>1
  <2> HIDE DEF dates
  <2>3. CreateTask(dates, final, q)
    BY <2>1 DEF dates
  <2>. QED  BY <2>2, <2>3, CreateTaskKeeps
<1>3. ASSUME NEW t \in Tasks, NEW final \in Dues, UpdateTask(t, final, task[t].customer)
      PROVE  IInv'
  <2>1. task[t] \in TaskType
    BY RowTypes DEF IInv
  <2>2. task[t].customer \in Seq(Nat) /\ final \in Nat
    BY <1>1, <2>1 DEF TaskType
  <2>. QED  BY <1>3, <2>2, UpdateTaskWrites, PlanWriteKeeps
<1>4. ASSUME NEW t \in Tasks, NEW final \in Dues, UpdateTask(t, final, <<final>>)
      PROVE  IInv'
  <2>1. <<final>> \in Seq(Nat) /\ final \in Nat
    BY <1>1
  <2>. QED  BY <1>4, <2>1, UpdateTaskWrites, PlanWriteKeeps
<1>5. ASSUME NEW t \in Tasks, NEW locked \in BOOLEAN, LockTask(t, locked)
      PROVE  IInv'
  BY <1>5, LockTaskWrites, PlanWriteKeeps
<1>6. ASSUME NEW t \in Tasks, DeleteTask(t) PROVE IInv'
  BY <1>6, DeleteTaskWrites, PlanWriteKeeps
<1>7. ASSUME NEW t \in Tasks, NEW S \in SUBSET Nodes(t) \ {{}},
             NEW steps \in [S -> 1..Len(Route)], LinkRoute(t, steps)
      PROVE  IInv'
  BY <1>7, LinkRouteWrites, PlanWriteKeeps
<1>. QED
  BY <1>2, <1>3, <1>4, <1>5, <1>6, <1>7 DEF Orders

LEMMA EditsKeep ==
  ASSUME IInv, NEW p \in Plans,
         \/ \E due \in Dues, q \in Amounts \union {plan[p].q} : UpdatePlan(p, due, q, plan[p].sources)
         \/ \E l \in Lots : UpdatePlan(p, plan[p].due, plan[p].q, {l})
         \/ CancelPlan(p)
         \/ \E entries \in Requests(p) : Propose(p, entries) \/ DispatchBatches(p, entries)
         \/ ReviewPlan(p)
         \/ ReturnPlan(p)
  PROVE  IInv'
<1>1. Dues \subseteq Nat /\ Amounts \subseteq Nat \ {0}
  BY FormsAssumption DEF FormsAssumption
<1>2. plan[p].due \in Nat /\ plan[p].q \in Nat \ {0} /\ plan[p].sources \in SUBSET Nat
  <2>1. plan[p] \in PlanType
    BY RowTypes DEF IInv
  <2>. QED  BY <2>1 DEF PlanType
<1>3. ASSUME NEW due \in Dues, NEW q \in Amounts \union {plan[p].q},
             UpdatePlan(p, due, q, plan[p].sources)
      PROVE  IInv'
  <2>1. due \in Nat /\ q \in Nat \ {0}
    BY <1>1, <1>2
  <2>. QED  BY <1>2, <1>3, <2>1, UpdatePlanWrites, PlanWriteKeeps
<1>4. ASSUME NEW l \in Lots, UpdatePlan(p, plan[p].due, plan[p].q, {l}) PROVE IInv'
  <2>1. {l} \in SUBSET Nat
    BY LotsNow
  <2>. QED  BY <1>2, <1>4, <2>1, UpdatePlanWrites, PlanWriteKeeps
<1>5. ASSUME CancelPlan(p) PROVE IInv'
  BY <1>5, CancelPlanWrites, PlanWriteKeeps
<1>6. ASSUME NEW entries \in Requests(p), Propose(p, entries) PROVE IInv'
  <2>1. entries \in Seq(EntryType) /\ entries # <<>>
    BY RequestsType
  <2>. QED  BY <1>6, <2>1, ProposeWrites, PlanWriteKeeps
<1>7. ASSUME NEW entries \in Requests(p), DispatchBatches(p, entries) PROVE IInv'
  BY <1>7, DispatchBatchesKeeps
<1>8. ASSUME ReviewPlan(p) PROVE IInv'
  BY <1>8, ReviewPlanKeeps
<1>9. ASSUME ReturnPlan(p) PROVE IInv'
  BY <1>9, ReturnPlanWrites, PlanWriteKeeps
<1>. QED
  BY <1>3, <1>4, <1>5, <1>6, <1>7, <1>8, <1>9

LEMMA MovesKeep ==
  ASSUME IInv, Moves
  PROVE  IInv'
<1>1. ASSUME NEW l \in Lots, NEW n \in 1..lot[l].hand, NEW named \in Plans \union {None},
             Process(l, n, named)
      PROVE  IInv'
  BY <1>1, ProcessKeeps
<1>2. ASSUME NEW l \in Lots, NEW n \in 1..lot[l].hand, NEW named \in Plans \union {None},
             NEW to \in Teams \union {Outside}, NEW b \in DOMAIN batch \union {None},
             Send(l, n, to, named, b)
      PROVE  IInv'
  BY <1>2, SendKeeps
<1>3. ASSUME NEW l \in Lots, Receive(l) PROVE IInv'
  BY <1>3, ReceiveKeeps
<1>4. ASSUME NEW l \in Lots, Void(l) PROVE IInv'
  BY <1>4, VoidKeeps
<1>. QED
  BY <1>1, <1>2, <1>3, <1>4 DEF Moves

LEMMA NextKeeps == IInv /\ [Next]_vars => IInv'
<1> SUFFICES ASSUME IInv, [Next]_vars PROVE IInv'
  OBVIOUS
<1>1. CASE Orders
  BY <1>1, OrdersKeep
<1>2. CASE Edits
  BY <1>2, EditsKeep DEF Edits
<1>3. CASE ApplyReview
  BY <1>3, ApplyReviewKeeps
<1>4. CASE Moves
  BY <1>4, MovesKeep
<1>5. ASSUME NEW teams, Refresh(teams) PROVE IInv'
  BY <1>5, RefreshWrites, PlanWriteKeeps
<1>6. CASE Tick
  BY <1>6, TickKeeps
<1>7. CASE UNCHANGED vars
  BY <1>7 DEF vars, IInv, TypeOK, Tasks, Plans, Lots, Batches, PlansHangTogether,
       ReviewIsOfItsRevision, NoticesAreOfThePast
<1>. QED
  BY <1>1, <1>2, <1>3, <1>4, <1>5, <1>6, <1>7 DEF Next

THEOREM InvariantHolds == Spec => []IInv
BY InitHolds, NextKeeps, PTL DEF Spec

\* The tables of the orders, the commitments, their batches and the material keep
\* their columns and name rows that exist, and a document is booked on a batch of
\* its own node, for any route, forms and starting tables.
THEOREM SchedulesAlwaysTyped == Spec => []TypeOK
<1>1. IInv => TypeOK
  BY DEF IInv
<1>. QED
  BY <1>1, InvariantHolds, PTL

\* However requests, approvals, returns and edits interleave: dates, amounts and
\* states of the nodes are those of their batches, supplies exist, and no promise
\* to the customer lies after its order's deadline.
THEOREM PlansAlwaysHangTogether == Spec => []PlansHangTogether
<1>1. IInv => PlansHangTogether
  BY DEF IInv
<1>. QED
  BY <1>1, InvariantHolds, PTL

\* What is left of a lot and what was taken from it always make up the lot.
THEOREM LotsAlwaysAgree == Spec => []LotsAgree(lot)
<1>1. IInv => LotsAgree(lot)
  BY DEF IInv
<1>. QED
  BY <1>1, InvariantHolds, PTL

-----------------------------------------------------------------------------
(* An approval.                                                             *)

\* Only the second transaction of an approval ends a review.
LEMMA ReviewEnds ==
  ASSUME [Next]_vars, review # NoReview, review' = NoReview
  PROVE  ApplyReview
<1>1. ~Orders
  BY DEF Orders, CreateTask, UpdateTask, LockTask, DeleteTask, LinkRoute
<1>2. ~Edits
  <2>1. \A p, due, q, S : ~UpdatePlan(p, due, q, S)
    BY DEF UpdatePlan
  <2>2. \A p : ~CancelPlan(p) /\ ~ReviewPlan(p) /\ ~ReturnPlan(p)
    BY DEF CancelPlan, ReviewPlan, ReturnPlan
  <2>3. \A p, entries : ~Propose(p, entries) /\ ~DispatchBatches(p, entries)
    BY DEF Propose, DispatchBatches
  <2>. QED  BY <2>1, <2>2, <2>3 DEF Edits
<1>3. ~Moves
  <2>1. \A l, n, named : ~Process(l, n, named)
    BY DEF Process
  <2>2. \A l, n, to, named, b : ~Send(l, n, to, named, b)
    BY DEF Send
  <2>3. \A l : ~Receive(l) /\ ~Void(l)
    BY DEF Receive, Void
  <2>. QED  BY <2>1, <2>2, <2>3 DEF Moves
<1>4. ~Tick /\ \A teams : ~Refresh(teams)
  BY DEF Tick, Refresh
<1>5. ~UNCHANGED vars
  BY DEF vars
<1>. QED
  BY <1>1, <1>2, <1>3, <1>4, <1>5 DEF Next

\* An approval applies the request its reviewer saw or nothing, and nothing in an
\* order that was locked or deleted between its two transactions.
THEOREM ApprovedAlwaysAsReviewed == Spec => ApprovedAsReviewed
<1>1. ASSUME IInv, [Next]_vars, review # NoReview, review' = NoReview, books' # books
      PROVE  /\ plan[review.plan].pending = review.entries
             /\ Unlocked(plan[review.plan].task)
  <2>1. ApplyReview
    BY <1>1, ReviewEnds
  <2>2. ReviewStands /\ BatchesFit(review.plan, review.entries)
    BY <1>1, <2>1 DEF ApplyReview
  <2>. QED  BY <1>1, <2>2 DEF IInv, ReviewIsOfItsRevision, ReviewStands, BatchesFit
<1>2. IInv /\ [Next]_vars =>
        [review # NoReview /\ review' = NoReview /\ books' # books =>
           /\ plan[review.plan].pending = review.entries
           /\ Unlocked(plan[review.plan].task)]_vars
  BY <1>1
<1>. QED
  BY <1>2, InvariantHolds, PTL DEF Spec, ApprovedAsReviewed

-----------------------------------------------------------------------------
(* Notices of changes.                                                      *)

LEMMA KeyIsNew ==
  ASSUME IInv, NEW p \in Plans, NEW action, NEW s
  PROVE  <<"plan", p, plan[p].version + 1, action, s>> \notin notices
<1>1. plan[p].version \in Nat
  <2>1. plan[p] \in PlanType
    BY RowTypes DEF IInv
  <2>. QED  BY <2>1 DEF PlanType
<1>2. plan[p].version + 1 \notin 1..plan[p].version
  BY <1>1
<1>3. \A key \in notices : key[1] = "plan" => key[3] \in 1..plan[key[2]].version
  BY DEF IInv, NoticesAreOfThePast
<1>. QED
  BY <1>2, <1>3

LEMMA OwnIsTold ==
  ASSUME IInv, NEW p \in Plans, NEW action,
         Told(p, plan[p].version + 1, action) \subseteq notices'
  PROVE  IsTold(p, p)
<1> DEFINE key == <<"plan", p, plan[p].version + 1, action, p>>
<1>1. key \notin notices
  BY KeyIsNew
<1>2. key \in notices'
  BY DEF Told
<1>3. key[1] = "plan" /\ key[2] = p /\ key[5] = p
  OBVIOUS
<1> HIDE DEF key
<1>. QED
  BY <1>1, <1>2, <1>3 DEF IsTold, NewNotices

LEMMA OnwardIsTold ==
  ASSUME IInv, NEW p \in Plans, NEW action,
         ToldOnward(p, plan[p].version + 1, action) \subseteq notices',
         NEW s \in Successors(p), ~plan[s].cancelled
  PROVE  IsTold(p, s)
<1> DEFINE key == <<"plan", p, plan[p].version + 1, action, s>>
<1>1. key \notin notices
  BY KeyIsNew
<1>2. key \in notices'
  <2>1. s \in Active(Successors(p))
    BY DEF Active
  <2>. QED  BY <2>1 DEF ToldOnward
<1>3. key[1] = "plan" /\ key[2] = p /\ key[5] = s
  OBVIOUS
<1> HIDE DEF key
<1>. QED
  BY <1>1, <1>2, <1>3 DEF IsTold, NewNotices

\* Nothing to tell where the commitment and the lock stay.
LEMMA QuietKeeps ==
  ASSUME NEW p, batch' = batch,
         plan'[p].due = plan[p].due, plan'[p].q = plan[p].q,
         plan'[p].cancelled = plan[p].cancelled,
         task'[plan[p].task].locked = task[plan[p].task].locked
  PROVE  ChangeIsTold(p)
BY DEF ChangeIsTold, CommitmentOf, Batches

LEMMA LockStays ==
  ASSUME IInv, NEW u \in Tasks, NEW p \in Plans, task' = Bumped(u)
  PROVE  task'[plan[p].task].locked = task[plan[p].task].locked
<1>1. plan[p].task \in DOMAIN task /\ task \in Seq(TaskType)
  BY DEF IInv, TypeOK, KeysExist, Plans
<1>2. task[plan[p].task] \in TaskType
  BY <1>1
<1>3. \A r \in TaskType : Bump(r).locked = r.locked
  BY DEF TaskType, Bump
<1>4. task'[plan[p].task] = IF plan[p].task = u THEN Bump(task[u]) ELSE task[plan[p].task]
  BY <1>1 DEF Bumped, Tasks, Bump
<1>. QED
  BY <1>2, <1>3, <1>4

LEMMA OrderOfNode ==
  ASSUME IInv, NEW p \in Plans
  PROVE  plan[p].task \in Tasks /\ plan[p] \in PlanType /\ p \in DOMAIN plan
BY RowTypes DEF IInv, TypeOK, KeysExist, Plans, Tasks

LEMMA RowKeeps ==
  ASSUME NEW r \in PlanType
  PROVE  /\ \A entries \in Seq(EntryType), state \in States :
              /\ Asked(r, entries, state).due = r.due /\ Asked(r, entries, state).q = r.q
              /\ Asked(r, entries, state).cancelled = r.cancelled
         /\ Ended(r).due = r.due /\ Ended(r).q = r.q /\ Ended(r).cancelled = TRUE
         /\ Closed(r).due = r.due /\ Closed(r).q = r.q /\ Closed(r).cancelled = TRUE
         /\ Bump(r).due = r.due /\ Bump(r).q = r.q /\ Bump(r).cancelled = r.cancelled
         /\ Bump(r) \in PlanType
         /\ \A step \in Nat : /\ Moved(r, step).due = r.due /\ Moved(r, step).q = r.q
                              /\ Moved(r, step).cancelled = r.cancelled
<1>2. \A entries \in Seq(EntryType), state \in States :
              /\ Asked(r, entries, state).due = r.due /\ Asked(r, entries, state).q = r.q
              /\ Asked(r, entries, state).cancelled = r.cancelled
  BY DEF PlanType, Asked
<1>3. Ended(r).due = r.due /\ Ended(r).q = r.q /\ Ended(r).cancelled = TRUE
  BY DEF PlanType, Ended
<1>4. Closed(r).due = r.due /\ Closed(r).q = r.q /\ Closed(r).cancelled = TRUE
  BY DEF PlanType, Closed
<1>5. /\ Bump(r).due = r.due /\ Bump(r).q = r.q /\ Bump(r).cancelled = r.cancelled
      /\ Bump(r) \in PlanType
  BY DEF PlanType, Bump
<1>6. \A step \in Nat : /\ Moved(r, step).due = r.due /\ Moved(r, step).q = r.q
                        /\ Moved(r, step).cancelled = r.cancelled
  BY DEF PlanType, Moved
<1>. QED
  BY <1>2, <1>3, <1>4, <1>5, <1>6

\* One node is written: its commitment stays, or its team and the teams after it
\* are told.
LEMMA NodeTold ==
  ASSUME IInv, NEW p \in Plans, NEW row, NEW action,
         plan' = [plan EXCEPT ![p] = row], batch' = batch, task' = Bumped(plan[p].task),
         \/ row.due = plan[p].due /\ row.q = plan[p].q /\ row.cancelled = plan[p].cancelled
         \/ /\ Told(p, plan[p].version + 1, action) \subseteq notices'
            /\ ToldOnward(p, plan[p].version + 1, action) \subseteq notices',
         NEW s \in Plans
  PROVE  ChangeIsTold(s)
<1>1. /\ plan[p].task \in Tasks /\ s \in DOMAIN plan /\ p \in DOMAIN plan
      /\ plan'[s] = IF s = p THEN row ELSE plan[s]
  BY OrderOfNode
<1>2. task'[plan[s].task].locked = task[plan[s].task].locked
  BY <1>1, LockStays
<1>3. CASE s = p /\ ~(row.due = plan[p].due /\ row.q = plan[p].q /\ row.cancelled = plan[p].cancelled)
  <2>1. IsTold(p, p)
    BY <1>3, OwnIsTold
  <2>2. ASSUME NEW u \in Successors(p), ~plan'[u].cancelled PROVE IsTold(p, u)
    <3>1. u \in DOMAIN plan /\ u # p
      <4>1. u \in DOMAIN plan /\ plan[u].pred = p
        BY DEF Successors, Plans
      <4>2. plan[u].pred \in 0..(u - 1) /\ u \in Nat
        BY <4>1, RowTypes DEF IInv, TypeOK, KeysExist, Plans
      <4>. QED  BY <4>1, <4>2
    <3>2. ~plan[u].cancelled
      BY <2>2, <3>1
    <3>. QED  BY <1>3, <3>2, OnwardIsTold
  <2>. QED  BY <1>2, <1>3, <2>1, <2>2 DEF ChangeIsTold
<1>4. CASE ~(s = p /\ ~(row.due = plan[p].due /\ row.q = plan[p].q /\ row.cancelled = plan[p].cancelled))
  BY <1>1, <1>2, <1>4, QuietKeeps
<1>. QED
  BY <1>3, <1>4

LEMMA UpdatePlanTells ==
  ASSUME IInv, NEW p \in Plans, NEW due \in Nat, NEW q \in Nat \ {0}, NEW S \in SUBSET Nat,
         UpdatePlan(p, due, q, S), NEW s \in Plans
  PROVE  ChangeIsTold(s)
<1> DEFINE row == Edited(plan[p], due, q, S)
<1>1. plan[p] \in PlanType /\ p \in DOMAIN plan
  BY OrderOfNode
<1>2. /\ row \in PlanType /\ row.task = plan[p].task /\ row.pred = plan[p].pred
      /\ row.version = plan[p].version + 1 /\ row.due = due /\ row.q = q
      /\ row.state = plan[p].state /\ row.pending = plan[p].pending
      /\ row.cancelled = plan[p].cancelled
  BY <1>1, PlanEdited
<1>3. plan' = [plan EXCEPT ![p] = row] /\ batch' = batch /\ task' = Bumped(plan[p].task)
  BY <1>1 DEF UpdatePlan, Edited
<1>4. <<due, q>> # <<plan[p].due, plan[p].q>> =>
        /\ Told(p, plan[p].version + 1, "updated") \subseteq notices'
        /\ ToldOnward(p, plan[p].version + 1, "updated") \subseteq notices'
  <2> DEFINE v == plan[p].version + 1
  <2>1. <<due, q>> # <<plan[p].due, plan[p].q>> =>
        notices' = notices \union Told(p, v, "updated") \union ToldOnward(p, v, "updated")
    BY DEF UpdatePlan
  <2> HIDE DEF v
  <2>2. <<due, q>> # <<plan[p].due, plan[p].q>> =>
        /\ Told(p, v, "updated") \subseteq notices'
        /\ ToldOnward(p, v, "updated") \subseteq notices'
    BY <2>1
  <2>. QED  BY <2>2 DEF v
<1> HIDE DEF row
<1>5. \/ row.due = plan[p].due /\ row.q = plan[p].q /\ row.cancelled = plan[p].cancelled
      \/ /\ Told(p, plan[p].version + 1, "updated") \subseteq notices'
         /\ ToldOnward(p, plan[p].version + 1, "updated") \subseteq notices'
  BY <1>2, <1>4
<1>. QED
  BY <1>3, <1>5, NodeTold

LEMMA CancelPlanTells ==
  ASSUME IInv, NEW p \in Plans, CancelPlan(p), NEW s \in Plans
  PROVE  ChangeIsTold(s)
<1> DEFINE row == Ended(plan[p])
<1>1. plan[p] \in PlanType /\ p \in DOMAIN plan
  BY OrderOfNode
<1>2. plan' = [plan EXCEPT ![p] = row] /\ batch' = batch /\ task' = Bumped(plan[p].task)
  BY <1>1 DEF CancelPlan, Ended
<1>3. /\ Told(p, plan[p].version + 1, "cancelled") \subseteq notices'
      /\ ToldOnward(p, plan[p].version + 1, "cancelled") \subseteq notices'
  BY DEF CancelPlan
<1> HIDE DEF row
<1>. QED
  BY <1>2, <1>3, NodeTold

\* A request, or its return, leaves the plan in force as it is.
LEMMA RequestTells ==
  ASSUME IInv, NEW p \in Plans, NEW s \in Plans,
         \/ \E entries \in Seq(EntryType) : Propose(p, entries)
         \/ ReturnPlan(p)
  PROVE  ChangeIsTold(s)
<1>1. plan[p] \in PlanType /\ p \in DOMAIN plan
  BY OrderOfNode
<1>2. PICK entries \in Seq(EntryType), state \in States :
         plan' = [plan EXCEPT ![p] = Asked(plan[p], entries, state)]
  <2>1. ASSUME NEW e \in Seq(EntryType), Propose(p, e)
        PROVE  \E entries \in Seq(EntryType), state \in States :
                 plan' = [plan EXCEPT ![p] = Asked(plan[p], entries, state)]
    <3> DEFINE state == IF plan[p].state \in {"confirmed", "revision_pending"}
                        THEN "revision_pending" ELSE "submitted"
    <3>1. plan' = [plan EXCEPT ![p] = Asked(plan[p], e, state)]
      BY <1>1, <2>1 DEF Propose, Asked
    <3>2. state \in States
      BY DEF States
    <3> HIDE DEF state
    <3>. QED  BY <3>1, <3>2
  <2>2. ASSUME ReturnPlan(p)
        PROVE  \E entries \in Seq(EntryType), state \in States :
                 plan' = [plan EXCEPT ![p] = Asked(plan[p], entries, state)]
    <3> DEFINE state == IF plan[p].state = "revision_pending" \/ Batches(p) # {}
                        THEN "confirmed" ELSE "pending"
               none == <<>>
    <3>1. plan' = [plan EXCEPT ![p] = Asked(plan[p], none, state)]
      BY <1>1, <2>2 DEF ReturnPlan, Asked
    <3>2. state \in States /\ none \in Seq(EntryType)
      BY DEF States
    <3> HIDE DEF state, none
    <3>. QED  BY <3>1, <3>2
  <2>. QED  BY <2>1, <2>2
<1> DEFINE row == Asked(plan[p], entries, state)
<1>3. row.due = plan[p].due /\ row.q = plan[p].q /\ row.cancelled = plan[p].cancelled
  BY <1>1, RowKeeps
<1>4. plan' = [plan EXCEPT ![p] = row] /\ batch' = batch /\ task' = Bumped(plan[p].task)
  BY <1>2 DEF Propose, ReturnPlan
<1> HIDE DEF row
<1>. QED
  BY <1>3, <1>4, NodeTold

LEMMA LockTaskTells ==
  ASSUME IInv, NEW t \in Tasks, NEW locked \in BOOLEAN, LockTask(t, locked), NEW s \in Plans
  PROVE  ChangeIsTold(s)
<1> DEFINE open == Active(Nodes(t))
<1>1. plan[s].task \in Tasks /\ plan[s] \in PlanType /\ s \in DOMAIN plan
  BY OrderOfNode
<1>2. /\ plan' = Revised(open) /\ batch' = batch
      /\ task' = [task EXCEPT ![t].locked = locked, ![t].version = @ + 1]
      /\ \A p \in open : \E action : Told(p, plan[p].version + 1, action) \subseteq notices'
  BY DEF LockTask
<1>3. plan'[s] = IF s \in open THEN Bump(plan[s]) ELSE plan[s]
  BY <1>1, <1>2 DEF Revised, Bump, Plans
<1>4. plan'[s].due = plan[s].due /\ plan'[s].q = plan[s].q /\ plan'[s].cancelled = plan[s].cancelled
  BY <1>1, <1>3, RowKeeps
<1>5. CASE s \in open
  <2>1. IsTold(s, s)
    BY <1>2, <1>5, OwnIsTold
  <2>2. CommitmentOf(s)' = CommitmentOf(s)
    BY <1>2, <1>4 DEF CommitmentOf, Batches
  <2>. QED  BY <2>1, <2>2 DEF ChangeIsTold
<1>6. CASE s \notin open
  <2>1. CommitmentOf(s)' = CommitmentOf(s)
    BY <1>2, <1>4 DEF CommitmentOf, Batches
  <2>2. ~plan[s].cancelled => plan[s].task # t
    BY <1>1, <1>6 DEF Active, Nodes, Plans
  <2>3. plan[s].task # t => task'[plan[s].task] = task[plan[s].task]
    BY <1>1, <1>2 DEF Tasks
  <2>. QED  BY <2>1, <2>2, <2>3 DEF ChangeIsTold
<1>. QED
  BY <1>5, <1>6

LEMMA DeleteTaskTells ==
  ASSUME IInv, NEW t \in Tasks, DeleteTask(t), NEW s \in Plans
  PROVE  ChangeIsTold(s)
<1> DEFINE open == Active(Nodes(t))
<1>1. plan[s].task \in Tasks /\ plan[s] \in PlanType /\ s \in DOMAIN plan
  BY OrderOfNode
<1>2. /\ batch' = batch
      /\ task' = [task EXCEPT ![t].deleted = TRUE, ![t].version = @ + 1]
      /\ plan' = [p \in Plans |-> IF p \in open THEN Closed(plan[p]) ELSE plan[p]]
      /\ \A p \in open : /\ Told(p, plan[p].version + 1, "cancelled") \subseteq notices'
                         /\ ToldOnward(p, plan[p].version + 1, "cancelled") \subseteq notices'
  <2>1. /\ batch' = batch
        /\ task' = [task EXCEPT ![t].deleted = TRUE, ![t].version = @ + 1]
        /\ plan' = [p \in Plans |-> IF p \in open THEN Closed(plan[p]) ELSE plan[p]]
    BY DEF DeleteTask, Closed
  <2> DEFINE told(p) == Told(p, plan[p].version + 1, "cancelled")
                          \union ToldOnward(p, plan[p].version + 1, "cancelled")
  <2>2. notices' = notices \union UNION {told(p) : p \in open}
    BY DEF DeleteTask
  <2>3. \A p \in open : told(p) \subseteq notices'
    <3> HIDE DEF told, open
    <3>. QED  BY <2>2
  <2>. QED  BY <2>1, <2>3
<1>3. \A p \in Plans : plan'[p] = IF p \in open THEN Closed(plan[p]) ELSE plan[p]
  BY <1>2
<1>4. task'[plan[s].task].locked = task[plan[s].task].locked
  <2>1. task[t] \in TaskType
    BY RowTypes DEF IInv
  <2>2. \A r \in TaskType : Marked(r, r.locked, TRUE).locked = r.locked
    BY DEF TaskType, Marked
  <2>3. [task[t] EXCEPT !.deleted = TRUE, !.version = @ + 1].locked = task[t].locked
    BY <2>1 DEF TaskType
  <2>. QED  BY <1>1, <1>2, <2>3 DEF Tasks
<1>5. CASE s \in open
  <2>1. IsTold(s, s)
    BY <1>2, <1>5, OwnIsTold
  <2>2. ASSUME NEW u \in Successors(s), ~plan'[u].cancelled PROVE IsTold(s, u)
    <3>1. u \in Plans
      BY DEF Successors
    <3>2. plan[u] \in PlanType
      BY <3>1, RowTypes DEF IInv
    <3>3. ~plan[u].cancelled
      BY <1>3, <2>2, <3>1, <3>2, RowKeeps
    <3>. QED  BY <1>2, <1>5, <3>3, OnwardIsTold
  <2>. QED  BY <1>4, <2>1, <2>2 DEF ChangeIsTold
<1>6. CASE s \notin open
  <2>1. plan'[s] = plan[s]
    BY <1>3, <1>6
  <2>. QED  BY <1>2, <1>4, <2>1, QuietKeeps
<1>. QED
  BY <1>5, <1>6

LEMMA LinkRouteTells ==
  ASSUME IInv, NEW t \in Tasks, NEW S \in SUBSET Nodes(t), NEW steps \in [S -> 1..Len(Route)],
         LinkRoute(t, steps), NEW s \in Plans
  PROVE  ChangeIsTold(s)
<1> DEFINE moved == {p \in DOMAIN steps : steps[p] # plan[p].step}
           to(p) == IF p \in DOMAIN steps THEN steps[p] ELSE plan[p].step
<1>1. plan[s].task \in Tasks /\ plan[s] \in PlanType /\ s \in DOMAIN plan
  BY OrderOfNode
<1>2. plan' = [p \in Plans |-> Moved(Revised(moved)[p], to(p))] /\ batch' = batch /\ task' = Bumped(t)
  BY DEF LinkRoute, Moved
<1>3. Revised(moved)[s] = IF s \in moved THEN Bump(plan[s]) ELSE plan[s]
  BY DEF Revised, Bump
<1>4. to(s) \in Nat
  <2>1. plan[s].step \in Nat
    BY <1>1 DEF PlanType
  <2>2. s \in DOMAIN steps => steps[s] \in Nat
    OBVIOUS
  <2>. QED  BY <2>1, <2>2
<1> HIDE DEF moved, to
<1>5. plan'[s] = Moved(Revised(moved)[s], to(s))
  BY <1>2
<1>6. plan'[s].due = plan[s].due /\ plan'[s].q = plan[s].q /\ plan'[s].cancelled = plan[s].cancelled
  <2>1. Revised(moved)[s] \in PlanType /\ Revised(moved)[s].due = plan[s].due
        /\ Revised(moved)[s].q = plan[s].q /\ Revised(moved)[s].cancelled = plan[s].cancelled
    BY <1>1, <1>3, RowKeeps
  <2> DEFINE r == Revised(moved)[s]
             k == to(s)
  <2>2. r \in PlanType /\ k \in Nat /\ plan'[s] = Moved(r, k)
    BY <1>4, <1>5, <2>1
  <2>3. r.due = plan[s].due /\ r.q = plan[s].q /\ r.cancelled = plan[s].cancelled
    BY <2>1
  <2> HIDE DEF r, k
  <2>4. Moved(r, k).due = r.due /\ Moved(r, k).q = r.q /\ Moved(r, k).cancelled = r.cancelled
    BY <2>2, RowKeeps
  <2>. QED  BY <2>2, <2>3, <2>4
<1>7. task'[plan[s].task].locked = task[plan[s].task].locked
  BY <1>2, LockStays
<1>. QED
  BY <1>2, <1>6, <1>7, QuietKeeps

LEMMA UpdateTaskTells ==
  ASSUME IInv, NEW t \in Tasks, NEW final, NEW dates, UpdateTask(t, final, dates), NEW s \in Plans
  PROVE  ChangeIsTold(s)
<1>1. plan[s].task \in Tasks /\ task[plan[s].task] \in TaskType
  BY OrderOfNode, RowTypes DEF IInv
<1>2. plan' = plan /\ batch' = batch
      /\ task' = [task EXCEPT ![t].final = final, ![t].customer = dates, ![t].version = @ + 1]
  BY DEF UpdateTask
<1>3. \A r \in TaskType :
        [r EXCEPT !.final = final, !.customer = dates, !.version = r.version + 1].locked = r.locked
  BY DEF TaskType
<1>4. task'[plan[s].task] =
        IF plan[s].task = t
        THEN [task[t] EXCEPT !.final = final, !.customer = dates, !.version = task[t].version + 1]
        ELSE task[plan[s].task]
  BY <1>1, <1>2 DEF Tasks
<1>5. task'[plan[s].task].locked = task[plan[s].task].locked
  BY <1>1, <1>3, <1>4
<1>. QED
  BY <1>2, <1>5, QuietKeeps

LEMMA CreateTaskTells ==
  ASSUME IInv, NEW dates, NEW final \in Nat, NEW q \in Nat \ {0}, CreateTask(dates, final, q),
         NEW s \in Plans
  PROVE  ChangeIsTold(s)
<1> DEFINE nodes == NewNodes(Len(plan), Len(task) + 1, final, q)
           row == [version |-> 1, final |-> final, customer |-> dates,
                   locked |-> FALSE, deleted |-> FALSE]
<1>1. plan[s].task \in DOMAIN task /\ s \in DOMAIN plan /\ plan \in Seq(PlanType) /\ task \in Seq(TaskType)
  BY OrderOfNode DEF IInv, TypeOK, Tasks
<1>2. plan' = plan \o nodes /\ batch' = batch /\ task' = Append(task, row)
  BY DEF CreateTask
<1>3. nodes \in Seq(PlanType)
  <2>1. /\ Len(plan) \in Nat /\ Len(task) + 1 \in Nat \ {0}
    BY RowTypes DEF IInv
  <2>. QED  BY <2>1, NewNodesType
<1> HIDE DEF nodes, row
<1>4. plan'[s] = plan[s]
  BY <1>1, <1>2, <1>3, RowsAdded
<1>5. task'[plan[s].task] = task[plan[s].task]
  BY <1>1, <1>2
<1>. QED
  BY <1>2, <1>4, <1>5, QuietKeeps

\* The batches of a node are saved: the other nodes keep theirs; its own change is
\* told where there is one.
LEMMA SaveTells ==
  ASSUME IInv, NEW p \in Plans, NEW entries \in Seq(EntryType), entries # <<>>,
         SaveBatches(p, entries), NEW s \in Plans
  PROVE  ChangeIsTold(s)
<1>1. /\ BatchesFit(p, entries) /\ batch' = Written(p, entries)
      /\ \A u \in Plans : u # p => plan'[u] = plan[u]
      /\ plan' \in Seq(PlanType) /\ DOMAIN plan' = DOMAIN plan
      /\ task' = Bumped(plan[p].task)
  BY SaveWrites
<1>2. task'[plan[s].task].locked = task[plan[s].task].locked
  BY <1>1, OrderOfNode, LockStays
<1>3. \A u \in Plans : u # p => Batches(u)' = Batches(u) /\ \A b \in Batches(u) : batch'[b] = batch[b]
  <2>1. /\ \A u : u # p => /\ InForce(Written(p, entries), u) = Batches(u)
                           /\ \A b \in Batches(u) : Written(p, entries)[b] = batch[b]
    <3>1. NamedOnce(entries) /\ Kept(entries) \subseteq Batches(p)
      BY <1>1 DEF BatchesFit
    <3>. QED  BY <3>1, WrittenInForce
  <2>2. \A u : Batches(u)' = InForce(batch', u)
    BY DEF Batches, InForce
  <2>. QED  BY <1>1, <2>1, <2>2
<1>4. CASE s # p
  <2>1. CommitmentOf(s)' = CommitmentOf(s)
    BY <1>1, <1>3, <1>4 DEF CommitmentOf
  <2>. QED  BY <1>2, <2>1 DEF ChangeIsTold
<1>5. CASE s = p
  <2>1. plan[p] \in PlanType /\ plan'[p] \in PlanType /\ p \in DOMAIN plan
    BY <1>1, OrderOfNode
  <2>2. plan'[p].cancelled = plan[p].cancelled
    BY SaveWrites
  <2> DEFINE v == plan[p].version + 1
             same == <<batch', [plan'[p] EXCEPT !.version = @ - 1]>> = <<batch, plan[p]>>
             still == <<batch', plan'[p].due, plan'[p].q>> = <<batch, plan[p].due, plan[p].q>>
  <2>3. notices' = IF same THEN notices
                   ELSE notices \union Told(p, v, "batches")
                          \union (IF still THEN {} ELSE ToldOnward(p, v, "batches"))
    BY DEF SaveBatches
  <2>4. same => still
    <3> SUFFICES ASSUME same PROVE still
      OBVIOUS
    <3>1. \A r \in PlanType : [r EXCEPT !.version = r.version - 1].due = r.due
                              /\ [r EXCEPT !.version = r.version - 1].q = r.q
      BY DEF PlanType
    <3>2. batch' = batch /\ [plan'[p] EXCEPT !.version = plan'[p].version - 1] = plan[p]
      OBVIOUS
    <3>. QED  BY <2>1, <3>1, <3>2
  <2> HIDE DEF v, same
  <2>5. still => CommitmentOf(p)' = CommitmentOf(p)
    BY <2>2 DEF CommitmentOf, Batches
  <2> HIDE DEF still
  <2>6. CASE still
    BY <1>2, <1>5, <2>5, <2>6 DEF ChangeIsTold
  <2>7. CASE ~still
    <3>1. Told(p, v, "batches") \subseteq notices' /\ ToldOnward(p, v, "batches") \subseteq notices'
      BY <2>3, <2>4, <2>7
    <3>2. IsTold(p, p)
      BY <3>1, OwnIsTold DEF v
    <3>3. ASSUME NEW u \in Successors(p), ~plan'[u].cancelled PROVE IsTold(p, u)
      <4>1. u \in Plans /\ u # p
        <5>1. u \in DOMAIN plan /\ plan[u].pred = p
          BY DEF Successors, Plans
        <5>3. KeysExist(task, plan, batch, lot) /\ u \in Nat
          BY <5>1, RowTypes DEF IInv, TypeOK, Plans
        <5>2. plan[u].pred \in 0..(u - 1) /\ u \in Nat
          BY <5>1, <5>3 DEF KeysExist
        <5>. QED  BY <5>1, <5>2 DEF Plans
      <4>2. ~plan[u].cancelled
        BY <1>1, <3>3, <4>1
      <4>. QED  BY <3>1, <4>2, OnwardIsTold DEF v
    <3>. QED  BY <1>2, <1>5, <3>2, <3>3 DEF ChangeIsTold
  <2>. QED  BY <2>6, <2>7
<1>. QED
  BY <1>4, <1>5

-----------------------------------------------------------------------------
(* Notices of deadlines.                                                    *)

\* A set of numbers that an initial segment indexes has a greatest and a least one.
LEMMA ExtremesExist ==
  ASSUME NEW n \in Nat, NEW f \in [1..n -> Nat], NEW T \in SUBSET (1..n), T # {}
  PROVE  /\ \E i \in T : \A j \in T : f[i] >= f[j]
         /\ \E i \in T : \A j \in T : f[i] <= f[j]
<1>1. n \in Nat \ {0}
  <2>1. PICK t \in T : TRUE
    OBVIOUS
  <2>2. t \in 1..n
    OBVIOUS
  <2>. QED  BY <2>2
<1>2. PICK M \in Nat : \A i \in 1..n : f[i] <= M
  BY <1>1, GreatestExists
<1> DEFINE up == [i \in 1..n |-> IF i \in T THEN f[i] + 1 ELSE 0]
           down == [i \in 1..n |-> IF i \in T THEN (M - f[i]) + 1 ELSE 0]
<1>3. \A i \in 1..n : f[i] \in Nat /\ M - f[i] \in Nat
  BY <1>2
<1>4. up \in [1..n -> Nat] /\ down \in [1..n -> Nat]
  BY <1>3
<1>5. \A i \in 1..n : /\ up[i] = IF i \in T THEN f[i] + 1 ELSE 0
                      /\ down[i] = IF i \in T THEN (M - f[i]) + 1 ELSE 0
  OBVIOUS
<1> HIDE DEF up, down
<1>6. \E i \in 1..n : \A j \in 1..n : up[j] <= up[i]
  BY <1>1, <1>4, GreatestExists
<1>7. \E i \in 1..n : \A j \in 1..n : down[j] <= down[i]
  BY <1>1, <1>4, GreatestExists
<1>8. \E i \in T : \A j \in T : f[i] >= f[j]
  <2>1. PICK i \in 1..n : \A j \in 1..n : up[j] <= up[i]
    BY <1>6
  <2>2. PICK t \in T : TRUE
    OBVIOUS
  <2>3. up[t] >= 1 /\ up[t] <= up[i]
    BY <1>3, <1>5, <2>1, <2>2
  <2>4. i \in T
    BY <1>3, <1>5, <2>2, <2>3
  <2>5. \A j \in T : /\ f[j] \in Nat /\ f[i] \in Nat
                      /\ f[j] + 1 = up[j] /\ f[i] + 1 = up[i] /\ up[j] <= up[i]
    BY <1>3, <1>5, <2>1, <2>4
  <2>6. \A j \in T : f[i] >= f[j]
    BY <2>5
  <2>. QED  BY <2>4, <2>6
<1>9. \E i \in T : \A j \in T : f[i] <= f[j]
  <2>1. PICK i \in 1..n : \A j \in 1..n : down[j] <= down[i]
    BY <1>7
  <2>2. PICK t \in T : TRUE
    OBVIOUS
  <2>3. down[t] >= 1 /\ down[t] <= down[i]
    BY <1>3, <1>5, <2>1, <2>2
  <2>4. i \in T
    BY <1>3, <1>5, <2>2, <2>3
  <2>5. \A j \in T : /\ f[j] \in Nat /\ f[i] \in Nat
                      /\ (M - f[j]) + 1 = down[j] /\ (M - f[i]) + 1 = down[i] /\ down[j] <= down[i]
    BY <1>3, <1>5, <2>1, <2>4
  <2>6. \A j \in T : f[i] <= f[j]
    BY <2>5
  <2>. QED  BY <2>4, <2>6
<1>. QED
  BY <1>8, <1>9

LEMMA ReachedType ==
  ASSUME IInv, NEW D \in SUBSET Lots, NEW target
  PROVE  Reached(D, target) \in Nat
<1> DEFINE upTo(d) == {e \in D : lot[e].at <= lot[d].at}
           T == {e \in D : Sum(upTo(e)) >= target}
           times == {lot[d].at : d \in T}
           f == [l \in 1..Len(lot) |-> lot[l].at]
<1>1. Reached(D, target) = IF times = {} THEN None ELSE Min(times)
  BY DEF Reached
<1>2. T \in SUBSET (1..Len(lot)) /\ Len(lot) \in Nat /\ f \in [1..Len(lot) -> Nat]
  <2>1. \A l \in Lots : lot[l].at \in Nat
    BY LotsNow DEF LotType
  <2>. QED  BY <2>1, LotsNow
<1>3. \A d \in T : f[d] = lot[d].at /\ f[d] \in Nat
  BY <1>2
<1> HIDE DEF T, f
<1>4. CASE times = {}
  BY <1>1, <1>4 DEF None
<1>5. CASE times # {}
  <2>1. T # {}
    BY <1>5
  <2>2. \E i \in T : \A j \in T : f[i] <= f[j]
    BY <1>2, <2>1, ExtremesExist
  <2>3. \E x \in times : \A y \in times : x <= y
    BY <1>3, <2>2
  <2>4. Min(times) \in times
    BY <2>3 DEF Min
  <2>5. times \subseteq Nat
    BY <1>3
  <2>. QED  BY <1>1, <1>5, <2>4, <2>5
<1>. QED
  BY <1>4, <1>5

LEMMA BatchDoneType ==
  ASSUME IInv, NEW b
  PROVE  BatchDone(b) \in Nat
<1> DEFINE own == {d \in Counted(batch[b].plan) : delivery[d].batch = b}
<1>1. own \in SUBSET Lots
  BY DEF Counted, Deliveries, IInv, TypeOK
<1>2. BatchDone(b) = IF Assessed(batch[b].plan) THEN Reached(own, batch[b].q) ELSE None
  BY DEF BatchDone
<1> HIDE DEF own
<1>. QED
  BY <1>1, <1>2, ReachedType DEF None

\* A node with batches that is not complete has a batch that is not.
LEMMA OpenNodeHasOpenBatch ==
  ASSUME IInv, NEW p \in Plans, Assessed(p), Batches(p) # {}, PlanDone(p) = None
  PROVE  \E b \in Batches(p) : BatchDone(b) = None
<1> DEFINE ends == {BatchDone(b) : b \in Batches(p)}
<1>1. Batches(p) \in SUBSET (1..Len(batch)) /\ Len(batch) \in Nat
  BY RowTypes DEF IInv, Batches
<1>2. \A b \in Batches(p) : batch[b].plan = p
  BY DEF Batches
<1>3. CASE Counted(p) = {}
  <2>1. PICK b \in Batches(p) : TRUE
    OBVIOUS
  <2>2. {d \in Counted(batch[b].plan) : delivery[d].batch = b} = {}
    BY <1>2, <1>3
  <2>3. BatchDone(b) = Reached({}, batch[b].q)
    BY <1>2, <2>2 DEF BatchDone
  <2>4. Reached({}, batch[b].q) = None
    BY DEF Reached
  <2>. QED  BY <2>3, <2>4
<1>4. CASE Counted(p) # {} /\ None \notin ends
  <2>1. PlanDone(p) = Max(ends)
    BY <1>4 DEF PlanDone
  <2> DEFINE f == [b \in 1..Len(batch) |-> BatchDone(b)]
  <2>2. f \in [1..Len(batch) -> Nat] /\ \A b \in Batches(p) : f[b] = BatchDone(b)
    BY <1>1, BatchDoneType
  <2> HIDE DEF f
  <2>3. \E i \in Batches(p) : \A j \in Batches(p) : f[i] >= f[j]
    BY <1>1, <2>2, ExtremesExist
  <2>4. \E x \in ends : \A y \in ends : x >= y
    BY <2>2, <2>3
  <2>5. Max(ends) \in ends
    BY <2>4 DEF Max
  <2>. QED  BY <1>4, <2>1, <2>5
<1>5. CASE None \in ends
  BY <1>5
<1>. QED
  BY <1>3, <1>4, <1>5

LEMMA PollTellsLateness ==
  ASSUME IInv
  PROVE  LatenessIsTold
<1> SUFFICES ASSUME Refresh(Teams), NEW p \in Plans, Status(p) = "overdue"
             PROVE  \E key \in notices' : /\ key[4] = "overdue"
                                          /\ \/ key[1] = "node" /\ key[2] = p
                                             \/ key[1] = "batch" /\ key[2] \in Batches(p)
  BY DEF LatenessIsTold
<1>1. Deadlines(Teams) \subseteq notices'
  BY DEF Refresh
<1>2. plan[p] \in PlanType /\ now \in Nat /\ now \in Int /\ DayLength \in Nat
  BY OrderOfNode, LotsNow, FormsAssumption DEF FormsAssumption
<1>3. /\ plan[p].team \in Teams /\ plan[p].due \in Nat
      /\ plan[p].state \in {"pending", "submitted", "confirmed", "revision_pending"}
  BY <1>2 DEF PlanType
<1>4. /\ ~plan[p].cancelled /\ Assessed(p) /\ PlanDone(p) = None
      /\ ~(plan[p].state \in {"pending", "submitted"} /\ Batches(p) = {})
      /\ \/ plan[p].due < now
         \/ \E b \in Batches(p) : BatchDone(b) = None /\ batch[b].due < now
  BY DEF Status
<1> DEFINE mine == {q \in Active(Plans) : plan[q].team \in Teams /\ Assessed(q)}
<1>5. p \in mine
  BY <1>3, <1>4 DEF Active
<1>6. CASE Batches(p) = {}
  <2> DEFINE key == DueKey("node", p, plan[p].due)
  <2>1. plan[p].due <= now + DayLength
    BY <1>2, <1>3, <1>4, <1>6
  <2>2. key \in Deadlines(Teams)
    BY <1>3, <1>4, <1>5, <1>6, <2>1 DEF Deadlines
  <2>3. key[1] = "node" /\ key[2] = p /\ key[4] = "overdue"
    BY <1>4, <1>6 DEF DueKey
  <2> HIDE DEF key
  <2>. QED  BY <1>1, <2>2, <2>3
<1>7. CASE Batches(p) # {}
  <2>1. \A b \in Batches(p) : batch[b].due \in Nat
    <3>1. \A b \in Batches(p) : batch[b] \in BatchType
      BY RowTypes DEF IInv, Batches
    <3>. QED  BY <3>1 DEF BatchType
  <2>2. \E b \in Batches(p) : BatchDone(b) = None /\ batch[b].due < now
    <3>1. CASE plan[p].due < now
      <4>1. PICK b \in Batches(p) : BatchDone(b) = None
        BY <1>4, <1>7, OpenNodeHasOpenBatch
      <4>2. batch[b].due <= plan[p].due
        <5>1. plan[p].due = Max({batch[c].due : c \in Batches(p)})
          BY <1>7, BatchesAreInForce DEF IInv, PlansHangTogether, PlansAgree, PlanAgrees, Plans
        <5> DEFINE N == Len(batch)
                   f == [c \in 1..N |-> batch[c].due]
                   dues == {batch[c].due : c \in Batches(p)}
        <5>2. Batches(p) \in SUBSET (1..N) /\ N \in Nat /\ f \in [1..N -> Nat]
          <6>1. \A c \in 1..N : batch[c].due \in Nat
            BY RowTypes DEF IInv, BatchType
          <6>. QED  BY <6>1, RowTypes DEF IInv, Batches
        <5>3. \A c \in Batches(p) : f[c] = batch[c].due
          BY <5>2
        <5> HIDE DEF f, N
        <5>4. \E i \in Batches(p) : \A j \in Batches(p) : f[i] >= f[j]
          BY <1>7, <5>2, ExtremesExist
        <5>5. \E x \in dues : \A y \in dues : x >= y
          BY <5>3, <5>4
        <5>6. \A y \in dues : Max(dues) >= y
          BY <5>5 DEF Max
        <5>. QED  BY <1>3, <2>1, <5>1, <5>6
      <4>. QED  BY <1>2, <1>3, <2>1, <3>1, <4>1, <4>2
    <3>. QED  BY <1>4, <3>1
  <2>3. PICK b \in Batches(p) : BatchDone(b) = None /\ batch[b].due < now
    BY <2>2
  <2> DEFINE key == DueKey("batch", b, batch[b].due)
  <2>4. batch[b].due <= now + DayLength
    BY <1>2, <2>1, <2>3
  <2>5. key \in Deadlines(Teams)
    BY <1>5, <2>3, <2>4 DEF Deadlines
  <2>6. key[1] = "batch" /\ key[2] = b /\ key[4] = "overdue"
    BY <2>3 DEF DueKey
  <2> HIDE DEF key
  <2>. QED  BY <1>1, <2>5, <2>6
<1>. QED
  BY <1>6, <1>7

LEMMA PollTellsOpen ==
  ASSUME NEW teams, Refresh(teams)
  PROVE  OnlyOpenIsTold
<1> SUFFICES ASSUME NEW key \in NewNotices
             PROVE  /\ key[1] = "node" => Status(key[2]) \in {"overdue", "today", "pending"}
                    /\ key[1] = "batch" => BatchStatus(key[2]) \in {"overdue", "today", "pending"}
  BY DEF OnlyOpenIsTold
<1>1. key \in Deadlines(teams)
  BY DEF Refresh, NewNotices
<1>2. \/ \E p \in Plans : /\ key = DueKey("node", p, plan[p].due)
                          /\ ~plan[p].cancelled /\ Assessed(p) /\ PlanDone(p) = None
      \/ \E p \in Plans : \E b \in Batches(p) :
           /\ key = DueKey("batch", b, batch[b].due)
           /\ ~plan[p].cancelled /\ Assessed(p) /\ BatchDone(b) = None
  BY <1>1 DEF Deadlines, Active
<1>3. ASSUME NEW p \in Plans, key = DueKey("node", p, plan[p].due),
             ~plan[p].cancelled, Assessed(p), PlanDone(p) = None
      PROVE  key[1] = "node" /\ Status(key[2]) \in {"overdue", "today", "pending"}
  <2>1. key[1] = "node" /\ key[2] = p
    BY <1>3 DEF DueKey
  <2>2. Status(p) \in {"overdue", "today", "pending"}
    BY <1>3 DEF Status
  <2>. QED  BY <2>1, <2>2
<1>4. ASSUME NEW p \in Plans, NEW b \in Batches(p), key = DueKey("batch", b, batch[b].due),
             ~plan[p].cancelled, Assessed(p), BatchDone(b) = None
      PROVE  key[1] = "batch" /\ BatchStatus(key[2]) \in {"overdue", "today", "pending"}
  <2>1. key[1] = "batch" /\ key[2] = b
    BY <1>4 DEF DueKey
  <2>2. BatchStatus(b) \in {"overdue", "today", "pending"}
    BY <1>4 DEF BatchStatus, Batches
  <2>. QED  BY <2>1, <2>2
<1>. QED
  BY <1>2, <1>3, <1>4

-----------------------------------------------------------------------------
(* Every step.                                                              *)

LEMMA BooksStay ==
  ASSUME NEW s, UNCHANGED books
  PROVE  ChangeIsTold(s)
BY QuietKeeps DEF books

\* A step that is not a poll writes notices of orders and of nodes only.
Papers == \A key \in NewNotices : key[1] \in {"plan", "task"}

LEMMA PapersAreOpen == Papers => OnlyOpenIsTold
BY DEF Papers, OnlyOpenIsTold

LEMMA OrdersTell ==
  ASSUME IInv, Orders
  PROVE  (\A s \in Plans : ChangeIsTold(s)) /\ Papers
<1>1. Dues \subseteq Nat /\ Amounts \subseteq Nat \ {0}
  BY FormsAssumption DEF FormsAssumption
<1>2. ASSUME NEW final \in Dues, NEW dates, NEW q \in Amounts, CreateTask(dates, final, q)
      PROVE  (\A s \in Plans : ChangeIsTold(s)) /\ Papers
  <2>1. final \in Nat /\ q \in Nat \ {0}
    BY <1>1
  <2>2. Papers
    BY <1>2 DEF CreateTask, Papers, NewNotices, Told
  <2>. QED  BY <1>2, <2>1, <2>2, CreateTaskTells
<1>3. ASSUME NEW t \in Tasks, NEW final, NEW dates, UpdateTask(t, final, dates)
      PROVE  (\A s \in Plans : ChangeIsTold(s)) /\ Papers
  <2>1. Papers
    BY <1>3 DEF UpdateTask, Papers, NewNotices
  <2>. QED  BY <1>3, <2>1, UpdateTaskTells
<1>4. ASSUME NEW t \in Tasks, NEW locked \in BOOLEAN, LockTask(t, locked)
      PROVE  (\A s \in Plans : ChangeIsTold(s)) /\ Papers
  <2>1. Papers
    BY <1>4 DEF LockTask, Papers, NewNotices, Told
  <2>. QED  BY <1>4, <2>1, LockTaskTells
<1>5. ASSUME NEW t \in Tasks, DeleteTask(t) PROVE (\A s \in Plans : ChangeIsTold(s)) /\ Papers
  <2>1. Papers
    <3> DEFINE told(p) == Told(p, plan[p].version + 1, "cancelled")
                            \union ToldOnward(p, plan[p].version + 1, "cancelled")
    <3>1. NewNotices \subseteq UNION {told(p) : p \in Active(Nodes(t))}
      <4>1. notices' = notices \union UNION {told(p) : p \in Active(Nodes(t))}
        BY <1>5 DEF DeleteTask
      <4> HIDE DEF told
      <4>. QED  BY <4>1 DEF NewNotices
    <3>2. \A p : \A key \in told(p) : key[1] = "plan"
      BY DEF Told, ToldOnward
    <3> HIDE DEF told
    <3>. QED  BY <3>1, <3>2 DEF Papers
  <2>. QED  BY <1>5, <2>1, DeleteTaskTells
<1>6. ASSUME NEW t \in Tasks, NEW S \in SUBSET Nodes(t) \ {{}},
             NEW steps \in [S -> 1..Len(Route)], LinkRoute(t, steps)
      PROVE  (\A s \in Plans : ChangeIsTold(s)) /\ Papers
  <2>1. Papers
    BY <1>6 DEF LinkRoute, Papers, NewNotices
  <2>. QED  BY <1>6, <2>1, LinkRouteTells
<1>. QED
  BY <1>2, <1>3, <1>4, <1>5, <1>6 DEF Orders

LEMMA SavePapers ==
  ASSUME NEW p, NEW entries, SaveBatches(p, entries)
  PROVE  Papers
<1> DEFINE v == plan[p].version + 1
<1>1. NewNotices \subseteq Told(p, v, "batches") \union ToldOnward(p, v, "batches")
  BY DEF SaveBatches, NewNotices
<1>. QED
  BY <1>1 DEF Papers, Told, ToldOnward

LEMMA EditsTell ==
  ASSUME IInv, Edits
  PROVE  (\A s \in Plans : ChangeIsTold(s)) /\ Papers
<1>1. Dues \subseteq Nat /\ Amounts \subseteq Nat \ {0}
  BY FormsAssumption DEF FormsAssumption
<1>2. \A p \in Plans : plan[p].due \in Nat /\ plan[p].q \in Nat \ {0} /\ plan[p].sources \in SUBSET Nat
  BY OrderOfNode DEF PlanType
<1>3. ASSUME NEW p \in Plans, NEW due \in Nat, NEW q \in Nat \ {0}, NEW S \in SUBSET Nat,
             UpdatePlan(p, due, q, S)
      PROVE  (\A s \in Plans : ChangeIsTold(s)) /\ Papers
  <2>1. Papers
    BY <1>3 DEF UpdatePlan, Papers, NewNotices, Told, ToldOnward
  <2>. QED  BY <1>3, <2>1, UpdatePlanTells
<1>4. ASSUME NEW p \in Plans, CancelPlan(p) PROVE (\A s \in Plans : ChangeIsTold(s)) /\ Papers
  <2>1. Papers
    BY <1>4 DEF CancelPlan, Papers, NewNotices, Told, ToldOnward
  <2>. QED  BY <1>4, <2>1, CancelPlanTells
<1>5. ASSUME NEW p \in Plans, NEW entries \in Requests(p), Propose(p, entries)
      PROVE  (\A s \in Plans : ChangeIsTold(s)) /\ Papers
  <2>1. Papers
    BY <1>5 DEF Propose, Papers, NewNotices
  <2>. QED  BY <1>5, <2>1, RequestsType, RequestTells
<1>6. ASSUME NEW p \in Plans, NEW entries \in Requests(p), DispatchBatches(p, entries)
      PROVE  (\A s \in Plans : ChangeIsTold(s)) /\ Papers
  <2>1. SaveBatches(p, entries) /\ entries \in Seq(EntryType) /\ entries # <<>>
    BY <1>6, RequestsType DEF DispatchBatches
  <2>. QED  BY <2>1, SavePapers, SaveTells
<1>7. ASSUME NEW p \in Plans, ReviewPlan(p) PROVE (\A s \in Plans : ChangeIsTold(s)) /\ Papers
  BY <1>7, BooksStay DEF ReviewPlan, Papers, NewNotices
<1>8. ASSUME NEW p \in Plans, ReturnPlan(p) PROVE (\A s \in Plans : ChangeIsTold(s)) /\ Papers
  <2>1. Papers
    <3>1. NewNotices \subseteq Told(p, plan[p].version + 1, "returned")
      BY <1>8 DEF ReturnPlan, NewNotices
    <3>. QED  BY <3>1 DEF Papers, Told
  <2>. QED  BY <1>8, <2>1, RequestTells
<1>9. ASSUME NEW p \in Plans, NEW due \in Dues, NEW q \in Amounts \union {plan[p].q},
             UpdatePlan(p, due, q, plan[p].sources)
      PROVE  (\A s \in Plans : ChangeIsTold(s)) /\ Papers
  <2>1. due \in Nat /\ q \in Nat \ {0}
    BY <1>1, <1>2
  <2>. QED  BY <1>2, <1>3, <1>9, <2>1
<1>10. ASSUME NEW p \in Plans, NEW l \in Lots, UpdatePlan(p, plan[p].due, plan[p].q, {l})
       PROVE  (\A s \in Plans : ChangeIsTold(s)) /\ Papers
  <2>1. {l} \in SUBSET Nat
    BY LotsNow
  <2>. QED  BY <1>2, <1>3, <1>10, <2>1
<1>. QED
  BY <1>4, <1>5, <1>6, <1>7, <1>8, <1>9, <1>10 DEF Edits

LEMMA ApproveTells ==
  ASSUME IInv, ApplyReview
  PROVE  (\A s \in Plans : ChangeIsTold(s)) /\ Papers
<1>1. CASE UNCHANGED <<books, notices>>
  BY <1>1, BooksStay DEF Papers, NewNotices
<1>2. CASE SaveBatches(review.plan, review.entries)
  <2>1. review.plan \in Plans /\ review.entries \in Seq(EntryType) /\ review.entries # <<>>
    BY DEF ApplyReview, IInv, ReviewIsOfItsRevision
  <2>. QED  BY <1>2, <2>1, SavePapers, SaveTells
<1>. QED
  BY <1>1, <1>2 DEF ApplyReview

LEMMA MovesAreQuiet ==
  ASSUME Moves
  PROVE  UNCHANGED <<books, notices>>
<1>1. \A l, n, named : Process(l, n, named) => UNCHANGED <<books, notices>>
  BY DEF Process
<1>2. \A l, n, to, named, b : Send(l, n, to, named, b) => UNCHANGED <<books, notices>>
  BY DEF Send
<1>3. \A l : Receive(l) \/ Void(l) => UNCHANGED <<books, notices>>
  BY DEF Receive, Void
<1>. QED
  BY <1>1, <1>2, <1>3 DEF Moves

LEMMA NextTells ==
  ASSUME IInv, [Next]_vars
  PROVE  (\A p \in Plans : ChangeIsTold(p)) /\ LatenessIsTold /\ OnlyOpenIsTold
<1>1. LatenessIsTold
  BY PollTellsLateness
<1>2. CASE Orders
  BY <1>1, <1>2, OrdersTell, PapersAreOpen
<1>3. CASE Edits
  BY <1>1, <1>3, EditsTell, PapersAreOpen
<1>4. CASE ApplyReview
  BY <1>1, <1>4, ApproveTells, PapersAreOpen
<1>5. CASE Moves \/ Tick \/ UNCHANGED vars
  <2>1. UNCHANGED <<books, notices>>
    BY <1>5, MovesAreQuiet DEF Tick, vars, books
  <2>2. Papers
    BY <2>1 DEF Papers, NewNotices
  <2>. QED  BY <1>1, <2>1, <2>2, BooksStay, PapersAreOpen
<1>6. ASSUME NEW teams, Refresh(teams)
      PROVE  (\A p \in Plans : ChangeIsTold(p)) /\ OnlyOpenIsTold
  <2>1. UNCHANGED books
    BY <1>6 DEF Refresh
  <2>. QED  BY <1>6, <2>1, BooksStay, PollTellsOpen
<1>. QED
  BY <1>1, <1>2, <1>3, <1>4, <1>5, <1>6 DEF Next

\* Every change of a commitment, an order's lock included, leaves notices that were
\* not there before, for its own team and for the teams after it; a poll of all teams
\* leaves no node overdue without one; and no deadline notice is of a settled one.
THEOREM EveryoneAlwaysTold == Spec => EveryoneIsTold
<1>1. IInv /\ [Next]_vars =>
        [(\A p \in Plans : ChangeIsTold(p)) /\ LatenessIsTold /\ OnlyOpenIsTold]_vars
  BY NextTells
<1>. QED
  BY <1>1, InvariantHolds, PTL DEF Spec, EveryoneIsTold
=============================================================================
