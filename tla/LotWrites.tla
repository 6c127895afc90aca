------------------------------ MODULE LotWrites ------------------------------
(***************************************************************************)
(* How the write services of backend/app run on MySQL: create_loss,        *)
(* create_dispatch (lines or a shipment total), quantity_adjustments.create*)
(* and the per-document confirm, update and void.                          *)
(*                                                                         *)
(* Several handlers run at once.  A keyed service looks its key up in a    *)
(* short transaction of its own; the business transaction then locks its   *)
(* rows in order of id, looks the key up again in its read view, checks    *)
(* what it read under the locks, inserts under a unique key and commits.   *)
(* A read view (REPEATABLE READ) is opened by the first plain SELECT of a  *)
(* transaction and shows what was committed then.  Waits can time out or   *)
(* be chosen as deadlock victims, workers can crash, clients post again.   *)
(***************************************************************************)
EXTENDS LotRequests

CONSTANT Handler

VARIABLE handler  \* [Handler -> [pc, req, view, want, locked, answer]]

vars == <<tables, handler>>

\* view: the keys the read view shows; want: the rows to lock; locked: those held.
Idle == [pc |-> "idle", req |-> NoRequest, view |-> {}, want |-> {}, locked |-> {},
         answer |-> "none"]
Pc == {"idle", "preflight", "lookup", "lock", "check", "insert", "commit", "again"}
\* failed: an error of the server, or no answer at all.
Answer == {"none", "done", "refused", "failed"}

Goto(h, pc) == handler' = [handler EXCEPT ![h].pc = pc]
\* The transaction ends, its locks are released, and the client has its answer.
End(h, answer) == handler' = [handler EXCEPT ![h] = [Idle EXCEPT !.answer = answer]]
\* A failed statement: everything is undone, and the key is looked up once more.
RollBack(h) ==
  handler' = [handler EXCEPT ![h] = [Idle EXCEPT !.pc = "again", !.req = handler[h].req]]
\* _replay: another payload under a used key is refused.
Replay(h, r) == End(h, IF record[SlotOf(r)] = r THEN "done" ELSE "refused")

-----------------------------------------------------------------------------
(* Locks.                                                                  *)

\* Mutated: rows are read, not locked.
HeldByNobody(h, x) == FALSE
HeldByOther(h, x) == \E g \in Handler \ {h} : x \in handler[g].locked
\* Mutated: rows are locked in any order.
IsNextLockAnyOrder(h, x) == x \in handler[h].want \ handler[h].locked
\* Sources are locked in order of id; a line has a greater id than its source.
IsNextLock(h, x) ==
  /\ x \in handler[h].want \ handler[h].locked
  /\ \A y \in handler[h].want \ handler[h].locked : x <= y
\* An insert waits for another transaction's uncommitted row under the same key.
SameKey(r, s) == \/ r.op \in Keyed /\ s.op \in Keyed /\ SlotOf(r) = SlotOf(s)
                 \/ r.op = "confirm" /\ s.op = "confirm" /\ r.key = s.key
WaitsFor(h, g) ==
  /\ h # g
  /\ \/ /\ handler[h].pc = "lock"
        /\ \E x \in handler[g].locked : IsNextLock(h, x)
     \/ /\ handler[h].pc = "insert" /\ handler[g].pc = "commit"
        /\ SameKey(handler[h].req, handler[g].req)

-----------------------------------------------------------------------------
(* One request.                                                            *)

Receive(h) ==
  /\ handler[h].pc = "idle"
  /\ \E r \in Request :
       handler' = [handler EXCEPT ![h] = [Idle EXCEPT
         !.req = r, !.pc = IF r.op \in Keyed THEN "preflight" ELSE "lookup"]]
  /\ UNCHANGED tables

\* The quick replay; its read view ends with its transaction.
Preflight(h) ==
  LET r == handler[h].req IN
  /\ handler[h].pc = "preflight"
  /\ IF SlotOf(r) \in Recorded THEN Replay(h, r)
     ELSE IF r.op = "shipment" THEN Goto(h, "lookup")
     ELSE handler' = [handler EXCEPT ![h].pc = "lock", ![h].want = r.lots]
  /\ UNCHANGED tables

\* Mutated: a line that came from no lot is locked with its missing source.
FoundWithNoSource(r) == {SourceOf(r), r.line}
\* The rows found by a plain SELECT: the candidates of a shipment, or a line with its source.
Found(r) ==
  IF r.op = "shipment" THEN {l \in r.lots : IsLot(l) /\ stock[l].onHand > 0}
  ELSE {SourceOf(r), r.line} \ {0}

\* The plain SELECT runs before any lock is taken, and opens the read view.
Lookup(h) ==
  /\ handler[h].pc = "lookup"
  /\ handler' = [handler EXCEPT ![h].pc = "lock", ![h].view = Recorded,
                                ![h].want = Found(handler[h].req)]
  /\ UNCHANGED tables

\* lock_lot refuses a source that is not a received lot, as soon as it has the lock.
Lock(h) ==
  LET r == handler[h].req IN
  /\ handler[h].pc = "lock"
  /\ \E x \in Row :
       /\ IsNextLock(h, x)
       /\ ~HeldByOther(h, x)
       /\ IF x # r.line /\ ~IsLot(x) THEN End(h, "refused")
          ELSE handler' = [handler EXCEPT ![h].locked = @ \cup {x}]
  /\ UNCHANGED tables

\* Mutated: what the first look-up saw, before the wait, is used again.
LockedWithTheOldView(h) ==
  /\ handler[h].pc = "lock"
  /\ handler[h].want \subseteq handler[h].locked
  /\ Goto(h, "check")
  /\ UNCHANGED tables
\* All rows are locked: a keyed service looks its key up again in its read view,
\* which only a shipment has opened before it waited.
Locked(h) ==
  LET r == handler[h].req IN
  /\ handler[h].pc = "lock"
  /\ handler[h].want \subseteq handler[h].locked
  /\ handler' = [handler EXCEPT ![h].pc = "check",
                                ![h].view = IF r.op \in Keyed \ {"shipment"} THEN Recorded ELSE @]
  /\ UNCHANGED tables

\* Mutated: a loss does not look at what is on hand.
ChecksNoAmount(h, r) == r.op = "loss" \/ May(r)
\* The rows under lock allow the request; a shipment also finds the lots its client saw.
Checks(h, r) == May(r) /\ (r.op = "shipment" => handler[h].want = Seen(r))

Check(h) ==
  LET r == handler[h].req IN
  /\ handler[h].pc = "check"
  /\ IF r.op \in Keyed /\ SlotOf(r) \in handler[h].view THEN Replay(h, r)
     ELSE IF r.op = "confirm" /\ Committed(r) THEN End(h, "done")
     ELSE IF Checks(h, r) THEN Goto(h, "insert")
     ELSE End(h, "refused")
  /\ UNCHANGED tables

Insert(h) ==
  /\ handler[h].pc = "insert"
  /\ \A g \in Handler : ~WaitsFor(h, g)
  /\ IF KeyIsFree(handler[h].req) THEN Goto(h, "commit") ELSE RollBack(h)
  /\ UNCHANGED tables

Commit(h) ==
  /\ handler[h].pc = "commit"
  /\ Write(handler[h].req)
  /\ End(h, "done")

\* Mutated: the service starts over until it succeeds.
AgainFromTheStart(h) ==
  /\ handler[h].pc = "again"
  /\ Goto(h, IF handler[h].req.op \in Keyed THEN "preflight" ELSE "lookup")
  /\ UNCHANGED tables
\* After an IntegrityError or a lost lock wait.
Again(h) ==
  LET r == handler[h].req IN
  /\ handler[h].pc = "again"
  /\ IF r.op \in Keyed /\ SlotOf(r) \in Recorded THEN Replay(h, r)
     ELSE End(h, IF Committed(r) THEN "done" ELSE "refused")
  /\ UNCHANGED tables

\* innodb_lock_wait_timeout (1205), or the victim of a deadlock (1213).  The
\* line services do not catch it.
TimeOut(h) ==
  /\ \E g \in Handler : WaitsFor(h, g)
  /\ IF handler[h].req.op \in Keyed THEN RollBack(h) ELSE End(h, "failed")
  /\ UNCHANGED tables

\* The worker dies before its transaction committed.  (One that dies later, and an
\* answer that is lost, leave the client to post the same request again: Receive.)
Crash(h) ==
  /\ handler[h].pc # "idle"
  /\ End(h, "failed")
  /\ UNCHANGED tables

-----------------------------------------------------------------------------
InitWrites == Init /\ handler = [h \in Handler |-> Idle]

Step(h) == \/ Preflight(h) \/ Lookup(h) \/ Lock(h) \/ Locked(h)
           \/ Check(h) \/ Insert(h) \/ Commit(h) \/ Again(h)
NextWrites == \E h \in Handler : Receive(h) \/ Step(h) \/ TimeOut(h) \/ Crash(h)

\* A handler that is not waiting runs; one that waits is woken or timed out.
Fairness == \A h \in Handler : WF_vars(Step(h) \/ TimeOut(h))
SpecWrites == InitWrites /\ [][NextWrites]_vars
FairSpecWrites == SpecWrites /\ Fairness

-----------------------------------------------------------------------------
HandlerType ==
  [pc : Pc, req : Request \cup {NoRequest}, view : SUBSET Slot,
   want : SUBSET Row, locked : SUBSET Row, answer : Answer]
TypeOKWrites == TypeOK /\ handler \in [Handler -> HandlerType]

\* The transactions take effect one at a time, on current data and once for each
\* key, however they interleave, wait, crash or are retried: LotWrites implements
\* LotRequests, whose tables it shares (the refinement mapping is the identity).
ImplementsRequests == Spec

\* No set of transactions waits for one another (material_stock.py:390, "Deterministic
\* lock order also covers a multi-lot submission").
NoDeadlock ==
  \A waiting \in (SUBSET Handler) \ {{}} :
    ~ \A h \in waiting : \E g \in waiting : WaitsFor(h, g)

\* A request whose key and payload were already committed is answered with that record,
\* never refused (docs/phase-1-material-transfer.md:207).
RetriesGetTheRecord ==
  [][\A h \in Handler : handler[h].pc # "idle" /\ handler'[h].answer = "refused" =>
       ~Committed(handler[h].req)]_vars

\* Every request is answered, whatever the others do, and no worker hangs.
EveryRequestEnds == \A h \in Handler : handler[h].pc # "idle" ~> handler[h].pc = "idle"
=============================================================================
