# A verification development for heatsinkerp

The repository is the ERP of a heat-sink factory: teams (warehouse, rolling, wire,
engraving, inspection, ...) hold lots of material, hand them to one another, process,
lose, ship and correct them, along process routes and against delivery schedules, while
dozens of clients post at once and dozens of screens follow. The back end
(`src/backend/app`, FastAPI and SQLAlchemy on MySQL) keeps all of the state; the Vue
front end shows it. At the centre is the ledger: how many pieces and how much weight
each team holds, and where they came from. Around it stand the things that say what may
be done with the material (routes, holds, slots), what should be done (schedules), and
who is told (notifications, pages). This directory models these parts in TLA+, checks
them with TLC and proves with TLAPS the main facts about the ledger, its transactions,
the slots of the warehouse and the delivery of updates.

## 1. Inventory

| part of the system | state it keeps | operations | interacts with | what is hard |
|---|---|---|---|---|
| Stock balances (`stock_balances.py`) | per lot: received, adjusted, on hand, reserved, in transit, dispatched, converted, lost; a revision | `before_flush`/`after_flush` hooks on every write of a document | every writer of a document, in its transaction | never recomputed: signed differences only; CHECK constraints; every flush counts |
| Transfer documents (`material_transfer_workflow.py`) | `material_transfers`: a row is a document while pending, a lot once received | create, update, void, confirm, reject, confirm outbound | locks its source lot first; balances | two teams edit one document; versions; retries |
| Submissions and losses (`material_stock.py`, `inventory_shipments.py`) | `material_dispatches`, `material_losses` | `create_dispatch` by lines or by a total, `create_loss` | lots, recounts, slots, routes, schedules | several lots at once; idempotency keys; read views and locks |
| Batch confirmation (`material_dispatch_workflow.py`) | confirmation key and revision of a submission | `confirm_dispatch` | lines, their single-line services | two services for one step |
| Recounts and registration (`quantity_adjustments.py`, `processing_registration.py`) | append-only `material_quantity_adjustments` | `create`, and inside a submission or an update | balances, routes | stale revisions; order within a submission |
| Outputs, reallocation, rework split (`processing_outputs.py`, `serial_reallocations.py`, `rework_routes.py`) | new lots cut from a lot | `create_outputs`, `create`, `request_rework` | balances, holds, routes | several rows in one flush; what a part inherits |
| Entries (`warehouse_receipts.py`, `opening_stock.py`) | new lots from outside | `create_receipt`, `create` | slots, keys | gap locks |
| Amendments (`transfer_amendments.py`) | a proposal on a received document | request, approve, refuse, cancel | lineage of remainders, balances | stale proposals; nested remainders |
| Inspections (`inspections.py`, `quality_feedback.py`) | inspections, replies, decisions; holds on families of lots | inspect, recheck, reply, decide | every service that draws on a lot asks for a hold | a hold must follow the material through every form |
| Slots (`warehouse_locations.py`, `warehouse_placements.py`, `warehouse_inventory.py`) | form leases; what lies where | reserve, heartbeat, release, consume, place, edit, tidy | documents, balances | leases that expire; placements apart from balances |
| Process routes (`process_routes.py`, `process_route_api.py`, `process_route_serials.py`) | routes with steps, files and revisions; the path rows | draft, save, attach, publish, revise, bind | every movement and work on routed material | concurrent authors; a cursor moved by nine handlers |
| Rework (`rework_routes.py`, `rework_rounds.py`) | rework routes, where to resume | request, publish, work, resume | routes, lots, holds | a route within a route |
| Production schedules (`production_schedules.py`, `schedule_batches.py`, `schedule_notices.py`) | orders, nodes (a team's commitment), dated batches, bookings, notices | create, edit, lock, propose, review, link, poll | routes, documents | approval in two transactions; the same question in SQL and in Python |
| Notifications (`notification_queue.py`, `inventory_events.py`, `factory_stream.py`, `inventory_snapshots.py`) | outbox rows, queues, a revision, streams | stage, claim, publish, complete, consume, stream | every commit; RabbitMQ; clients | at-least-once, leases, coalescing, eventual delivery |
| Sessions and accounts (`auth.py`, `admin_api.py`) | accounts, sessions | log in and out, change and reset passwords, close a team | streams end with their session | a slow password check between two transactions |
| Pages (`material_stock.py`, `material_analytics.py`, `factory_*.py`, `team_serial_history.py`, `material_trace.py`, ...) | none | queries | all tables | many queries for one fact |
| Access gate, batch numbers, adapter, HTTP layer, scripts, front end | see `PROJECT.json` and section 6 | | | |

Correctness, part by part. Balances: equal to the documents, always; CHECKs never
refuse a legal write; nothing is created or destroyed between teams. Documents:
settled ones stay; every edit is visible to an optimistic client; returned lines wait.
Submissions: at most once per key, on current data, all or nothing; no deadlock
among lots; a retry gets the record. Amendments: never more than what is left
unprocessed, agreed by both teams on the version they saw. Holds: they follow the
material. Slots: one owner; no slot with two materials; never more than is there.
Routes: what was published is what was reviewed; a lot's cursor tells what was done to
it. Schedules: an approval applies what its reviewer saw; one answer to one question;
everybody concerned is told. Notifications: every committed change reaches every open
screen in the end. Pages: they agree.

The hazards of this code, each at its line and with the properties aimed at it, are
the list `hazards` in `PROJECT.json`.

## 2. Modules

| module | models |
|---|---|
| `LedgerTotals` | column totals over numbered rows, as a recursive function; every SUM of the ledger, the schedules and the routes |
| `StockLedger` | documents, losses, adjustments and balances; one action per committed service call |
| `Quality` | EXTENDS `StockLedger`: inspections, feedback, holds, the roles of outputs |
| `Amendments` | EXTENDS `Quality`: proposals on received documents and their allocation |
| `StockCare` | composes the three: every ledger step under the holds, amendments, inspections |
| `LedgerReports` | EXTENDS `StockCare`: the pages over its tables, and how they must agree |
| `LotRequests` | abstract: each request is checked and written in one step, once per key |
| `LotWrites` | how it is done: look-ups, lot locks, read views, unique keys, time-outs, crashes, retries |
| `SlotLease` | abstract: what the people who share the slots are promised |
| `WarehouseTables`, `Warehouse` | slots, documents, placements and their lists; forms, documents, managers, time |
| `DispatchLines` | one submission of several lines looked at from inside its transaction |
| `RouteTables`, `RouteFiles`, `RouteWork` | routes and lots; writing routes; material on them |
| `DeliveryProgress`, `ScheduleMaterial`, `Schedules` | what schedules say of progress and of material; every write of a schedule |
| `Accounts`, `LiveUpdates` | accounts and sessions; how a committed change reaches the screens |
| `LedgerTotalsProofs`, `StockLedgerProofs`, `StockDocumentsProofs`, `LotWritesProofs`, `WarehouseProofs`, `LiveUpdatesProofs`, `SchedulesProofs`, `RoutesProofs` | the theorems (section 5) |
| `MCStockLedger`, `MCStockCare`, `MCLotWrites`, `MCWarehouse`, `MCRoutes`, `MCSchedules`, `MCLiveUpdates` | instances for TLC |

How they compose. `LotWrites` extends `LotRequests` (same tables) and implements it
(`ImplementsRequests`, checked and proved); this is what justifies one step per
transaction in the other ledger modules. `StockCare` puts amendments, inspections and holds on the
unchanged actions of `StockLedger`; the pages read the tables of that composition.
`Warehouse` keeps the slots in the same hook of the same documents, with one measure;
`DispatchLines` opens the one transaction whose several flushes matter.
`RouteWork` and `Schedules` each carry the part of a document that routes or bookings
read. `LiveUpdates` is composed with `Accounts`; a business transaction is, to it, the
rows it writes. `Warehouse` implements `SlotLease` for every slot under a refinement
mapping (`INSTANCE SlotLease WITH`, `KeepsThePromise`, checked and proved).

### StockLedger and the code

A row of `material_transfers` is a record with its kind (`entry_kind`), source lot,
sending and receiving team, status, `stock_tracked`, amounts, version, whether it was
returned (`rejection_reason`), and the submission that is confirmed as one
(`dispatch_id` of a submission that has a combined number: only old rows).
`TransferShare`, `LossShare` and `AdjustmentShare` are `contribute`; `Delta`, `Touched`,
`Created`, `Removed`, `ApplyBalances` are `remember_balances` and `apply_balances`:
only changed rows are visited, old selves subtracted, new selves added. `Expected` is
the aggregate of migration 0017 with the columns that 0020 and 0032 added, written
independently of the shares. `Flush` ends every action: there is no write without it
(`reject_bulk_ledger_changes`).

The actions are `CreateReceipt`, `CreateOpening`, `CreateTransfer`, `CreateDispatch`
(recounts first, then lines, then clearings computed from the sums of the lines),
`UpdateTransfer` (with clearing), `VoidTransfer`, `ConfirmTransfer`, `RejectTransfer`,
`ConfirmOutbound`, `ConfirmDispatch`, `CreateLoss`, `RecordRecount`, `RegisterOutputs`,
`Reallocate` and `SplitRework`.

Abstractions. Amounts are integers in the smallest stored unit (pieces, millionths of a
kilogram), as the columns store them. The flushes of one transaction are one flush:
differences add up (the exception is `DispatchLines`). A retry under a used key changes
nothing and is a stutter here (`LotWrites` treats it). Roles, material types and the
texts of a document only refuse steps: `StockLedger` allows a superset of the steps the
code takes, so what it never violates the code does not either. A recount may repeat the
count (a registration that changes only a status). Warehouse receipts and opening
stock differ in their owner only and share the kind `entry`. The balance's
`revision` is in `LotRequests`.

### Quality, Amendments and StockCare

`Held` is `hold_column`: an old, blocking, failed, unreleased inspection on the lot
itself or on its `inspection_hold_root_id`. `HoldsRespected` puts `require_clear` before
every step that draws on a lot, and the rework rules before a split; `NoteMade`
gives the lots a step makes the hold root and role the code gives them. `Inspect`,
`Recheck`, `Reply` and `Decide` write no document. New inspections never block, so holds
come only from the starting tables. Teams that count pieces leave exactly the second
output as the remainder; the older forms of a splitting team may name any subset.

`RequestAmendment`, `ApproveAmendment` and `CloseAmendment` are the handlers of
`transfer_amendments.py`. `Branches` is `_remaining_branches`, a walk from parent to
child over the remainders, and `Spread` is `_allocate_remaining` for one measure: a fold
over the branches that takes from each what it and the lots above it still have. An
approval flushes the balances as any other write does. A form with a stale
`expected_version` or `feedback_version` is refused and is no step; an amendment of the
notes alone proposes the amounts as they are; settled amendments are not kept; which of
the two teams closes a request is not distinguished.

### LedgerReports

Each page is the query it runs, over all of time. `ReportsAgree` is the conjunction of ten
claims:

* received and found equals owned, handed on and lost (`PagesReconcile`); the flow of
  submissions equals the balances' columns (`FlowsMatchPages`); every lot has one weight
  family and one age (`FamiliesPartition`); the buckets of a trace add up
  (`TracesReconcile`); the factory counts what its teams count, movements once
  (`FactoryMatchesTeams`); the list and the page of a submission name one status and offer
  only what confirmation accepts (`SubmissionsListed`); who looks a lot up finds what holds
  it (`HoldsAreFindable`).
* Yields. The factory's input is external receipts and what was taken over, not returned
  goods, opening stock or hand-written sheets; its output is dispatched finished goods. A
  team's output is what it handed on, scrap excepted. Where an entry comes from and what type
  a line carries steer nothing in the ledger, so both pages are judged under every way of
  giving them that `validate_material_route` and the receipt admit (`Origins`, `Types`).
  `FactoryYieldsAddUp`: with what the page leaves out named, nothing appears or vanishes;
  and unless the page says `needs_review`, nothing under that number descends from returned
  goods or opening stock, however many reallocations lie between (the code propagates the
  doubt in rounds, `SpreadOver`); `complete` means that nothing is left. `TeamYieldsAddUp`
  says the first and the last of a team.
* Histories. `HistoryTotals`: the four totals of a serial's page add up to the stock on hand.
  `CurvesMissAmendmentsAlone`: the running curve, which replays events, closes at the stock
  on hand but for what approved amendments changed on the outgoing lines. There the code
  falls short of its docstring ("edits adjust the delta"): a sender's curve keeps the amount
  from before the correction (`team_serial_history.py:215`). The variables `told` and
  `corrected` of `Amendments` keep what the two sorts of events tell of each document.

A serial number is one of three, and a reallocation goes to the next; entries and
hand-written sheets carry the first. A hand-written sheet (no source lot) is counted as
outgoing by several pages although no balance reserves it: the equations name it
(`Unsourced`) where it matters. Material names, purposes, shared material that no serial has
yet, time windows, search, paging and rounding are left out.

### LotWrites and the code

A handler is one HTTP request in one worker, with one session. `Preflight` is the short
first transaction; `Lookup` is the plain SELECT that some services run before their
locks (`candidates` of a shipment; the source of a line in `_locked_transfer`): it opens
the read view, as REPEATABLE READ does at the first plain SELECT
(`scripts/verify_mysql_material_stock.py:73` asserts that isolation level). `Lock` is
`lock_lot` in order of id; `Locked` the second look-up of the key; `Check` the
validation under locks; `Insert` the unique index, which waits for another
transaction's uncommitted row with the same key; `Commit` makes the write visible and
releases the locks; `Again` the look-up after an IntegrityError or a lost lock wait;
`TimeOut` error 1205 or 1213; `Crash` a worker that dies before its commit. A client
that got no answer posts again: `Receive` may take any request at any time.

Modelled by what the code needs of it and marked external: row locks, the unique index,
the lock-wait time-out. Not modelled: gap locks, shared foreign-key locks on team rows
and the child rows of a submission (its effect on the lots is what matters
here). The absence of deadlock is therefore claimed for lot locks and unique keys
only; the known ways to other deadlocks are one of the hazards.

### Warehouse and the code

A slot's row has its name, use, version and the lease: key, `until` (the remaining
`lease_until`) and `deadline` (from the first claim). `Reserve` is the claim and
every heartbeat, `Tick` lets time run, `Consume` takes the lease inside the document of
the form. `Write` ends every document's action: it is `apply_changes`, which fills the
slot a document names for the first time, takes what leaves from the slots in order of
location (`Subtract`), and puts nothing back. `Look` and `Fresh` are the version on a manager's screen; `PlanCleanup`
and `ApplyCleanup` the two halves of the tidying script. `Offered`, `Status`,
`Catalogue`, `Inventory` and what its rows open to are the lists. Slots are numbered in
the order in which the hook walks them, and all sums are those of `LedgerTotals`.
`CasesAssumption` names what the tables say of each other wherever a history starts, which
the code and migration 0024 ensure: documents in order of id, sources that are lots, names
that belong to one slot, a waiting document in the one slot it names with all it brings,
and no more of a lot in slots than is in the building.

Only lots of the warehouse are here, with one measure and one form per document; a
material's identity is a value, `x` one with a part of it missing (then only an empty
slot fits). The two lines of a submission into the warehouse share one slot; lines with
different slots are the subject of `DispatchLines`, which counts how often the balance hook meets each new row:
once for every later line that flushes a slot and once at the end. Rework splits, which copy a slot's name without a
claim, are left out (a hazard says why). Weight, row text search, dates and the
collation of names are not modelled.

### Routes and the code

`RouteTables` has the tables (routes with revisions, path rows, reserved serials, lots
with their cursor, work records, plans) and every question asked of them: the path of a
serial, the moves of a lot (`dispatch_fields`), whether a team may work
(`processing_step`), the lists' versions of the same questions, the progress of a rework.
`RouteFiles` has the authors: each has a screen with a version; every edit holds the
row's lock to its commit and is one step. A publication is two: `PublishReads` is the
plain SELECT of `require_draft_owner` that opens the read view (and what that view shows
of sibling revisions and of work), `FinishPublish` or `RefusePublish` the rest under
locks. `RouteWork` has the material: `Receive`, `Plan`, `Bind`, `Dispatch`,
`DispatchShared`, `Confirm`, `Void`, `Process` (with outputs, remainder and scrap),
`ProcessInPlace`, `RequestRework`, `Resume`. `done` and `redone` are history variables:
what was really done to the pieces of a lot, for `WorkFollowsThePath`.

Pieces are conserved; scrap goes nowhere; submissions stay within stock (what happens
otherwise is `ledger_overdraw`). Left out: archived routes, the requirement of an order
file by a schedule, masters, sequence numbers, notices, serial reallocation, holds, the
old rework flag, material without a route. Five things the actions do as the code does
them, although its other handlers do not expect the result:

* a piece cut to one serial out of a shared lot in its rework (`shared_material.py:127`)
  gets the serial's normal route with the rework's index (`Misallocates`);
* a rework of a shared lot has all the serials of its route (`rework_routes.py:427`), so
  its first step may be a branch for some of them (`Misdirects`);
* a rework completed in place while a revision of it is between `PublishReads` and
  `FinishPublish` is replaced all the same, since `require_unstarted` looks for its work
  in the read view of before (`rework_routes.py:59`): the cursor starts again over work
  that was done (`Overtakes`);
* a rework completed in place counts its round twice (`quantity_adjustments.py:518`);
* a shared lot completed in place at its split step can neither be split nor moved.

The starting points of the instances do not reach the first three and the last by what
their budgets and routes allow together, because every property would stop at them. The
theorems do not restrict the starting points: they hold of every behaviour up to its
first step of the named kind (section 5).
Two more were met and are visible in what the properties do
not claim: two consecutive steps of one team without tasks leave material where nothing
can be registered (`processing_registration.py:50`; the instances' consecutive steps
have different tasks), and a rework with scrap never leaves "processing" in either list
(`rework_rounds.py:121`).

### Schedules and the code

`DeliveryProgress` defines when a document fulfils a node, when a node or batch is
complete, and which nodes and batches a form may book on, each as the SQL and as the
Python say it. `Schedules` has the writes: orders (`CreateTask`, `UpdateTask`,
`LockTask`, `DeleteTask`, `LinkRoute`), nodes (`UpdatePlan`, `CancelPlan`), batches
(`Propose`, `DispatchBatches`, `ReviewPlan` then `ApplyReview`, `ReturnPlan`), the
material as far as bookings see it (`Process`, `Send`, `Receive`, `Void`), the polls
(`Refresh`) and the clock. Every write of a schedule first locks the same row
(the first team's), so a handler is one step; an approval is two transactions and two
steps. Notices are sets of keys, as the unique index keeps them. `ScheduleMaterial` has
the queries that show stock: the lots of a node and of an order, the offers of a form,
what is still to be sent.

One serial; the quantity basis; one piece per assigned source. Left out: sequence
numbers and edits of a routed node's neighbours, deliveries whose amounts an amendment
changes, read marks and the inbox, order files, weights, quality holds, scrap and shared
lots. `Refresh` is atomic although `refresh_deadlines` takes no lock of the serial: it
inserts keys once and is repeated at every poll. A routed lot at an earlier one of a
team's consecutive steps may be booked while its node still shows no material, and a lot
bound by its work to a node without a route is offered that node after its sources were
edited (`OffersAreKept` excludes both by name); two orders of one serial
need an explicit choice that the offers do not give (`production_schedules.py:1354`).

### LiveUpdates, Accounts and the code

`Change` is `InventoryChange`, `ChangeFor` its derivation from a row, `Pending` the
merge over a transaction and its released savepoints. `Commit` stages the outbox row in
the business transaction. `Claim`, `Publish`, `Complete` are one publisher; `Due`,
`Lapse`, `Prune` its timers; `LinkUp`, `Resync`, `Consume` the consumer; `Connect`,
`Top`, `Wake`, `Heartbeat` the loop of an event stream, `JoinFrame`, `ReadFrame`,
`FinishFrame` the shared snapshots. Faults: a batch given up, a lost connection, a failed
or doubtful publication, an expired queue, a crash, a client that leaves, an expired
session. `stale[c]` is the set of topics that client c's screen shows in an older version
than the database's; it stands for the versions themselves.

A publisher's batch is a set, taken in order of id (`First`), and a session has the id it was
created with (`number`), so that the newest are those with the greatest ids.
`team_ids = None` ("all") is the set of teams; `user_ids` never occurs without
`accounts`; the hand-over to the event loop is part of `Consume`; the two clock readings
around a wake-up are one. A screen may go back for a moment when its client moves to
another worker, so no monotonicity is claimed. In `Accounts` a login is two steps
(`Verify` without a lock, `Issue` under the account's lock) and so is the
administrator's update, which revokes the sessions its read view showed: a session
opened in between survives a reset. `admin_api.py:340` counts the remaining administrators without a
lock; administrators are outside the model.

## 3. Runs

| run | question | bounds |
|---|---|---|
| `ledger_books` | do the books hold under any sequence of all services? | 2 teams, 3 documents, 1 loss, 1 adjustment, two sizes of amount, counts 0 and 2, 2 lines per submission, 2 versions; from an empty table, or one of two exits of the days when they had to be confirmed |
| `ledger_history` | do batches, returns, edits, amendments, holds and pages respect one another on old tables? | 3 teams, 4 documents, 2 adjustments, 2 inspections, 3 versions; eight starting tables |
| `ledger_overdraw` | violation: a submission may take more than there is | as `ledger_books`, from an empty table |
| `lot_writes` | losses and the ends of lines, three at a time: atomic, once per key, retries answered | 3 interchangeable handlers, 6 requests, 2 keys, 4 rows |
| `lot_shipments` | shipments of a total, dispatches, a recount, an edit: nothing stale, no deadlock, every request answered | 2 handlers, fairness |
| `lot_shipment_retry` | violation: the second of two equal shipments is refused although the first is committed | 2 handlers, 1 request |
| `warehouse` | do leases, placements and lists agree, and does every slot keep its promise? | 2 slots, 2 forms, 4 documents, lease 2 and limit 3; nine starting tables |
| `warehouse_lines` | violation: a first line without a slot is taken off the balance twice | 1 lot, 3 lines, 2 slots |
| `routes` | do files, cursors and lists agree while routes are written and material moves? | 2 authors, 3 teams, lines of 2 to 4 steps; ten starting points |
| `route_revisions` | violation: two revisions of one route both become current | 2 authors, 1 published route with 2 drafts |
| `schedules` | plans, approvals, answers and notices of one serial | route of 3 teams, 2 orders, dates 2 and 4, clock to 5; seven starting points |
| `updates` | does every committed change reach every open screen? | 2 workers, 3 clients, 2 teams, 2 outbox rows; twelve plans |

Why the bounds are enough. Three documents and one adjustment contain every relation
between rows that the hooks distinguish: a lot, what is cut from it and what is cut from
that; two lines of one lot in one submission; a lot and a clearing. Two sizes of
amount make a line smaller than, equal to and larger than its lot. The proofs
lift the bounds for the facts they cover. Two handlers suffice for most races
on one key or lot; a third one lets a race meet a third writer, a time-out or a cycle
of three. `seen` and `expected_version` are those of the first state: later requests of
the same client are then stale, which is the case of interest, and counters stay finite.

Budgets. The larger models start from one of several tables, each a question, with a
budget per kind of step (the variable `left`): what a case is not about, it has little of.
The numbers of states of the cases add up instead of multiplying. The cases are described in the MC modules:

* `MCStockCare`: a combined submission, internal (one line returned, none returned) or
  external; a handoff left over twice, the second time in more pieces than the first; one
  processed in part while another part was to be sent back; a fresh handoff; an old hold
  on a lot with a line waiting; an old hold whose outputs carry it. The three submissions
  have the ledger alone and five steps; the others a mix of ledger, quality and amendment
  steps.
* `MCWarehouse`: two forms and two slots; signs of life up to the limit; documents on
  their way; a lot in two slots and partly in none; an old order that waits; two lots of
  one origin, one overdrawn; reallocation; managers and forms; a crowded slot.
* `MCRoutes`: two people on one draft; a serial in two spellings; revision while material
  moves; the whole line with waste and in place; a partial rework corrected before it
  starts; a rework of two teams; one stock for two serials on two routes; one route with
  branches and a planned serial; a corrected rework with a team that finishes lots as they
  stand; shared material that is reworked, goes on and is cut afterwards.
* `MCSchedules`: orders opened, changed, locked, deleted; batches proposed, reviewed,
  replaced; a review while the order changes; polls while the clock runs; deliveries in
  time and late; a node without a route; two orders of one serial.
* `MCLiveUpdates`: each plan allows much of one thing (changes, workers, a shared
  snapshot, faults, midnights, logins, account changes) and little of the rest.

`CHECK_DEADLOCK FALSE` in every run: rows, keys, versions and budgets of an instance run
out, and a client may post nothing more. Deadlock among handlers is the invariant
`NoDeadlock`. Handlers are symmetric in `lot_writes`: no definition compares them. The
liveness runs use no symmetry.

Fairness. `lot_shipments`: a handler that can run, runs (the event loop and the thread of
the session), and a handler that waits is woken by a release or ended by
`innodb_lock_wait_timeout`: weak fairness of `Step(h) \/ TimeOut(h)`, and nothing about
clients or crashes. `EveryRequestEnds` shows that the number of retries inside one request
is bounded: a service that started over after a lost lock wait would not end.
`updates`: weak fairness of `Progress` as a whole, that is, while any publisher, consumer,
timer or stream of the service can move, one of them does. Writes, logins, midnights and
faults are never forced, and each is finite in number (the plan); without that bound no
delivery could be promised of a system that keeps failing. Nothing stronger is assumed,
in particular no fairness for one worker or client.

### What the runs show

The properties hold. Four promises that the documents, comments or tests of the
repository make do not (`findings`):

* `NoOverdraw`. The documents say that a submission cannot exceed its source;
  `create_dispatch` and reallocation deliberately accept it
  (`tests/test_unrestricted_outbound.py`), so that on-hand amounts may be negative.
  Losses and shipments of a total are still limited (`CappedWritesStayWithinStock`).
* `RetriesGetTheRecord` for shipments of a total. Their plain SELECT of candidates comes
  before the lock wait, in the transaction that looks the key up afterwards; the look-up
  is as old as the SELECT, and the second of two equal posts is told that the stock
  changed. No stock is written twice: `ImplementsRequests` holds, the client retries once
  more and gets its record.
* `OneCurrentRoute`. A publication looks for a published sibling in a read view older
  than its wait for the parent's lock, so two revisions published at once both become
  current; afterwards a submission of that serial that names no route is refused.
* `EachLineCountsOnce`. `consume` flushes the slot of a later line while the earlier
  lines are new in the session; the balance hook counts every new row of the session at
  each flush, so a first line without a slot is subtracted twice.

Differences met on the way that no run shows are hazards without a property, each with
its line, or are named in section 2.

## 4. What each property says

Each is stated in words above its definition. By hazard:

* Books: `BalancesMatchDocuments`, `BalanceChecksHold`, `MaterialConserved`,
  `LineageIsSound`, `ClosedLotsAreEmpty`; documents: `SettledDocumentsStay` (of kind, lot,
  teams and status; amounts of a settled row change by an approved amendment alone, which
  is `ApprovedAsProposed`), `EveryEditRaisesVersion`, `ReturnedLinesWait`.
* Requests: `ImplementsRequests`, `RetriesGetTheRecord`, `CappedWritesStayWithinStock`,
  `NoDeadlock`, `EveryRequestEnds`.
* Holds and pages: `HoldsKeepMaterial` (stated over what was made of a lot, not over the
  column the code consults), `ReportsAgree`.
* Slots: `SlotsAreSound`, `ListsAgree`, `KeepsThePromise`.
* Routes: `FilesHangTogether`, `WorkFollowsThePath`, `AnswersAgree` (of `RouteWork`),
  `PublishedAsReviewed`.
* Schedules: `PlansHangTogether`, `AnswersAgree` (of `Schedules`), `ApprovedAsReviewed`,
  `EveryoneIsTold`.
* Updates: `NothingIsForgotten` (where a refresh is while a screen is stale: the safety
  part), `ScreensCatchUp` (its liveness), `SessionsAreLimited`.

Every property of a passing run is violated by at least one mutation of a definition that
models code; the mutations stand above the definitions they change, as a plausible bug
would change them, and `PROJECT.json` pairs them with the properties.

## 5. Proofs

All theorems hold for any values of the constants that satisfy the named assumptions of
the modules, which TLC evaluates on the runs of the instances. What is assumed of the
starting tables is what the migrations and the database's own constraints ensure.

### The ledger

`StockLedgerProofs` (`SizesAssumption`, `TeamAssumption`, `HistoryAssumption`):

* `BooksAlwaysKept`: `Spec => []IInv`, the inductive invariant;
* `TypeCorrect`, `BalancesAlwaysMatch`, `LineageAlwaysSound`, `BalanceChecksAlwaysHold`;
* the action properties `SettledAlwaysStay` and `VersionAlwaysRaised`.

`BalancesMatchDocuments` is not inductive alone. That a difference may be added to the
old balance needs that a lot's balance row exists exactly while it is a lot, that a new
lot has no documents yet that draw on it (otherwise its row, which starts from
zero, would miss them) and that rows are used in order. `IInv` therefore adds to the type the lineage (a
document draws on an older lot that stays a lot) and the numbering of the rows. The
argument: `DeltaIsDifference` (the visited differences are the difference of the full
totals, by the algebra of `LedgerTotalsProofs`), `FlushKeepsBooks` (so a flush turns
expected balances into expected balances), then one lemma per service, which shows only
that the rows it writes are well formed (`Sound`) and that it moves rows as it may
(`RowsMove`); `NextIsSound` collects them. `BalanceChecksHold` follows from equality with
the documents, since the reconciliation is an identity of `Expected`.

`StockDocumentsProofs` builds on it:

* `DocumentsAlwaysFit`: `Spec => []DInv`, where `DInv` adds to `IInv` that every document
  passes the CHECK constraints of its kind (`PassesChecks`), that what was received from a
  lot is tracked, that a returned line waits at the warehouse or is voided, and that unused
  rows of losses and adjustments are empty;
* `ReturnedAlwaysWait` and `MaterialAlwaysConserved`, which follow from `DInv`;
* the action property `ClosedAlwaysEmpty`.

Conservation is an exchange of two sums (`TotalExchange`): what all lots have on hand,
summed lot by lot, is what every document, loss and adjustment gives and takes, summed
row by row (`RowOnHand` and its siblings), and a row that passes the checks of its kind
gives to its lot exactly what it takes from its source, unless it entered from outside,
waits or is gone. `HistoryAssumption` says of the tables found that they pass the checks
and that a received document with a source is tracked: both columns came in one migration
(20260906_0007), rows older than it have no source, and what was received since is tracked.

The theorems are about the specification of `StockLedger`; every `LedgerStep` of
`StockCare` is one of its steps, an approved amendment is not, and is covered by the run
only. `LedgerTotals` is written with a recursive function so that the provers can unfold
it; its induction (`SetInduction`) is over the number of rows, by a least counterexample,
since the induction theorems of the library cannot be instantiated here.

### Requests and their transactions

`LotWritesProofs` (`RequestAssumption`, `StartAssumption`), for any number of handlers,
rows, keys and requests:

* `WritesImplementRequests`: `SpecWrites => ImplementsRequests`, the refinement;
* `NoDeadlockEver`, `CappedByTransactions`, `WritesTyped`; and of `LotRequests` alone
  `RequestsTyped` and `CappedAlways`.

`RequestAssumption` says what the schemas ensure of a request: a keyed one has a key, one
about a line names it and no lots, and a recount states a revision for each lot it counts.
The refinement needs an invariant (`IInv`) about every place of a transaction: what a
handler wants to lock covers the request's `Footprint` (the rows the write reads or
changes), the locks are held from the checks on, and from the checks to the commit
`May` holds, from the insert on also `KeyIsFree`. It is kept by the handler's own
steps because it does them in this order, and by the commits of the others because
`HandlersApart` says that no row is locked twice and no key written twice:
`WriteFrame` shows that a write leaves everything outside its footprint alone,
`MayFrame`, `FootprintFrame` and `KeyIsFreeFrame` that the checks do not depend on more
than the footprint. The steps that write nothing share one lemma (`StillStep`). Absence
of deadlock follows from locking in order of id (a conjunct of `Fit`): along a circle of
waits the row waited for would grow for ever (`NoGreatestRow`), and who waits for a
key waits for a handler that waits for nobody.

### Slots

`WarehouseProofs` (`LeaseAssumption`, `TableAssumption`, `CasesAssumption`), for any number
of slots, documents, forms and materials and any lease times:

* `WarehouseAlwaysTyped`;
* `PromiseAlwaysKept`: `Spec => KeepsThePromise`, that is, `Warehouse` implements
  `SlotLease`: under the refinement mapping `View` every step is, for every slot, one of
  the moves of the abstract specification (`Shares`);
* `SlotsAlwaysSound`: if no slot held two materials at first (`TablesUnmixed`),
  `Spec => []SlotsAreSound`. The hypothesis is not part of `CasesAssumption`, because
  migration 0024 keeps the shared slots of older databases; an empty warehouse meets it.

The inductive invariant `IInv` says what the three tables say of one another: documents
are filed in order, stock is taken from lots only, a name belongs to one slot, only a slot
in use holds something, a lease never outlives its deadline and counts on a slot in use
only, a waiting document lies in the one slot it names with its whole quantity or nowhere,
and of a lot no more is in slots than is inside the building (`RowsAgree`). The last
conjunct is where the code is subtle: the hook computes what to take from the slots
(`Withdrawn`) from the rows that changed, not from the balance. `WithdrawnCovers` shows
that it is at least the decrease of what is inside, `SubtractTakes` that the walk over the
slots takes all of it as far as the slots have it, and `WriteAgrees` that a write therefore
keeps the conjunct, provided the write is `Orderly`: the kinds of change the services make.
Each of the eleven services is shown to be such a write (`SensibleWrite`); the slot steps
have a lemma each; `StepKeeps` collects them.

### Updates and sessions

`LiveUpdatesProofs` (`UpdateAssumption`, `AccountAssumption`), for any number of clients,
workers, messages and any plan of changes and faults:

* `SessionsAlwaysLimited`, `UpdatesAlwaysTyped`;
* `NothingEverForgotten`: while a screen shows something old, its refresh is under way.

For the sessions the invariant adds that the ids given are unique and at most the last one
given, so that `create_session`, which keeps the newest, leaves room for the new one. For
the updates, `UInv` says for every topic of a stale screen where its refresh is
(`Awaited`), for readings under way what they still miss (`FramesAwaited`), and who owns
which lease (`Leased`), without which an outbox row could be settled by a publisher that
has lost it. The change travels from the outbox through the queue to the signal
(`TravelStep`); every step of publisher, broker, consumer and stream hands it on before it
lets go of it.

### Schedules

`SchedulesProofs` (`FormsAssumption`, `CasesAssumption`), for any route of teams, any number
of orders, nodes, batches and deliveries, any forms and any clock:

* `SchedulesAlwaysTyped`, `PlansAlwaysHangTogether`, `LotsAlwaysAgree`;
* the action properties `ApprovedAlwaysAsReviewed` and `EveryoneAlwaysTold`.

`FormsAssumption` says that a form lists dates and amounts and is never empty;
`CasesAssumption` that the tables found have rows that name rows that exist, batches that
fit, dates in order and lots whose pieces add up.

The inductive invariant `IInv` adds three things. A review is of a request that waited,
and as long as the node keeps its revision the same request waits
(`ReviewIsOfItsRevision`): this is what makes the comparison of revisions in the approval
enough, and it holds because every write of a node that touches its request also raises
the revision. The keys of notices are of revisions the node has had
(`NoticesAreOfThePast`), so a notice of a new revision is a new key, and the unique index
cannot swallow it. And what was taken from a lot and what is left make up the lot
(`LotsAgree`), so that what a form takes is there. That a plan's batches add up
to the node's total is a fact about ordered sums: the new rows of a request are numbered
in order (`Ranked`), and by `TotalMoved` of `LedgerTotalsProofs` the sum over the entries
of a request is the sum over the rows they became.

### Routes

`RoutesProofs` (`FilesAssumption`, `CasesAssumption`), for any routes, people, lots and
budgets:

* the action property `AlwaysPublishedAsReviewed`;
* `RoutesAlwaysTyped` and `FilesAlwaysHangTogether`:
  `Spec /\ [][~Misallocates /\ ~Misdirects]_vars => []...`;
* `WorkAlwaysFollowsThePath`:
  `Spec /\ [][~Misallocates /\ ~Misdirects /\ ~Overtakes]_vars => []WorkFollowsThePath`.

The three step predicates (`RouteWork`, before `Next`) are the first three items of the
list in section 2, the steps with which the program itself breaks these claims; a
behaviour without such a step keeps them for ever, and one with such a step keeps them
until then. Nothing is asked of the tables or budgets of a case beyond `CasesAssumption`:
material is shared, reworked, completed in place and corrected in any combination, and the
two last cases of `MCRoutes` have such combinations. None of the three can be dropped: with
a case that reaches one of them TLC finds `FilesHangTogether` violated (the first two) or
`WorkFollowsThePath` (the third).

The first needs only `ReviewInv`: a screen that has a row's version has its content, and
while a publication is between its two steps its row is a draft with the content it read,
because the row's lock keeps the others away.

The other two need what the tables say of one another (`FitInv`). A cursor stands on a
step of a *published* route, and published rows keep their serials and steps (`RowsGrow`),
so whatever else is written leaves every lot where it stood (`LotsOverRows`, `LotAdded`,
`LotChanged`). A shared lot carries the fact that its members' routes are one up to its
cut (`GroupFits`; in a rework it is the route it returns to, `Home`), which is what
`common_split_index` checks when the group is made and what an allocation needs many steps
later; a published rework carries the step it returns to (`ReturnFits`), checked by
`activate` and needed by `resume`. A lot whose rework is still a draft waits where it is
to come back to and has no child, so its publication may reset the cursor; a correction
returns to the place its predecessor does; and what a shared lot returns to is no branch,
because it stood there before (`ReworkReturnsTo`, `Home`). The reserved keys of published
routes name the roots of their families (`ReservedFits`; `RootUnfolds` and `RootStays`
reason about the recursion of `RootIn`, whose function is shown to exist by a least
counterexample, `RootsExist`). The moves of a lot lead to such steps (`MovesFit`), and
then one lemma per handler (`FitOfReceive` to `FitOfPublication`). What is on hand is
never negative because a new lot takes at most `OnHand`, by the sums of
`LedgerTotalsProofs` (`GivenAppend`, `GivenChange`). `CasesAssumption` says the same of
the tables found; that the plans of schedules name existing routes is a foreign key.

That work follows the path needs `WalkInv` on top of these (the invariant `RoutesInv` of the
other theorems is used at every step). Of every lot (`LotWalks`): with a cursor, what was
done is the production steps of its path up to the cursor, in order (`Walked`); without
one, or as a fresh receipt, nothing was done. Of every rework (`RowWalks`): if anything was
done to the lot it was asked for, work on that lot is registered. That is what makes a
correction safe: a lot without registered work has nothing done in its rework, so setting
its cursor back to the first step forgets nothing (`StartOfRework`), unless the correction
overtakes the work. The lemmas about operators come first: `Way` grows by exactly one
step when the next step of a path is done and by none when the cursor moves over the
warehouse or to a step not yet done; the member that a piece is cut off
for has the same steps up to the cut, tasks included (`GroupFits`), so the piece keeps the
way of the batch; and a way depends on the row's steps and members
alone, which published rows keep. Then one lemma per handler, as above.

### What is only model-checked

Liveness (`EveryRequestEnds`, `ScreensCatchUp`): out of the prover's reach, as is ENABLED.
The answers of `LotWrites` (`RetriesGetTheRecord` is claimed of the requests of `lot_writes`
only). The pages and lists (`ReportsAgree`, `ListsAgree`, both `AnswersAgree`): equations
between queries over counted instances. Holds and amendments, whose definitions walk trees
by folds.

## 6. Not modelled, and why

* Site access gate: a limiter in one process's memory, without a tie to any other state.
* Batch numbers: one atomic upsert; no property is about a document's number.
* Main-system adapter and its configuration: input and output with an outside system.
* HTTP layer and schemas: validation; what they ensure of a request is an assumption or
  the set of inputs of the model that uses it.
* Maintenance and demonstration scripts: run by an operator with the service stopped (the
  tidying of slots, which runs beside it, is modelled).
* The front end: it shows and posts what the back end decides.
* Employees, purposes, masters and other record keeping with an optimistic version; the
  parsing of imported route files; texts, formats, pictures, paging, rounding.

The list of components with their status is in `PROJECT.json`.
