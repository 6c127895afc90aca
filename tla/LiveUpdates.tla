----------------------------- MODULE LiveUpdates -----------------------------
(***************************************************************************)
(* How a committed change reaches the screens that are open:               *)
(*   inventory_events.py   a transaction's change, staged as an outbox row *)
(*   notification_queue.py outbox -> broker -> one queue per worker        *)
(*   factory_stream.py, inventory_snapshots.py   the event streams         *)
(* composed with the accounts whose sessions the streams belong to.        *)
(*                                                                         *)
(* stale[c] is what client c's screen shows in an older version than the   *)
(* database holds.  It stands for the versions themselves: a topic becomes *)
(* stale when it is written, and fresh when it is read and shown.          *)
(***************************************************************************)
EXTENDS Accounts

CONSTANTS
  Worker,        \* server processes, each with its own queue
  View,          \* [Client -> {"inventory", "inventory-changed"}]
  Rows,          \* rows that business transactions write
  Limit,         \* messages one claim takes
  Capacity,      \* snapshots a worker builds for sharing
  MaxMessage,    \* bound: outbox rows
  Plans          \* bounds: how much may happen of what, in one behaviour

(***************************************************************************)
(* A plan: logins, business and account transactions, faults, midnights,   *)
(* the clients logged in from the start, the processes, the rows written.   *)
(* A run allows much of one kind and little of the others, in turn.        *)
(***************************************************************************)
Plan == [login : Nat, business : Nat, account : Nat, fault : Nat, day : Nat,
         in : SUBSET Client, workers : SUBSET Worker, rows : SUBSET Rows]

Nobody == ""
Dead == "dead"       \* the owner name of a process that is gone

RowKind == {"team", "user", "session", "lease", "origin", "feedback", "setting", "document"}
Row == [kind : RowKind, old : SUBSET Team, new : SUBSET Team, fresh : BOOLEAN, loaded : BOOLEAN,
        token : SUBSET Session]

\* Topics that are no team, and owners that are no process, have names of their own.
ASSUME UpdateAssumption ==
  /\ Team # {} /\ Team \cap {"directory", "accounts", "day"} = {}
  /\ Worker \cap {Nobody, Dead} = {}
  /\ View \in [Client -> {"inventory", "inventory-changed"}]
  /\ Rows \subseteq Row /\ Plans \subseteq Plan /\ MaxMessage \in Nat

Message == 1 .. MaxMessage
Topic == Team \cup {"directory", "accounts", "day"}

(***************************************************************************)
(* InventoryChange.  team_ids None ("all teams") is Team; user_ids is left *)
(* out: it is never set without accounts.                                  *)
(***************************************************************************)
Change == [teams : SUBSET Team, directory : BOOLEAN, accounts : BOOLEAN,
           sessions : SUBSET Session]
Nothing == [teams |-> {}, directory |-> FALSE, accounts |-> FALSE, sessions |-> {}]
Everything == [teams |-> Team, directory |-> TRUE, accounts |-> TRUE, sessions |-> {}]
Merge(a, b) == [teams |-> a.teams \cup b.teams, directory |-> a.directory \/ b.directory,
                accounts |-> a.accounts \/ b.accounts, sessions |-> a.sessions \cup b.sessions]
MergeAll(changes) ==
  [teams |-> UNION {x.teams : x \in changes}, directory |-> \E x \in changes : x.directory,
   accounts |-> \E x \in changes : x.accounts, sessions |-> UNION {x.sessions : x \in changes}]

IsInventory(x) == x.teams # {}
SessionOnly(x) == x.sessions # {} /\ ~IsInventory(x) /\ ~x.directory /\ ~x.accounts
Covers(x) == x.teams \cup (IF x.directory THEN {"directory"} ELSE {})
                     \cup (IF x.accounts THEN {"accounts"} ELSE {})

-----------------------------------------------------------------------------
(* A written row: what it is, the teams it names before and after, whether *)
(* it is new, and whether the old value was loaded when it was replaced.   *)

AffectedTeams(row) == IF row.old \cup row.new = {} \/ ~row.loaded THEN Team
                      ELSE row.old \cup row.new

ChangeFor(row) ==
  CASE row.kind = "team"     -> [Nothing EXCEPT !.teams = Team, !.directory = TRUE]
    [] row.kind = "user"     -> [Nothing EXCEPT !.accounts = TRUE]
    [] row.kind = "session"  -> IF row.fresh THEN Nothing
                                ELSE [Nothing EXCEPT !.sessions = row.token]
    [] row.kind = "lease"    -> Nothing      \* a slot's heartbeat
    [] row.kind = "origin"   -> [Nothing EXCEPT !.teams = Team]   \* a delivery date, an urgency
    [] row.kind = "feedback" -> [Nothing EXCEPT !.teams = row.old \cup row.new]
    [] row.kind = "setting"  -> [Nothing EXCEPT !.teams = AffectedTeams(row), !.directory = TRUE]
    [] row.kind = "document" -> [Nothing EXCEPT !.teams = AffectedTeams(row)]

\* The topics in which a reader sees the row.
ShownIn(row) ==
  CASE row.kind = "team"    -> Team \cup {"directory"}
    [] row.kind = "user"    -> {"accounts"}
    [] row.kind \in {"session", "lease"} -> {}
    [] row.kind = "origin"  -> Team
    [] row.kind = "setting" -> row.old \cup row.new \cup {"directory"}
    [] row.kind \in {"feedback", "document"} -> row.old \cup row.new

\* Mutated: what a released savepoint wrote is not merged into its parent.
PendingOfRoot(outer, nested, released) == MergeAll({ChangeFor(r) : r \in outer})
\* remember_inventory_change and wake_notification_publisher: the change of a
\* transaction and of the savepoints in it that were released.
Pending(outer, nested, released) ==
  MergeAll({ChangeFor(r) : r \in outer \cup (IF released THEN nested ELSE {})})

-----------------------------------------------------------------------------
VARIABLES
  outbox,    \* notification_outbox: [Message -> row]
  link,      \* a worker's connection to the broker: "down", "binding", "live"
  queue,     \* the durable queue of a worker: bound or not, and what is in it
  revision,  \* InventoryEvents.revision of a worker
  batch,     \* send_batch: the messages still to send, and how the first one went
  stream,    \* one event stream per client
  frames,    \* SnapshotFrames: the snapshots that are being built
  stale, today,
  left       \* what the plan still allows

updateVars == <<outbox, link, queue, revision, batch, stream, frames, stale, today, left>>
vars == <<accountVars, updateVars>>

NoRow == [state |-> "absent", owner |-> Nobody, change |-> Nothing]
NoFrame == <<>>
Shared == "shared"
Away == [phase |-> "away", on |-> Nobody, change |-> Nothing, pending |-> Nothing, day |-> 0,
         frame |-> NoFrame]
Over == [Away EXCEPT !.phase = "over"]
Streaming == {"top", "frame", "wait"}
Unsent == {m \in Message : outbox[m].state \in {"ready", "later", "leased", "lapsed"}}

TypeOK ==
  /\ AccountTypeOK
  /\ \A m \in Message :
       /\ outbox[m].state \in {"absent", "ready", "later", "leased", "lapsed", "published", "pruned"}
       /\ outbox[m].change \in Change
       /\ outbox[m].state \in {"leased", "lapsed"} <=> outbox[m].owner \in Worker \cup {Dead}
  /\ link \in [Worker -> {"down", "binding", "live"}]
  /\ left \in Plan
  /\ \A w \in Worker : /\ queue[w].messages \in Seq(Change)
                       /\ link[w] # "down" => queue[w].bound
                       /\ ~queue[w].bound => queue[w].messages = <<>>
  /\ revision \in [Worker -> Nat]
  /\ batch \in [Worker -> [messages : SUBSET Message, answer : {"none", "sent", "failed"}]]
  /\ \A c \in Client : /\ stream[c].phase \in {"away", "over"} \cup Streaming
                       /\ stream[c].phase \in Streaming <=> stream[c].on \in Worker
                       /\ stream[c].phase = "frame" <=> stream[c].frame # NoFrame
                       /\ stream[c].frame \in DOMAIN frames \cup {NoFrame}
                       /\ stale[c] \in SUBSET Topic

\* Once every worker is connected, and nobody is looking yet.
Init ==
  /\ left \in Plans
  /\ AccountInit(left.in)
  /\ outbox = [m \in Message |-> NoRow]
  /\ link = [w \in Worker |-> IF w \in left.workers THEN "live" ELSE "down"]
  /\ queue = [w \in Worker |-> [bound |-> w \in left.workers, messages |-> <<>>]]
  /\ revision = [w \in Worker |-> 0]
  /\ batch = [w \in Worker |-> [messages |-> {}, answer |-> "none"]]
  /\ stream = [c \in Client |-> Away]
  /\ frames = <<>>
  /\ stale = [c \in Client |-> {}]
  /\ today = 0

Spend(kind) == left[kind] > 0 /\ left' = [left EXCEPT ![kind] = @ - 1]
Fault == Spend("fault")
NoFault == UNCHANGED left

-----------------------------------------------------------------------------
(* A transaction commits.                                                  *)

Relevant(c) == IF View[c] = "inventory" THEN Team ELSE Topic

\* Readers of these topics are behind, and so are snapshots already read.
Outdate(topics) ==
  /\ stale' = [c \in Client |-> IF stream[c].phase \in Streaming
                                THEN stale[c] \cup (topics \cap Relevant(c)) ELSE {}]
  /\ frames' = [f \in DOMAIN frames |-> IF frames[f].read
                                        THEN [frames[f] EXCEPT !.missed = @ \cup (topics \cap Team)]
                                        ELSE frames[f]]

\* persist_notification: one outbox row, in the transaction that wrote the rows.
Stage(change) ==
  IF change = Nothing THEN UNCHANGED outbox
  ELSE \E m \in Message :
         /\ outbox[m].state = "absent" /\ \A n \in 1 .. m - 1 : outbox[n].state # "absent"
         /\ outbox' = [outbox EXCEPT ![m] = [state |-> "ready", owner |-> Nobody,
                                             change |-> change]]

Stored(change, topics) ==
  /\ Stage(change)
  /\ Outdate(topics)
  /\ UNCHANGED <<link, queue, revision, batch, stream, today>>

\* A business transaction writes one row itself, another one in a savepoint, or both.
Commit ==
  \E outer, nested \in SUBSET left.rows, released \in BOOLEAN :
    /\ Cardinality(outer) <= 1 /\ Cardinality(nested) <= 1
    /\ outer # {} \/ (nested # {} /\ released)
    /\ Stored(Pending(outer, nested, released),
              UNION {ShownIn(r) : r \in outer \cup (IF released THEN nested ELSE {})})
    /\ Spend("business")
    /\ UNCHANGED accountVars

Written(kind) == [kind |-> kind, old |-> {}, new |-> {}, fresh |-> FALSE, loaded |-> TRUE,
                  token |-> {}]
AccountRows ==
  {[Written("session") EXCEPT !.token = {s}, !.fresh = session[s] = "none"] :
     s \in {x \in Session : session'[x] # session[x]}}
    \cup {Written("user") : u \in {x \in User : user'[x] # user[x]}}
    \cup {Written("team") : t \in {x \in Team : active'[x] # active[x]}}

AccountCommit ==
  /\ \/ (WriteAccount \/ \E c \in Client : Issue(c)) /\ NoFault
     \/ /\ Spend("account")
        /\ \/ \E c \in Client : Logout(c) \/ ChangePassword(c)
           \/ \E u \in User : DeleteUser(u) \/ CreateUser(u)
           \/ \E t \in Team : UpdateTeam(t)
  /\ Stored(Pending(AccountRows, {}, FALSE), UNION {ShownIn(r) : r \in AccountRows})

ProfileCommit ==
  /\ \E c \in Client : UpdateProfile(c)
  /\ Spend("account")
  /\ Stored(ChangeFor(Written("user")), ShownIn(Written("user")))

\* What reads or waits, and writes no row.
AccountRead ==
  /\ \/ Spend("login") /\ \E c \in Client : Verify(c)
     \/ /\ Spend("account")
        /\ \E u \in User, state \in {"active", "inactive"}, reset \in BOOLEAN :
             ReadAccount(u, state, reset)
  /\ UNCHANGED <<outbox, link, queue, revision, batch, stream, frames, stale, today>>

SessionExpires == (\E s \in Session : Expire(s)) /\ Fault
                  /\ UNCHANGED <<outbox, link, queue, revision, batch, stream, frames, stale, today>>

-----------------------------------------------------------------------------
(* The publisher of a worker: claim, publish, complete.                    *)

Oldest(ms, n) == {m \in ms : Cardinality({k \in ms : k < m}) < n}

\* Mutated: a lease that has lapsed is never taken over.
ClaimableUnleased == {m \in Message : outbox[m].state = "ready"}
Claimable == {m \in Message : outbox[m].state \in {"ready", "lapsed"}}

Claim(w) ==
  LET due == Claimable
      taken == Oldest(due, Limit)
  IN /\ link[w] # "down"
     /\ batch[w].messages = {}
     /\ due # {}
     /\ outbox' = [m \in Message |-> IF m \in taken
                                     THEN [outbox[m] EXCEPT !.state = "leased", !.owner = w]
                                     ELSE outbox[m]]
     /\ batch' = [batch EXCEPT ![w].messages = taken]
     /\ NoFault
     /\ UNCHANGED <<accountVars, link, queue, revision, stream, frames, stale, today>>

\* send_batch takes its messages in the order of their ids.
First(w) == CHOOSE m \in batch[w].messages : \A n \in batch[w].messages : m <= n

\* The fan-out exchange puts a message into every queue that is bound.
FanOut(change) ==
  queue' = [w \in Worker |-> IF queue[w].bound
                             THEN [queue[w] EXCEPT !.messages = Append(@, change)]
                             ELSE queue[w]]

\* The broker takes the message and confirms it, or the publisher learns of an error:
\* then it may have been taken or not.
Publish(w) ==
  LET change == outbox[First(w)].change
  IN /\ batch[w].messages # {} /\ batch[w].answer = "none"
     /\ \/ link[w] # "down" /\ FanOut(change) /\ NoFault
           /\ batch' = [batch EXCEPT ![w].answer = "sent"]
        \/ link[w] # "down" /\ Fault /\ (FanOut(change) \/ UNCHANGED queue)
           /\ batch' = [batch EXCEPT ![w].answer = "failed"]
        \/ link[w] = "down" /\ NoFault /\ UNCHANGED queue
           /\ batch' = [batch EXCEPT ![w].answer = "failed"]
     /\ UNCHANGED <<accountVars, outbox, link, revision, stream, frames, stale, today>>

\* Mutated: a lease is kept when the publication fails.
SettledKeepsOwner(row, answer) ==
  IF answer = "sent" THEN [row EXCEPT !.owner = Nobody, !.state = "published"]
  ELSE [row EXCEPT !.state = "later"]
Settled(row, answer) ==
  [row EXCEPT !.owner = Nobody, !.state = IF answer = "sent" THEN "published" ELSE "later"]

\* complete: only the owner of the lease settles a message, and only once.
Complete(w) ==
  LET m == First(w)
  IN /\ batch[w].messages # {} /\ batch[w].answer # "none"
     /\ outbox' = [outbox EXCEPT ![m] = IF @.owner = w THEN Settled(@, batch[w].answer) ELSE @]
     /\ batch' = [batch EXCEPT ![w] = [messages |-> @.messages \ {m}, answer |-> "none"]]
     /\ NoFault
     /\ UNCHANGED <<accountVars, link, queue, revision, stream, frames, stale, today>>

\* The database fails while a batch is under way: it is given up, its leases stay.
GiveUp(w) ==
  /\ batch[w].messages # {}
  /\ batch' = [batch EXCEPT ![w] = [messages |-> {}, answer |-> "none"]]
  /\ Fault
  /\ UNCHANGED <<accountVars, outbox, link, queue, revision, stream, frames, stale, today>>

\* Time: a delay ends, a lease of 120 s lapses, a published row is seven days old.
Due(m) == outbox[m].state = "later" /\ outbox' = [outbox EXCEPT ![m].state = "ready"] /\ NoFault
Lapse(m) ==
  /\ outbox[m].state = "leased"
  /\ outbox' = [outbox EXCEPT ![m].state = "lapsed"]
  /\ IF \E w \in Worker : outbox[m].owner = w /\ m \in batch[w].messages
     THEN Fault ELSE NoFault
Prune(m) ==
  /\ outbox[m].state = "published"
  /\ outbox' = [outbox EXCEPT ![m] = [NoRow EXCEPT !.state = "pruned"]]
  /\ NoFault
TimePasses ==
  /\ \E m \in Message : Due(m) \/ Lapse(m) \/ Prune(m)
  /\ UNCHANGED <<accountVars, link, queue, revision, batch, stream, frames, stale, today>>

-----------------------------------------------------------------------------
(* The consumer of a worker.                                               *)

\* A fresh or reconnected worker asks every worker's screens to read again.
LinkUp(w) ==
  /\ link[w] = "down" /\ w \in left.workers
  /\ link' = [link EXCEPT ![w] = "binding"]
  /\ queue' = [queue EXCEPT ![w].bound = TRUE]
  /\ NoFault
  /\ UNCHANGED <<accountVars, outbox, revision, batch, stream, frames, stale, today>>

Resync(w) ==
  /\ link[w] = "binding"
  /\ link' = [link EXCEPT ![w] = "live"]
  /\ FanOut(Everything)
  /\ NoFault
  /\ UNCHANGED <<accountVars, outbox, revision, batch, stream, frames, stale, today>>

\* The streams a message wakes; a burst merges into one signal.
Signalled(w, change) ==
  [c \in Client |-> IF stream[c].on = w
                    THEN [stream[c] EXCEPT !.pending = Merge(@, change)] ELSE stream[c]]

\* The message is acknowledged after it was passed on: if the connection fails in
\* between, it stays in the queue and comes again.
Consume(w) ==
  LET change == Head(queue[w].messages)
  IN /\ link[w] = "live" /\ queue[w].messages # <<>>
     /\ stream' = Signalled(w, change)
     /\ revision' = [revision EXCEPT ![w] = IF IsInventory(change) THEN @ + 1 ELSE @]
     /\ \/ NoFault /\ UNCHANGED link
           /\ queue' = [queue EXCEPT ![w].messages = Tail(@)]
        \/ Fault /\ UNCHANGED queue
           /\ link' = [link EXCEPT ![w] = "down"]
     /\ UNCHANGED <<accountVars, outbox, batch, frames, stale, today>>

Disconnect(w) ==
  /\ link[w] # "down"
  /\ link' = [link EXCEPT ![w] = "down"]
  /\ Fault
  /\ UNCHANGED <<accountVars, outbox, queue, revision, batch, stream, frames, stale, today>>

\* x-expires: the broker drops a queue nobody reads.
QueueExpires(w) ==
  /\ link[w] = "down" /\ queue[w].bound
  /\ queue' = [queue EXCEPT ![w] = [bound |-> FALSE, messages |-> <<>>]]
  /\ Fault
  /\ UNCHANGED <<accountVars, outbox, link, revision, batch, stream, frames, stale, today>>

\* The process dies or is stopped; the one that takes its place has a queue and an
\* owner name of its own.
Crash(w) ==
  /\ Fault
  /\ link' = [link EXCEPT ![w] = "down"]
  /\ queue' = [queue EXCEPT ![w] = [bound |-> FALSE, messages |-> <<>>]]
  /\ revision' = [revision EXCEPT ![w] = 0]
  /\ batch' = [batch EXCEPT ![w] = [messages |-> {}, answer |-> "none"]]
  /\ outbox' = [m \in Message |-> IF outbox[m].owner = w THEN [outbox[m] EXCEPT !.owner = Dead]
                                  ELSE outbox[m]]
  /\ stream' = [c \in Client |-> IF stream[c].on = w THEN Away ELSE stream[c]]
  /\ stale' = [c \in Client |-> IF stream[c].on = w THEN {} ELSE stale[c]]
  /\ frames' = [f \in {g \in DOMAIN frames : g[1] # w} |-> frames[f]]
  /\ UNCHANGED <<accountVars, today>>

-----------------------------------------------------------------------------
(* A stream: one turn of the loop of inventory_stream after the other.     *)

Becomes(c, state) == stream' = [stream EXCEPT ![c] = state]
Shows(c, topics) == stale' = [stale EXCEPT ![c] = @ \ topics]
StreamStep == UNCHANGED <<accountVars, outbox, link, queue, revision, batch, today>>

Ends(c, how) == Becomes(c, how) /\ Shows(c, Topic) /\ UNCHANGED frames

\* stream_response: 401 ends it, 503 lets the client try again; the first turn reads all.
Connect(c, w) ==
  /\ stream[c].phase = "away" /\ login[c].phase = "done"
  /\ \/ ~Valid(c) /\ Becomes(c, Over) /\ UNCHANGED stale
     \/ Valid(c) /\ link[w] # "down"
        /\ Becomes(c, [Away EXCEPT !.phase = "top", !.on = w, !.change = Everything, !.day = today])
        /\ stale' = [stale EXCEPT ![c] = Relevant(c)]
  /\ NoFault /\ UNCHANGED frames /\ StreamStep

\* Mutated: the snapshot a client joins need not be of the current revision.
FrameKeyAnyRevision(c, who) == <<stream[c].on, 0, today, who>>
FrameKey(c, who) == <<stream[c].on, revision[stream[c].on], today, who>>

\* SnapshotFrames.get: join the snapshot under way for the key, or start one.
JoinFrame(c, turn) ==
  LET shared == FrameKey(c, Shared)
      under == {f \in DOMAIN frames : f[1] = stream[c].on /\ f[4] = Shared}
      frame == IF shared \notin under /\ Cardinality(under) >= Capacity
               THEN FrameKey(c, c) ELSE shared
  IN /\ Becomes(c, [turn EXCEPT !.phase = "frame", !.frame = frame])
     /\ frames' = [f \in DOMAIN frames \cup {frame} |->
                    IF f \in DOMAIN frames THEN frames[f] ELSE [read |-> FALSE, missed |-> {}]]
     /\ UNCHANGED stale

\* A message names what changed and its reader fetches that; all teams, also a new day.
Refreshed(change) == Covers(change) \cup (IF change.teams = Team THEN {"day"} ELSE {})

Top(c) ==
  LET x == stream[c].change
      turn == [stream[c] EXCEPT !.change = Nothing, !.phase = "wait"]
      reads == ~(SessionOnly(x) /\ c \notin x.sessions)
  IN /\ stream[c].phase = "top"
     /\ IF link[stream[c].on] = "down" THEN Ends(c, Away)
        ELSE IF ~reads THEN Becomes(c, turn) /\ UNCHANGED <<stale, frames>>
        ELSE IF ~Valid(c) THEN Ends(c, Over)
        ELSE IF View[c] = "inventory-changed"
             THEN Becomes(c, turn) /\ Shows(c, Refreshed(x)) /\ UNCHANGED frames
        ELSE IF IsInventory(x) THEN JoinFrame(c, turn)
        ELSE Becomes(c, turn) /\ UNCHANGED <<stale, frames>>
     /\ NoFault /\ StreamStep

ReadFrame(f) ==
  /\ ~frames[f].read
  /\ frames' = [frames EXCEPT ![f].read = TRUE]
  /\ UNCHANGED <<stream, stale>> /\ NoFault /\ StreamStep

\* A snapshot reaches everyone who waits for it, or fails for all of them.
FinishFrame(f) ==
  LET waiting == {c \in Client : stream[c].frame = f}
      rest == [g \in DOMAIN frames \ {f} |-> frames[g]]
  IN /\ frames[f].read
     /\ frames' = rest
     /\ \/ /\ stream' = [c \in Client |-> IF c \in waiting
                                          THEN [stream[c] EXCEPT !.phase = "wait", !.frame = NoFrame]
                                          ELSE stream[c]]
           /\ stale' = [c \in Client |-> IF c \in waiting THEN frames[f].missed ELSE stale[c]]
           /\ NoFault
        \/ /\ stream' = [c \in Client |-> IF c \in waiting THEN Away ELSE stream[c]]
           /\ stale' = [c \in Client |-> IF c \in waiting THEN {} ELSE stale[c]]
           /\ Fault
     /\ StreamStep

NewDay(c) == View[c] = "inventory-changed" /\ today # stream[c].day

Taken(c) == IF NewDay(c) THEN Merge(stream[c].pending, [Nothing EXCEPT !.teams = Team])
            ELSE stream[c].pending

\* Nothing is awaited from here to the top of the loop, where the day is noted.
Wake(c) ==
  /\ stream[c].phase = "wait" /\ stream[c].pending # Nothing
  /\ Becomes(c, [stream[c] EXCEPT !.phase = "top", !.change = Taken(c), !.pending = Nothing,
                                  !.day = today])
  /\ UNCHANGED <<stale, frames>> /\ NoFault /\ StreamStep

\* Every 15 s without a signal: access, session, connection, date.
Heartbeat(c) ==
  /\ stream[c].phase = "wait" /\ stream[c].pending = Nothing
  /\ \/ ~Valid(c) /\ Ends(c, Over)
     \/ Valid(c) /\ link[stream[c].on] = "down" /\ Ends(c, Away)
     \/ /\ Valid(c) /\ link[stream[c].on] # "down" /\ NewDay(c)
        /\ Becomes(c, [stream[c] EXCEPT !.phase = "top", !.change = Everything, !.day = today])
        /\ UNCHANGED <<stale, frames>>
  /\ NoFault /\ StreamStep

\* The browser goes away, or its access cookie is no longer accepted.
Leave(c) ==
  /\ stream[c].phase \in Streaming
  /\ \/ Ends(c, Away)
     \/ stream[c].phase # "frame" /\ Ends(c, Over)
  /\ Fault /\ StreamStep

Midnight ==
  /\ today' = today + 1
  /\ Outdate({"day"})
  /\ Spend("day")
  /\ UNCHANGED <<accountVars, outbox, link, queue, revision, batch, stream>>

-----------------------------------------------------------------------------
Progress ==
  \/ \E w \in Worker : Claim(w) \/ Publish(w) \/ Complete(w) \/ LinkUp(w) \/ Resync(w) \/ Consume(w)
  \/ \E c \in Client : \/ Top(c) \/ Wake(c) \/ Heartbeat(c)
                       \/ \E w \in Worker : Connect(c, w)
  \/ \E f \in DOMAIN frames : ReadFrame(f) \/ FinishFrame(f)
  \/ TimePasses

Faults ==
  \/ \E w \in Worker : GiveUp(w) \/ Disconnect(w) \/ QueueExpires(w) \/ Crash(w)
  \/ \E c \in Client : Leave(c)
  \/ SessionExpires

Next == Progress \/ Commit \/ AccountCommit \/ ProfileCommit \/ AccountRead \/ Midnight \/ Faults

\* While something of the service can move, something does; writes and faults need not.
Spec == Init /\ [][Next]_vars /\ WF_vars(Progress)

-----------------------------------------------------------------------------
OnTheWay(c, t) ==
  LET w == stream[c].on
  IN \/ \E m \in Unsent : t \in Covers(outbox[m].change)
     \/ \E i \in DOMAIN queue[w].messages : t \in Covers(queue[w].messages[i])
     \/ t \in Covers(stream[c].pending)
     \/ stream[c].phase = "top" /\ t \in Refreshed(stream[c].change)
     \/ stream[c].phase = "frame" /\ t \notin frames[stream[c].frame].missed
     \/ link[w] # "live"
     \/ t = "day" /\ stream[c].day # today

\* Whatever an open screen shows in an old version, its refresh is under way: as an
\* outbox row not yet sent, in the queue of its worker, as a signal, in a reading that
\* is not past it, or because the worker's connection is not up.  (The outbox row is
\* part of the business transaction, a batch may die with its worker, messages are
\* sent twice or lost with a queue, readings are shared.)
NothingIsForgotten ==
  \A c \in Client : stream[c].phase \in Streaming => \A t \in stale[c] : OnTheWay(c, t)

\* No account has more usable sessions than MAX_ACTIVE_SESSIONS, whatever logins overlap.
SessionsAreLimited ==
  \A u \in User : Cardinality({s \in Session : AccountOf[s] = u /\ session[s] = "open"}) <= MaxActive

\* Every open screen catches up with every committed change, or is closed: after crashes,
\* failed publications, lapsed leases and lost connections too.
ScreensCatchUp ==
  \A c \in Client : stale[c] # {} ~> (stale[c] = {} \/ stream[c].phase = "over")
=============================================================================
