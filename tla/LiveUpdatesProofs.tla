-------------------------- MODULE LiveUpdatesProofs --------------------------
(***************************************************************************)
(* Proofs about LiveUpdates and Accounts, for any teams, clients, workers, *)
(* rows and plans: no account has too many usable sessions, and whatever a *)
(* screen shows in an old version, its refresh is under way.               *)
(***************************************************************************)
EXTENDS LiveUpdates, LedgerTotalsProofs, FiniteSetTheorems

-----------------------------------------------------------------------------
(* The inductive invariant.                                                *)

State == {"absent", "ready", "later", "leased", "lapsed", "published", "pruned"}
OutboxRow == [state : State, owner : Worker \cup {Nobody, Dead}, change : Change]
StreamState == [phase : {"away", "over"} \cup Streaming, on : Worker \cup {Nobody},
                change : Change, pending : Change, day : Nat,
                frame : DOMAIN frames \cup {NoFrame}]

\* Who has a lease is its owner.
Leased(row) == row.state \in {"leased", "lapsed"} <=> row.owner \in Worker \cup {Dead}

OutboxTyped ==
  /\ outbox \in [Message -> OutboxRow] /\ \A m \in Message : Leased(outbox[m])
  /\ batch \in [Worker -> [messages : SUBSET Message, answer : {"none", "sent", "failed"}]]
  /\ \A w \in Worker : batch[w].messages = {} => batch[w].answer = "none"

BrokerTyped ==
  /\ link \in [Worker -> {"down", "binding", "live"}]
  /\ queue \in [Worker -> [bound : BOOLEAN, messages : Seq(Change)]]
  /\ revision \in [Worker -> Nat]
  /\ \A w \in Worker : /\ link[w] # "down" => queue[w].bound
                       /\ ~queue[w].bound => queue[w].messages = <<>>

\* A snapshot under way is of a revision its worker has reached.
FramesTyped ==
  /\ frames = [f \in DOMAIN frames |-> frames[f]]
  /\ \A f \in DOMAIN frames : /\ frames[f] \in [read : BOOLEAN, missed : SUBSET Team]
                              /\ f # NoFrame /\ f[1] \in Worker
                              /\ f[2] \in Nat /\ f[2] <= revision[f[1]]

StreamsTyped ==
  /\ stream \in [Client -> StreamState]
  /\ stale \in [Client -> SUBSET Topic]
  /\ today \in Nat
  /\ \A c \in Client : /\ stream[c].phase \in Streaming <=> stream[c].on \in Worker
                       /\ stream[c].phase = "frame" <=> stream[c].frame # NoFrame
                       /\ stream[c].frame # NoFrame => stream[c].frame[1] = stream[c].on
                       /\ stream[c].day <= today
                       /\ stale[c] \in SUBSET Relevant(c)

UpdatesTyped == OutboxTyped /\ BrokerTyped /\ FramesTyped /\ StreamsTyped

\* The broker has taken message m, and its publisher, still the owner, will say so.
Sent(m) == \E w \in Worker : /\ outbox[m].owner = w
                             /\ batch[w].messages # {} /\ First(w) = m /\ batch[w].answer = "sent"

\* A change of topic t is on its way to worker w, or w will ask for everything.
Travelling(w, t) ==
  \/ \E m \in Unsent : ~Sent(m) /\ t \in Covers(outbox[m].change)
  \/ \E i \in DOMAIN queue[w].messages : t \in Covers(queue[w].messages[i])
  \/ link[w] # "live"

Coming(c, t) == Travelling(stream[c].on, t) \/ t \in Covers(stream[c].pending)

\* What a client misses comes, or is what it reads just now.
Awaited(c) ==
  /\ \A t \in stale[c] \ {"day"} :
       \/ Coming(c, t)
       \/ stream[c].phase = "top" /\ t \in Refreshed(stream[c].change)
       \/ stream[c].phase = "frame" /\ t \notin frames[stream[c].frame].missed
  /\ "day" \in stale[c] =>
       \/ stream[c].day # today
       \/ stream[c].phase = "top" /\ "day" \in Refreshed(stream[c].change)
  /\ stream[c].phase = "frame" => \A t \in frames[stream[c].frame].missed : Coming(c, t)

\* What a snapshot that may still be joined has missed comes to its worker.
FramesAwaited ==
  \A f \in DOMAIN frames : f[2] = revision[f[1]] => \A t \in frames[f].missed : Travelling(f[1], t)

\* The sessions an account may still use.
SessionsNumbered ==
  /\ \A r, s \in Session : number[r] = number[s] /\ number[r] # 0 => r = s
  /\ \A s \in Session : number[s] <= issued /\ (session[s] # "none" => number[s] # 0)
  /\ \A c \in Client : login[c].phase # "done" => number[c] = 0

\* An update that is under way saw sessions that exist; the bound on passwords leaves
\* one for it when it resets the account's.
DeskFits ==
  /\ \A s \in desk.sees : session[s] # "none"
  /\ desk.reset /\ desk.on \in User => user[desk.on].secret < MaxSecret

SInv == AccountTypeOK /\ DeskFits /\ SessionsNumbered /\ SessionsAreLimited

UInv ==
  /\ UpdatesTyped
  /\ \A c \in Client : stream[c].phase \in Streaming => Awaited(c)
  /\ FramesAwaited

IInv == left \in Plan /\ SInv /\ UInv

-----------------------------------------------------------------------------
(* Sessions.                                                               *)

LEMMA LeastNatural ==
  ASSUME NEW N \in SUBSET Nat, N # {}
  PROVE  \E n \in N : \A k \in N : n <= k
<1>1. IsWellFoundedOn(OpToRel(<, Nat), Nat)
  BY NatLessThanWellFounded
<1>2. PICK n \in N : \A k \in N : ~ (<<k, n>> \in OpToRel(<, Nat))
  BY <1>1, WFMin
<1>3. \A k \in N : ~ (k < n)
  BY <1>2, Zenon DEF OpToRel
<1>. QED  BY <1>3

After(S, rank, s) == {r \in S : rank[r] > rank[s]}

\* Of finitely many things in an order, at most k have fewer than k after them.
LEMMA FewAreNewest ==
  ASSUME NEW S, IsFiniteSet(S), NEW rank, NEW k \in Nat,
         \A s \in S : rank[s] \in Nat, \A r, s \in S : rank[r] = rank[s] => r = s,
         NEW T \in SUBSET S, \A s \in T : Cardinality(After(S, rank, s)) < k
  PROVE  Cardinality(T) <= k
<1>1. IsFiniteSet(T) /\ Cardinality(T) \in Nat
  BY FS_Subset, FS_CardinalityType
<1>2. CASE T = {}
  BY <1>1, <1>2, FS_EmptySet
<1>3. CASE T # {}
  <2>1. PICK s \in T : \A r \in T : rank[s] <= rank[r]
    <3> DEFINE N == {rank[r] : r \in T}
    <3>1. N \in SUBSET Nat /\ N # {}
      BY <1>3
    <3>2. PICK n \in N : \A i \in N : n <= i
      <4> HIDE DEF N
      <4>. QED  BY <3>1, LeastNatural
    <3>. QED  BY <3>2
  <2>2. T \ {s} \in SUBSET After(S, rank, s)
    <3> SUFFICES ASSUME NEW r \in T, r # s PROVE r \in After(S, rank, s)
      OBVIOUS
    <3>1. rank[s] <= rank[r] /\ rank[r] # rank[s] /\ rank[r] \in Nat /\ rank[s] \in Nat
      BY <2>1
    <3>. QED  BY <3>1 DEF After
  <2>3. IsFiniteSet(After(S, rank, s))
    BY FS_Subset DEF After
  <2>4. Cardinality(T \ {s}) <= Cardinality(After(S, rank, s)) /\ Cardinality(After(S, rank, s)) \in Nat
    BY <2>2, <2>3, FS_Subset, FS_CardinalityType
  <2>5. Cardinality(T \ {s}) = Cardinality(T) - 1
    BY <1>1, <2>1, FS_RemoveElement
  <2>6. Cardinality(After(S, rank, s)) < k
    BY <2>1
  <2>. QED  BY <1>1, <2>4, <2>5, <2>6
<1>. QED  BY <1>2, <1>3

LEMMA OpenShrinks ==
  ASSUME SessionsAreLimited, \A s \in Session : session'[s] = "open" => session[s] = "open"
  PROVE  SessionsAreLimited'
<1> SUFFICES ASSUME NEW u \in User
             PROVE  Cardinality({s \in Session : AccountOf[s] = u /\ session'[s] = "open"}) <= MaxActive
  BY DEF SessionsAreLimited
<1> DEFINE S == {s \in Session : AccountOf[s] = u /\ session[s] = "open"}
           T == {s \in Session : AccountOf[s] = u /\ session'[s] = "open"}
<1>1. T \in SUBSET S /\ IsFiniteSet(S)
  BY FS_Subset, AccountAssumption
<1>2. Cardinality(S) <= MaxActive
  BY DEF SessionsAreLimited
<1> HIDE DEF S, T
<1>3. Cardinality(T) <= Cardinality(S) /\ Cardinality(S) \in Nat /\ Cardinality(T) \in Nat
  BY <1>1, FS_Subset, FS_CardinalityType
<1>4. Cardinality(T) <= MaxActive
  BY <1>2, <1>3, AccountAssumption
<1>. QED  BY <1>4 DEF T

LEMMA SessionsStart == ASSUME NEW in \in SUBSET Client, AccountInit(in) PROVE SInv
<1>1. AccountTypeOK
  <2>1. Cardinality(Session) \in Nat
    BY FS_CardinalityType, AccountAssumption
  <2>. QED  BY <2>1, AccountAssumption DEF AccountInit, AccountTypeOK, Idle, SessionState
<1>2. DeskFits
  BY AccountAssumption DEF AccountInit, DeskFits, Idle
<1>3. SessionsNumbered
  <2>1. Cardinality(Session) \in Nat
    BY FS_CardinalityType, AccountAssumption
  <2>2. \A s \in Session : Number[s] \in Nat /\ Number[s] # 0 /\ Number[s] <= Cardinality(Session)
    BY <2>1, AccountAssumption
  <2>3. \A c \in Client : c \in Session /\ c \notin Earlier
    BY AccountAssumption DEF Session
  <2>4. \A s \in Session : number[s] \in {0, Number[s]}
    BY DEF AccountInit
  <2>5. \A r, s \in Session : number[r] = number[s] /\ number[r] # 0 => r = s
    BY <2>4, AccountAssumption
  <2>6. \A s \in Session : number[s] <= issued /\ (session[s] # "none" => number[s] # 0)
    BY <2>1, <2>2, <2>4 DEF AccountInit
  <2>7. \A c \in Client : login[c].phase # "done" => number[c] = 0
    BY <2>3 DEF AccountInit
  <2>. QED  BY <2>5, <2>6, <2>7 DEF SessionsNumbered
<1>4. SessionsAreLimited
  <2> SUFFICES ASSUME NEW u \in User
               PROVE  Cardinality({s \in Session : AccountOf[s] = u /\ session[s] = "open"}) <= MaxActive
    BY DEF SessionsAreLimited
  <2> DEFINE S == {s \in Session : AccountOf[s] = u /\ number[s] # 0}
             T == {s \in Session : AccountOf[s] = u /\ session[s] = "open"}
  <2>1. IsFiniteSet(S) /\ MaxActive \in Nat
    BY FS_Subset, AccountAssumption
  <2>2. /\ \A s \in S : number[s] \in Nat
        /\ \A r, s \in S : number[r] = number[s] => r = s
    BY <1>1, <1>3 DEF AccountTypeOK, SessionsNumbered
  <2>3. \A s \in S : After(S, number, s) = Newer(s)
    BY <1>1 DEF AccountTypeOK, Newer, After
  <2>4. \A s \in T : s \in S /\ Cardinality(Newer(s)) < MaxActive
    BY DEF AccountInit
  <2>5. T \in SUBSET S /\ \A s \in T : Cardinality(After(S, number, s)) < MaxActive
    BY <2>3, <2>4
  <2> HIDE DEF S, T
  <2>6. Cardinality(T) <= MaxActive
    BY <2>1, <2>2, <2>5, FewAreNewest
  <2>. QED  BY <2>6 DEF T
<1>. QED  BY <1>1, <1>2, <1>3, <1>4 DEF SInv

\* A step in which no session is created, opened or numbered, and no login is undone.
LEMMA SessionsStay ==
  ASSUME SInv, AccountTypeOK', DeskFits', UNCHANGED <<number, issued>>,
         \A s \in Session : session'[s] # session[s] => session[s] # "none" /\ session'[s] # "open",
         \A c \in Client : login[c].phase = "done" => login'[c].phase = "done"
  PROVE  SInv'
<1>1. SessionsNumbered'
  BY DEF SInv, SessionsNumbered
<1>2. SessionsAreLimited'
  BY OpenShrinks DEF SInv
<1>. QED  BY <1>1, <1>2 DEF SInv

LEMMA IssueStep == ASSUME SInv, NEW c \in Client, Issue(c) PROVE SInv'
<1> DEFINE u == AccountOf[c]
<1>1. CASE session' = session /\ number' = number /\ issued' = issued
  <2>1. AccountTypeOK' /\ DeskFits'
    BY <1>1 DEF SInv, AccountTypeOK, DeskFits, Issue
  <2>2. \A d \in Client : login[d].phase = "done" => login'[d].phase = "done"
    BY DEF Issue, SInv, AccountTypeOK
  <2>. QED  BY <1>1, <2>1, <2>2, SessionsStay
<1>2. CASE CreateSession(c) /\ login' = [login EXCEPT ![c].phase = "done"]
  <2>1. /\ c \in Session /\ u \in User /\ number[c] = 0 /\ session[c] = "none"
        /\ issued \in Nat /\ issued' = issued + 1 /\ number' = [number EXCEPT ![c] = issued + 1]
        /\ number \in [Session -> Nat]
        /\ session \in [Session -> SessionState] /\ "revoked" \in SessionState /\ "open" \in SessionState
        /\ UNCHANGED <<active, user, desk>>
    BY <1>2, AccountAssumption
    DEF Issue, CreateSession, Session, SInv, SessionsNumbered, AccountTypeOK, SessionState
  <2>2. session' = [s \in Session |-> IF s = c THEN "open"
                                      ELSE IF s \in Replaced(u) THEN "revoked" ELSE session[s]]
    BY <1>2, <2>1 DEF CreateSession, Revoked
  <2>3. AccountTypeOK' /\ DeskFits'
    <3>1. session' \in [Session -> SessionState]
      BY <2>1, <2>2
    <3>2. login' \in [Client -> [phase : {"idle", "verified", "done", "refused"}, secret : 0 .. MaxSecret]]
      BY <1>2 DEF SInv, AccountTypeOK
    <3>3. number' \in [Session -> Nat] /\ issued' \in Nat
      BY <2>1
    <3>4. \A s \in desk.sees : s \in Session /\ session'[s] # "none"
      BY <2>2 DEF SInv, AccountTypeOK, DeskFits
    <3>5. DeskFits'
      BY <2>1, <3>4 DEF SInv, DeskFits
    <3>. QED  BY <2>1, <3>1, <3>2, <3>3, <3>5 DEF SInv, AccountTypeOK
  <2>4. SessionsNumbered'
    <3>1. \A r, s \in Session : number'[r] = number'[s] /\ number'[r] # 0 => r = s
      BY <2>1 DEF SInv, SessionsNumbered
    <3>2. \A s \in Session : number'[s] <= issued' /\ (session'[s] # "none" => number'[s] # 0)
      <4> SUFFICES ASSUME NEW s \in Session
                   PROVE  number'[s] <= issued' /\ (session'[s] # "none" => number'[s] # 0)
        OBVIOUS
      <4>1. number[s] \in Nat /\ number[s] <= issued /\ (session[s] # "none" => number[s] # 0)
        BY <2>1 DEF SInv, SessionsNumbered
      <4>2. s \in Replaced(u) => session[s] = "open"
        BY DEF Replaced, Open
      <4>. QED  BY <2>1, <2>2, <4>1, <4>2
    <3>3. \A d \in Client : login'[d].phase # "done" => d # c /\ login[d].phase # "done"
      BY <1>2 DEF SInv, AccountTypeOK
    <3>4. \A d \in Client : d \in Session /\ (login'[d].phase # "done" => number'[d] = 0)
      BY <2>1, <3>3 DEF SInv, SessionsNumbered, Session
    <3>. QED  BY <3>1, <3>2, <3>4 DEF SessionsNumbered
  <2>5. SessionsAreLimited'
    <3> SUFFICES ASSUME NEW v \in User
                 PROVE  Cardinality({s \in Session : AccountOf[s] = v /\ session'[s] = "open"}) <= MaxActive
      BY DEF SessionsAreLimited
    <3> DEFINE now == {s \in Session : AccountOf[s] = v /\ session'[s] = "open"}
               left0 == Open(v) \ Replaced(v)
    <3>1. MaxActive - 1 \in Nat /\ MaxActive \in Nat
      BY AccountAssumption
    <3>2. IsFiniteSet(Open(v)) /\ IsFiniteSet(left0) /\ IsFiniteSet(now)
      BY FS_Subset, AccountAssumption DEF Open
    <3>3. CASE v = u
      <4>1. now = left0 \cup {c}
        BY <2>1, <2>2, <3>3 DEF Open, Replaced
      <4>2. /\ \A s \in Open(v) : number[s] \in Nat
            /\ \A r, s \in Open(v) : number[r] = number[s] => r = s
        BY <2>1 DEF SInv, SessionsNumbered, Open
      <4>3. \A s \in Open(v) : After(Open(v), number, s) = Newer(s) \cap Open(v)
        BY DEF After, Newer, Open
      <4>4. \A s \in left0 : Cardinality(Newer(s) \cap Open(v)) < MaxActive - 1
        <5> SUFFICES ASSUME NEW s \in left0 PROVE Cardinality(Newer(s) \cap Open(v)) < MaxActive - 1
          OBVIOUS
        <5>1. Cardinality(Newer(s) \cap Open(v)) \in Nat
          BY <3>2, FS_Subset, FS_CardinalityType
        <5>2. ~ (Cardinality(Newer(s) \cap Open(v)) >= MaxActive - 1)
          BY DEF Replaced
        <5>. QED  BY <3>1, <5>1, <5>2
      <4>5. left0 \in SUBSET Open(v) /\ \A s \in left0 : Cardinality(After(Open(v), number, s)) < MaxActive - 1
        BY <4>3, <4>4
      <4> HIDE DEF left0, now
      <4>6. Cardinality(left0) <= MaxActive - 1
        BY <3>1, <3>2, <4>2, <4>5, FewAreNewest
      <4>7. Cardinality(now) <= Cardinality(left0) + 1 /\ Cardinality(left0) \in Nat
        <5>1. Cardinality(left0) \in Nat
          BY <3>2, FS_CardinalityType
        <5>. QED  BY <3>2, <4>1, <5>1, FS_AddElement
      <4>8. Cardinality(now) \in Nat
        BY <3>2, FS_CardinalityType
      <4>9. Cardinality(now) <= MaxActive
        BY <3>1, <4>6, <4>7, <4>8
      <4>. QED  BY <4>9 DEF now
    <3>4. CASE v # u
      <4>1. now = {s \in Session : AccountOf[s] = v /\ session[s] = "open"}
        BY <2>1, <2>2, <3>4 DEF Replaced, Open
      <4>. QED  BY <4>1 DEF SInv, SessionsAreLimited
    <3>. QED  BY <3>3, <3>4
  <2>. QED  BY <2>3, <2>4, <2>5 DEF SInv
<1>. QED  BY <1>1, <1>2 DEF Issue

LEMMA VerifyStep == ASSUME SInv, NEW c \in Client, Verify(c) PROVE SInv'
<1>1. AccountOf[c] \in User /\ user[AccountOf[c]].secret \in 0 .. MaxSecret
  BY AccountAssumption DEF SInv, AccountTypeOK, Session
<1>2. AccountTypeOK' /\ DeskFits'
  BY <1>1 DEF Verify, SInv, AccountTypeOK, DeskFits
<1>3. \A d \in Client : login[d].phase = "done" => login'[d].phase = "done"
  BY DEF Verify, SInv, AccountTypeOK
<1>. QED  BY <1>2, <1>3, SessionsStay DEF Verify

\* Sessions that were created are revoked.
LEMMA RevokeStep ==
  ASSUME SInv, NEW ss \in SUBSET Session, \A s \in ss : session[s] # "none",
         session' = Revoked(ss), UNCHANGED <<number, issued, login>>, AccountTypeOK', DeskFits'
  PROVE  SInv'
BY SessionsStay DEF Revoked

LEMMA LogoutStep == ASSUME SInv, NEW c \in Client, Logout(c) PROVE SInv'
<1>1. {c} \in SUBSET Session /\ session[c] # "none"
  BY DEF Logout, Valid, Session
<1>2. AccountTypeOK' /\ DeskFits'
  BY <1>1 DEF Logout, Revoked, SInv, AccountTypeOK, DeskFits, SessionState
<1>. QED  BY <1>1, <1>2, RevokeStep DEF Logout

LEMMA ChangePasswordStep == ASSUME SInv, NEW c \in Client, ChangePassword(c) PROVE SInv'
<1> DEFINE u == AccountOf[c]
           unrevoked == {s \in Session : AccountOf[s] = u /\ session[s] \in {"open", "expired"}}
<1>1. u \in User /\ user[u] \in [state : {"absent", "active", "inactive"}, secret : 0 .. MaxSecret]
  BY AccountAssumption DEF SInv, AccountTypeOK, Session
<1>2. /\ user[u].secret + 1 \in 0 .. MaxSecret
      /\ desk.on = u /\ desk.reset => user[u].secret + 1 < MaxSecret
  BY <1>1, AccountAssumption DEF ChangePassword, HasSecret
<1>3. user' \in [User -> [state : {"absent", "active", "inactive"}, secret : 0 .. MaxSecret]]
  BY <1>1, <1>2 DEF ChangePassword, SInv, AccountTypeOK
<1>4. AccountTypeOK'
  BY <1>3 DEF ChangePassword, Revoked, SInv, AccountTypeOK, SessionState
<1>5. DeskFits'
  <2>1. \A s \in desk.sees : s \in Session /\ session'[s] # "none"
    BY DEF ChangePassword, Revoked, SInv, AccountTypeOK, DeskFits
  <2>2. desk.reset /\ desk.on \in User => user'[desk.on].secret < MaxSecret
    BY <1>1, <1>2 DEF ChangePassword, SInv, AccountTypeOK, DeskFits
  <2>. QED  BY <2>1, <2>2 DEF ChangePassword, DeskFits
<1>. QED  BY <1>4, <1>5, RevokeStep DEF ChangePassword

LEMMA ExpireStep == ASSUME SInv, NEW s \in Session, Expire(s) PROVE SInv'
<1>1. AccountTypeOK' /\ DeskFits'
  BY DEF Expire, SInv, AccountTypeOK, DeskFits, SessionState
<1>2. \A x \in Session : session'[x] # session[x] => session[x] # "none" /\ session'[x] # "open"
  BY DEF Expire, SInv, AccountTypeOK
<1>. QED  BY <1>1, <1>2, SessionsStay DEF Expire

LEMMA ReadAccountStep ==
  ASSUME SInv, NEW u \in User, NEW state \in {"active", "inactive"}, NEW reset \in BOOLEAN,
         ReadAccount(u, state, reset)
  PROVE  SInv'
<1>1. AccountTypeOK'
  BY DEF ReadAccount, SInv, AccountTypeOK
<1>2. DeskFits'
  <2>1. user[u].secret \in 0 .. MaxSecret
    BY DEF SInv, AccountTypeOK
  <2>2. reset => user[u].secret < MaxSecret
    BY <2>1, AccountAssumption DEF ReadAccount, HasSecret
  <2>. QED  BY <2>2 DEF ReadAccount, DeskFits
<1>. QED  BY <1>1, <1>2, SessionsStay DEF ReadAccount

LEMMA WriteAccountStep == ASSUME SInv, WriteAccount PROVE SInv'
<1>1. desk.sees \in SUBSET Session /\ desk.state \in {"active", "inactive"} /\ desk.reset \in BOOLEAN
  BY DEF SInv, AccountTypeOK
<1>2. user' \in [User -> [state : {"absent", "active", "inactive"}, secret : 0 .. MaxSecret]]
  <2>1. CASE desk.on \in User
    <3>1. user[desk.on].secret \in 0 .. MaxSecret
      BY <2>1 DEF SInv, AccountTypeOK
    <3>2. desk.reset => user[desk.on].secret + 1 \in 0 .. MaxSecret
      BY <2>1, <3>1, AccountAssumption DEF SInv, DeskFits
    <3>. QED  BY <1>1, <2>1, <3>1, <3>2 DEF WriteAccount, SInv, AccountTypeOK
  <2>2. CASE desk.on \notin User
    BY <2>2 DEF WriteAccount, SInv, AccountTypeOK
  <2>. QED  BY <2>1, <2>2
<1>3. AccountTypeOK'
  BY <1>1, <1>2, AccountAssumption DEF WriteAccount, Revoked, Idle, SInv, AccountTypeOK, SessionState
<1>4. DeskFits'
  BY DEF WriteAccount, DeskFits, Idle
<1>. QED  BY <1>1, <1>3, <1>4, RevokeStep DEF WriteAccount, SInv, DeskFits

LEMMA DeleteUserStep == ASSUME SInv, NEW u \in User, DeleteUser(u) PROVE SInv'
<1>1. desk' \in {desk, Idle} /\ (desk' = desk => desk.on # u \/ desk = Idle)
  BY DEF DeleteUser
<1>2. user' \in [User -> [state : {"absent", "active", "inactive"}, secret : 0 .. MaxSecret]]
  BY DEF DeleteUser, SInv, AccountTypeOK
<1>3. session' \in [Session -> SessionState]
  BY DEF DeleteUser, SInv, AccountTypeOK, SessionState
<1>4. Idle \in [on : User \cup {NoUser}, sees : SUBSET Session, state : {"active", "inactive"},
                reset : BOOLEAN]
  BY DEF Idle
<1>5. AccountTypeOK'
  BY <1>1, <1>2, <1>3, <1>4 DEF DeleteUser, SInv, AccountTypeOK
<1>6. DeskFits'
  <2>1. \A s \in desk'.sees : s \in Session /\ session'[s] # "none"
    BY <1>1 DEF DeleteUser, SInv, AccountTypeOK, DeskFits, Idle
  <2>2. desk'.reset /\ desk'.on \in User => user'[desk'.on].secret < MaxSecret
    BY <1>1 DEF DeleteUser, SInv, AccountTypeOK, DeskFits, Idle
  <2>. QED  BY <2>1, <2>2 DEF DeskFits
<1>7. \A s \in Session : session'[s] # session[s] => session[s] # "none" /\ session'[s] # "open"
  BY DEF DeleteUser
<1>. QED  BY <1>5, <1>6, <1>7, SessionsStay DEF DeleteUser

LEMMA CreateUserStep == ASSUME SInv, NEW u \in User, CreateUser(u) PROVE SInv'
<1>1. user[u] \in [state : {"absent", "active", "inactive"}, secret : 0 .. MaxSecret]
  BY DEF SInv, AccountTypeOK
<1>2. /\ user[u].secret + 1 \in 0 .. MaxSecret
      /\ desk.on = u /\ desk.reset => user[u].secret + 1 < MaxSecret
  BY <1>1, AccountAssumption DEF CreateUser, HasSecret
<1>3. user' \in [User -> [state : {"absent", "active", "inactive"}, secret : 0 .. MaxSecret]]
  BY <1>1, <1>2 DEF CreateUser, SInv, AccountTypeOK
<1>4. AccountTypeOK'
  BY <1>3 DEF CreateUser, SInv, AccountTypeOK
<1>5. DeskFits'
  BY <1>1, <1>2 DEF CreateUser, SInv, AccountTypeOK, DeskFits
<1>. QED  BY <1>4, <1>5, SessionsStay DEF CreateUser

LEMMA UpdateTeamStep == ASSUME SInv, NEW t \in Team, UpdateTeam(t) PROVE SInv'
<1>1. AccountTypeOK' /\ DeskFits'
  BY DEF UpdateTeam, SInv, AccountTypeOK, DeskFits
<1>. QED  BY <1>1, SessionsStay DEF UpdateTeam

LEMMA AccountsUnchanged == ASSUME SInv, UNCHANGED accountVars PROVE SInv'
BY DEF accountVars, SInv, AccountTypeOK, DeskFits, SessionsNumbered, SessionsAreLimited

LEMMA SessionsInductive ==
  /\ Init /\ left \in Plan => SInv
  /\ SInv /\ [Next]_vars => SInv'
<1>1. ASSUME Init, left \in Plan PROVE SInv
  BY <1>1, SessionsStart DEF Init, Plan
<1>2. ASSUME SInv, [Next]_vars PROVE SInv'
  <2>1. CASE UNCHANGED accountVars
    BY <1>2, <2>1, AccountsUnchanged
  <2>2. CASE AccountCommit
    <3>1. CASE WriteAccount
      BY <1>2, <3>1, WriteAccountStep
    <3>2. CASE \E c \in Client : Issue(c)
      BY <1>2, <3>2, IssueStep
    <3>3. CASE \E c \in Client : Logout(c) \/ ChangePassword(c)
      BY <1>2, <3>3, LogoutStep, ChangePasswordStep
    <3>4. CASE \E u \in User : DeleteUser(u) \/ CreateUser(u)
      BY <1>2, <3>4, DeleteUserStep, CreateUserStep
    <3>5. CASE \E t \in Team : UpdateTeam(t)
      BY <1>2, <3>5, UpdateTeamStep
    <3>. QED  BY <2>2, <3>1, <3>2, <3>3, <3>4, <3>5 DEF AccountCommit
  <2>3. CASE AccountRead
    BY <1>2, <2>3, VerifyStep, ReadAccountStep DEF AccountRead
  <2>4. CASE SessionExpires
    BY <1>2, <2>4, ExpireStep DEF SessionExpires
  <2>5. CASE Progress \/ Commit \/ ProfileCommit \/ Midnight \/ (Faults /\ ~SessionExpires)
    <3>1. UNCHANGED accountVars
      <4>1. CASE Progress
        BY <4>1 DEF Progress, Claim, Publish, Complete, LinkUp, Resync, Consume, Top, Wake, Heartbeat,
           Connect, ReadFrame, FinishFrame, TimePasses, StreamStep
      <4>2. CASE Commit \/ ProfileCommit \/ Midnight
        BY <4>2 DEF Commit, ProfileCommit, UpdateProfile, Midnight
      <4>3. CASE Faults /\ ~SessionExpires
        BY <4>3 DEF Faults, GiveUp, Disconnect, QueueExpires, Crash, Leave, StreamStep
      <4>. QED  BY <2>5, <4>1, <4>2, <4>3
    <3>. QED  BY <2>1, <3>1
  <2>6. CASE UNCHANGED vars
    BY <2>1, <2>6 DEF vars
  <2>. QED  BY <1>2, <2>2, <2>3, <2>4, <2>5, <2>6 DEF Next, Faults
<1>. QED  BY <1>1, <1>2

\* No account has more usable sessions than MAX_ACTIVE_SESSIONS, in whatever order logins,
\* password changes and administrators' updates overlap (create_session keeps the newest
\* sessions it finds open under the account's lock).
THEOREM SessionsAlwaysLimited == Spec => []SessionsAreLimited
<1>1. Init => left \in Plan
  BY UpdateAssumption DEF Init
<1>2. SInv => SessionsAreLimited
  BY DEF SInv
<1>. QED  BY <1>1, <1>2, SessionsInductive, PTL DEF Spec

-----------------------------------------------------------------------------
(* What is on its way stays on its way.                                    *)

LEMMA ChangesAndTopics ==
  /\ Nothing \in Change /\ Everything \in Change
  /\ \A a, b \in Change : Merge(a, b) \in Change /\ Covers(Merge(a, b)) = Covers(a) \cup Covers(b)
  /\ \A x \in Change : Covers(x) \in SUBSET (Topic \ {"day"})
  /\ Covers(Everything) = Topic \ {"day"} /\ Covers(Nothing) = {}
  /\ "day" \notin Team
<1>1. "day" \notin Team
  BY UpdateAssumption
<1>2. \A a, b \in Change : Merge(a, b) \in Change /\ Covers(Merge(a, b)) = Covers(a) \cup Covers(b)
  BY DEF Change, Merge, Covers
<1>3. \A x \in Change : Covers(x) \in SUBSET (Topic \ {"day"})
  BY <1>1 DEF Change, Covers, Topic
<1>. QED  BY <1>1, <1>2, <1>3 DEF Nothing, Everything, Change, Covers, Topic

LEMMA FirstOfBatch ==
  ASSUME OutboxTyped, NEW w \in Worker, batch[w].messages # {}
  PROVE  First(w) \in batch[w].messages /\ First(w) \in Message
<1>1. batch[w].messages \in SUBSET Message /\ batch[w].messages \in SUBSET Nat
  BY DEF OutboxTyped, Message
<1>2. \E m \in batch[w].messages : \A n \in batch[w].messages : m <= n
  BY <1>1, LeastNatural
<1>. QED  BY <1>1, <1>2 DEF First

\* A step of the publisher or the broker that keeps every change on its way.
LEMMA TravelStep ==
  ASSUME UInv, OutboxTyped', BrokerTyped', UNCHANGED <<revision, stream, frames, stale, today>>,
         \A w \in Worker, t \in Topic \ {"day"} : Travelling(w, t) => Travelling(w, t)'
  PROVE  UInv'
<1>1. UpdatesTyped'
  BY DEF UInv, UpdatesTyped, FramesTyped, StreamsTyped, StreamState
<1>2. Team \in SUBSET (Topic \ {"day"})
  BY ChangesAndTopics DEF Topic
<1>3. ASSUME NEW c \in Client, stream'[c].phase \in Streaming
      PROVE  Awaited(c)'
  <2>1. Awaited(c) /\ stream[c].on \in Worker
    BY <1>3 DEF UInv, UpdatesTyped, StreamsTyped
  <2>2. \A t \in Topic \ {"day"} : Coming(c, t) => Coming(c, t)'
    BY <2>1 DEF Coming
  <2>3. stale[c] \in SUBSET Topic
    BY DEF UInv, UpdatesTyped, StreamsTyped
  <2>4. stream[c].phase = "frame" => frames[stream[c].frame].missed \in SUBSET Team
    BY DEF UInv, UpdatesTyped, StreamsTyped, StreamState, FramesTyped
  <2>. QED  BY <1>2, <2>1, <2>2, <2>3, <2>4 DEF Awaited
<1>4. FramesAwaited'
  BY <1>2 DEF UInv, UpdatesTyped, FramesTyped, FramesAwaited
<1>. QED  BY <1>1, <1>3, <1>4 DEF UInv

\* An unsent change stays unsent and as it is.
StillUnsent(m) == m \in Unsent' /\ ~Sent(m)' /\ outbox'[m].change = outbox[m].change

LEMMA OutboxStep ==
  ASSUME UInv, OutboxTyped', UNCHANGED <<link, queue, revision, stream, frames, stale, today>>,
         \A m \in Unsent : Sent(m) \/ StillUnsent(m)
  PROVE  UInv'
<1>1. BrokerTyped'
  BY DEF UInv, UpdatesTyped, BrokerTyped
<1>2. \A w \in Worker, t \in Topic \ {"day"} : Travelling(w, t) => Travelling(w, t)'
  BY DEF Travelling, StillUnsent
<1>. QED  BY <1>1, <1>2, TravelStep

LEMMA ClaimStep == ASSUME UInv, NEW w \in Worker, Claim(w) PROVE UInv'
<1> DEFINE taken == Oldest(Claimable, Limit)
<1>1. OutboxTyped
  BY DEF UInv, UpdatesTyped
<1>2. /\ batch[w].messages = {} /\ batch[w].answer = "none" /\ taken \in SUBSET Message
      /\ \A m \in taken : outbox[m].state \in {"ready", "lapsed"}
      /\ outbox' = [m \in Message |-> IF m \in taken
                                      THEN [outbox[m] EXCEPT !.state = "leased", !.owner = w]
                                      ELSE outbox[m]]
      /\ batch' = [batch EXCEPT ![w].messages = taken]
  BY <1>1 DEF Claim, Oldest, Claimable, OutboxTyped
<1> HIDE DEF taken
<1>3. OutboxTyped'
  <2>1. \A m \in Message : outbox[m] \in OutboxRow => LET row == [outbox[m] EXCEPT !.state = "leased", !.owner = w]
                            IN  row \in OutboxRow /\ Leased(row)
    BY DEF OutboxRow, State, Leased
  <2>2. outbox' \in [Message -> OutboxRow] /\ \A m \in Message : Leased(outbox'[m])
    BY <1>1, <1>2, <2>1 DEF OutboxTyped
  <2>3. /\ batch' \in [Worker -> [messages : SUBSET Message, answer : {"none", "sent", "failed"}]]
        /\ \A v \in Worker : batch'[v].messages = {} => batch'[v].answer = "none"
    BY <1>1, <1>2 DEF OutboxTyped
  <2>. QED  BY <2>2, <2>3 DEF OutboxTyped
<1>4. \A m \in Unsent : m \in Unsent' /\ outbox'[m].change = outbox[m].change
  BY <1>1, <1>2 DEF Unsent, OutboxTyped, OutboxRow
<1>5. ASSUME NEW m \in Unsent, Sent(m)' PROVE Sent(m)
  <2>1. PICK v \in Worker : /\ outbox'[m].owner = v /\ batch'[v].messages # {}
                            /\ First(v)' = m /\ batch'[v].answer = "sent"
    BY <1>5 DEF Sent
  <2>2. v # w
    BY <1>1, <1>2, <2>1 DEF OutboxTyped
  <2>3. batch'[v] = batch[v] /\ First(v)' = First(v)
    BY <1>1, <1>2, <2>1, <2>2 DEF OutboxTyped, First
  <2>4. m \in Message /\ outbox[m] \in OutboxRow
    BY <1>1 DEF Unsent, OutboxTyped
  <2>5. m \notin taken
    BY <1>2, <2>1, <2>2, <2>4 DEF OutboxRow
  <2>6. outbox[m].owner = v
    BY <1>2, <2>1, <2>4, <2>5
  <2>. QED  BY <2>1, <2>3, <2>6 DEF Sent
<1>. QED  BY <1>3, <1>4, <1>5, OutboxStep DEF Claim, StillUnsent

LEMMA CompleteStep == ASSUME UInv, NEW w \in Worker, Complete(w) PROVE UInv'
<1> DEFINE m0 == First(w)
<1>1. OutboxTyped /\ m0 \in Message /\ m0 \in batch[w].messages
  BY FirstOfBatch DEF UInv, UpdatesTyped, Complete
<1>2. /\ batch[w].answer # "none"
      /\ outbox' = [outbox EXCEPT ![m0] = IF @.owner = w THEN Settled(@, batch[w].answer) ELSE @]
      /\ batch' = [batch EXCEPT ![w] = [messages |-> @.messages \ {m0}, answer |-> "none"]]
  BY DEF Complete
<1>3. outbox[m0].owner = w /\ batch[w].answer = "sent" => Sent(m0)
  BY <1>1 DEF Sent
<1> HIDE DEF m0
<1>4. OutboxTyped'
  <2>1. \A row \in OutboxRow : LET new == Settled(row, batch[w].answer)
                              IN  new \in OutboxRow /\ Leased(new)
    BY UpdateAssumption DEF OutboxRow, State, Leased, Settled, Nobody, Dead
  <2>2. outbox' \in [Message -> OutboxRow] /\ \A m \in Message : Leased(outbox'[m])
    BY <1>1, <1>2, <2>1 DEF OutboxTyped
  <2>3. /\ batch' \in [Worker -> [messages : SUBSET Message, answer : {"none", "sent", "failed"}]]
        /\ \A v \in Worker : batch'[v].messages = {} => batch'[v].answer = "none"
    BY <1>1, <1>2 DEF OutboxTyped
  <2>. QED  BY <2>2, <2>3 DEF OutboxTyped
<1>5. \A m \in Unsent : Sent(m) \/ (m \in Unsent' /\ outbox'[m].change = outbox[m].change)
  BY <1>1, <1>2, <1>3 DEF Unsent, OutboxTyped, OutboxRow, Settled
<1>6. ASSUME NEW m \in Unsent, Sent(m)' PROVE Sent(m)
  <2>1. PICK v \in Worker : /\ outbox'[m].owner = v /\ batch'[v].messages # {}
                            /\ First(v)' = m /\ batch'[v].answer = "sent"
    BY <1>6 DEF Sent
  <2>2. v # w
    BY <1>1, <1>2, <2>1 DEF OutboxTyped
  <2>3. batch'[v] = batch[v] /\ First(v)' = First(v)
    BY <1>1, <1>2, <2>1, <2>2 DEF OutboxTyped, First
  <2>4. outbox[m].owner = v
    BY <1>1, <1>2, <2>1, <2>2, UpdateAssumption DEF OutboxTyped, OutboxRow, Unsent, Settled
  <2>. QED  BY <2>1, <2>3, <2>4 DEF Sent
<1>. QED  BY <1>4, <1>5, <1>6, OutboxStep DEF Complete, StillUnsent

LEMMA GiveUpStep == ASSUME UInv, NEW w \in Worker, GiveUp(w) PROVE UInv'
<1>1. OutboxTyped /\ OutboxTyped'
  BY DEF UInv, UpdatesTyped, OutboxTyped, GiveUp
<1>2. ASSUME NEW m \in Unsent, Sent(m)' PROVE Sent(m)
  <2>1. PICK v \in Worker : /\ outbox'[m].owner = v /\ batch'[v].messages # {}
                            /\ First(v)' = m /\ batch'[v].answer = "sent"
    BY <1>2 DEF Sent
  <2>2. v # w /\ batch'[v] = batch[v] /\ First(v)' = First(v) /\ outbox' = outbox
    BY <1>1, <2>1 DEF OutboxTyped, First, GiveUp
  <2>. QED  BY <2>1, <2>2 DEF Sent
<1>3. \A m \in Unsent : m \in Unsent' /\ outbox'[m].change = outbox[m].change
  BY DEF Unsent, GiveUp
<1>. QED  BY <1>1, <1>2, <1>3, OutboxStep DEF GiveUp, StillUnsent

LEMMA TimeStep == ASSUME UInv, TimePasses PROVE UInv'
<1>1. OutboxTyped
  BY DEF UInv, UpdatesTyped
<1>2. PICK m0 \in Message : Due(m0) \/ Lapse(m0) \/ Prune(m0)
  BY DEF TimePasses
<1>3. OutboxTyped'
  <2>1. PICK row \in OutboxRow : Leased(row) /\ outbox' = [outbox EXCEPT ![m0] = row]
    <3>1. outbox[m0] \in OutboxRow /\ Leased(outbox[m0])
      BY <1>1 DEF OutboxTyped
    <3>2. CASE Due(m0)
      BY <3>1, <3>2 DEF Due, OutboxRow, State, Leased
    <3>3. CASE Lapse(m0)
      BY <3>1, <3>3 DEF Lapse, OutboxRow, State, Leased
    <3>4. CASE Prune(m0)
      BY <3>4, ChangesAndTopics, UpdateAssumption DEF Prune, NoRow, OutboxRow, State, Leased, Nobody, Dead
    <3>. QED  BY <1>2, <3>2, <3>3, <3>4
  <2>. QED  BY <1>1, <2>1 DEF OutboxTyped, TimePasses
<1>4. \A m \in Unsent : m \in Unsent' /\ outbox'[m].change = outbox[m].change
                        /\ outbox'[m].owner = outbox[m].owner
  BY <1>1, <1>2 DEF Unsent, OutboxTyped, OutboxRow, Due, Lapse, Prune
<1>5. ASSUME NEW m \in Unsent, Sent(m)' PROVE Sent(m)
  BY <1>4, <1>5 DEF Sent, First, TimePasses
<1>. QED  BY <1>3, <1>4, <1>5, OutboxStep DEF TimePasses, StillUnsent

LEMMA FanOutKeeps ==
  ASSUME BrokerTyped, NEW change \in Change, FanOut(change)
  PROVE  /\ queue' \in [Worker -> [bound : BOOLEAN, messages : Seq(Change)]]
         /\ \A w \in Worker :
              /\ queue'[w].bound = queue[w].bound
              /\ ~queue[w].bound => queue'[w] = queue[w]
              /\ \A i \in DOMAIN queue[w].messages :
                   i \in DOMAIN queue'[w].messages /\ queue'[w].messages[i] = queue[w].messages[i]
              /\ queue[w].bound => \E i \in DOMAIN queue'[w].messages : queue'[w].messages[i] = change
<1> SUFFICES ASSUME NEW w \in Worker
             PROVE  /\ queue'[w] \in [bound : BOOLEAN, messages : Seq(Change)]
                    /\ queue'[w].bound = queue[w].bound
                    /\ ~queue[w].bound => queue'[w] = queue[w]
                    /\ \A i \in DOMAIN queue[w].messages :
                         i \in DOMAIN queue'[w].messages /\ queue'[w].messages[i] = queue[w].messages[i]
                    /\ queue[w].bound => \E i \in DOMAIN queue'[w].messages : queue'[w].messages[i] = change
  BY DEF FanOut
<1>1. queue[w] \in [bound : BOOLEAN, messages : Seq(Change)]
  BY DEF BrokerTyped
<1>2. CASE ~queue[w].bound
  BY <1>1, <1>2 DEF FanOut
<1>3. CASE queue[w].bound
  <2> DEFINE q == queue[w].messages
  <2>1. queue'[w] = [bound |-> TRUE, messages |-> Append(q, change)]
    BY <1>1, <1>3 DEF FanOut
  <2>2. q \in Seq(Change) /\ Len(q) \in Nat /\ DOMAIN q = 1 .. Len(q)
    BY <1>1
  <2>3. /\ Append(q, change) \in Seq(Change) /\ DOMAIN Append(q, change) = 1 .. Len(q) + 1
        /\ \A i \in 1 .. Len(q) : Append(q, change)[i] = q[i]
        /\ Append(q, change)[Len(q) + 1] = change
    BY <2>2
  <2> HIDE DEF q
  <2>. QED  BY <1>3, <2>1, <2>2, <2>3 DEF q
<1>. QED  BY <1>2, <1>3

LEMMA FanOutTravels ==
  ASSUME BrokerTyped, NEW change \in Change, FanOut(change), UNCHANGED outbox,
         NEW w \in Worker, NEW t, \A m \in Unsent : Sent(m)' => Sent(m) \/ outbox[m].change = change,
         link[w] = "live" => queue[w].bound, link[w] # "live" => link'[w] # "live",
         Travelling(w, t)
  PROVE  Travelling(w, t)'
<1>1. CASE link[w] # "live"
  BY <1>1 DEF Travelling
<1>2. CASE \E i \in DOMAIN queue[w].messages : t \in Covers(queue[w].messages[i])
  BY <1>2, FanOutKeeps DEF Travelling
<1>3. CASE \E m \in Unsent : ~Sent(m) /\ t \in Covers(outbox[m].change)
  <2>1. PICK m \in Unsent : ~Sent(m) /\ t \in Covers(outbox[m].change)
    BY <1>3
  <2>2. CASE ~Sent(m)'
    BY <2>1, <2>2 DEF Travelling, Unsent
  <2>3. CASE Sent(m)'
    BY <1>1, <2>1, <2>3, FanOutKeeps DEF Travelling
  <2>. QED  BY <2>2, <2>3
<1>. QED  BY <1>1, <1>2, <1>3 DEF Travelling

LEMMA PublishStep == ASSUME UInv, NEW w \in Worker, Publish(w) PROVE UInv'
<1> DEFINE change == outbox[First(w)].change
<1>1. OutboxTyped /\ BrokerTyped /\ First(w) \in Message
  BY FirstOfBatch DEF UInv, UpdatesTyped, Publish
<1>2. change \in Change
  BY <1>1 DEF OutboxTyped, OutboxRow
<1>3. /\ FanOut(change) \/ (UNCHANGED queue /\ batch'[w].answer = "failed")
      /\ \A v \in Worker : v # w => batch'[v] = batch[v]
      /\ batch'[w].messages = batch[w].messages
      /\ UNCHANGED <<outbox, link, revision, stream, frames, stale, today>>
  BY <1>1 DEF Publish, OutboxTyped
<1>4. OutboxTyped'
  BY <1>1 DEF Publish, OutboxTyped
<1>5. BrokerTyped'
  <2>1. CASE FanOut(change)
    BY <1>1, <1>2, <1>3, <2>1, FanOutKeeps DEF BrokerTyped
  <2>2. CASE UNCHANGED queue
    BY <1>1, <1>3, <2>2 DEF BrokerTyped
  <2>. QED  BY <1>3, <2>1, <2>2
<1>6. \A v \in Worker : First(v)' = First(v)
  BY <1>3 DEF First
<1>7. ASSUME NEW m \in Unsent, Sent(m)', ~Sent(m)
      PROVE  m = First(w) /\ batch'[w].answer = "sent"
  BY <1>3, <1>6, <1>7 DEF Sent
<1>8. ASSUME NEW v \in Worker, NEW t \in Topic \ {"day"}, Travelling(v, t)
      PROVE  Travelling(v, t)'
  <2>1. CASE FanOut(change)
    <3>1. \A m \in Unsent : Sent(m)' => Sent(m) \/ outbox[m].change = change
      BY <1>7
    <3>2. link[v] = "live" => queue[v].bound
      BY <1>1 DEF BrokerTyped
    <3> HIDE DEF change
    <3>. QED  BY <1>1, <1>2, <1>3, <1>8, <2>1, <3>1, <3>2, FanOutTravels
  <2>2. CASE UNCHANGED queue /\ batch'[w].answer = "failed"
    BY <1>3, <1>7, <1>8, <2>2 DEF Travelling, Unsent
  <2>. QED  BY <1>3, <2>1, <2>2
<1>. QED  BY <1>3, <1>4, <1>5, <1>8, TravelStep

LEMMA LinkStep ==
  ASSUME UInv, NEW w \in Worker, LinkUp(w) \/ Disconnect(w) \/ QueueExpires(w)
  PROVE  UInv'
<1>1. BrokerTyped /\ OutboxTyped
  BY DEF UInv, UpdatesTyped
<1>2. OutboxTyped'
  BY <1>1 DEF OutboxTyped, LinkUp, Disconnect, QueueExpires
<1>3. /\ link'[w] # "live" /\ \A v \in Worker \ {w} : link'[v] = link[v] /\ queue'[v] = queue[v]
      /\ UNCHANGED <<outbox, batch, revision, stream, frames, stale, today>>
  BY <1>1 DEF LinkUp, Disconnect, QueueExpires, BrokerTyped
<1>4. BrokerTyped'
  <2>0. <<>> \in Seq(Change)
    OBVIOUS
  <2>1. CASE LinkUp(w)
    BY <1>1, <2>1 DEF LinkUp, BrokerTyped
  <2>2. CASE Disconnect(w)
    BY <1>1, <2>2 DEF Disconnect, BrokerTyped
  <2>3. CASE QueueExpires(w)
    BY <1>1, <2>0, <2>3 DEF QueueExpires, BrokerTyped
  <2>. QED  BY <2>1, <2>2, <2>3
<1>5. \A m \in Message : Sent(m)' <=> Sent(m)
  BY <1>3 DEF Sent, First
<1>6. \A v \in Worker, t \in Topic \ {"day"} : Travelling(v, t) => Travelling(v, t)'
  BY <1>3, <1>5 DEF Travelling, Unsent
<1>. QED  BY <1>2, <1>3, <1>4, <1>6, TravelStep

\* Whoever reconnects asks for everything: what was lost with its queue is among it.
LEMMA ResyncStep == ASSUME UInv, NEW w \in Worker, Resync(w) PROVE UInv'
<1>1. BrokerTyped /\ OutboxTyped
  BY DEF UInv, UpdatesTyped
<1>2. /\ link[w] = "binding" /\ FanOut(Everything) /\ queue[w].bound
      /\ link' = [link EXCEPT ![w] = "live"]
      /\ UNCHANGED <<outbox, batch, revision, stream, frames, stale, today>>
  BY <1>1 DEF Resync, BrokerTyped
<1>3. OutboxTyped'
  BY <1>1, <1>2 DEF OutboxTyped
<1>4. BrokerTyped'
  BY <1>1, <1>2, FanOutKeeps, ChangesAndTopics DEF BrokerTyped
<1>5. \A m \in Message : Sent(m)' <=> Sent(m)
  BY <1>2 DEF Sent, First
<1>6. ASSUME NEW v \in Worker, NEW t \in Topic \ {"day"}, Travelling(v, t)
      PROVE  Travelling(v, t)'
  <2>1. CASE v = w
    BY <1>1, <1>2, <2>1, FanOutKeeps, ChangesAndTopics DEF Travelling
  <2>2. CASE v # w
    <3>1. link'[v] = link[v] /\ (link[v] = "live" => queue[v].bound)
      BY <1>1, <1>2, <2>2 DEF BrokerTyped
    <3>2. \A m \in Unsent : Sent(m)' => Sent(m)
      BY <1>5 DEF Unsent
    <3>. QED  BY <1>1, <1>2, <1>6, <3>1, <3>2, FanOutTravels, ChangesAndTopics
  <2>. QED  BY <2>1, <2>2
<1>. QED  BY <1>2, <1>3, <1>4, <1>6, TravelStep

LEMMA ConsumeStep == ASSUME UInv, NEW w \in Worker, Consume(w) PROVE UInv'
<1> DEFINE q == queue[w].messages
           change == Head(q)
<1>1. BrokerTyped /\ OutboxTyped /\ StreamsTyped /\ FramesTyped
  BY DEF UInv, UpdatesTyped
<1>2. /\ link[w] = "live" /\ q # <<>> /\ queue[w].bound
      /\ q \in Seq(Change) /\ change \in Change /\ Tail(q) \in Seq(Change)
      /\ stream' = Signalled(w, change)
      /\ revision' = [revision EXCEPT ![w] = IF IsInventory(change) THEN @ + 1 ELSE @]
      /\ UNCHANGED <<outbox, batch, frames, stale, today>>
      /\ \/ UNCHANGED link /\ queue' = [queue EXCEPT ![w].messages = Tail(q)]
         \/ UNCHANGED queue /\ link' = [link EXCEPT ![w] = "down"]
  BY <1>1 DEF Consume, BrokerTyped
<1>3. \A t : (\E i \in DOMAIN q : t \in Covers(q[i])) =>
              t \in Covers(change) \/ \E i \in DOMAIN Tail(q) : t \in Covers(Tail(q)[i])
  <2>0. \A i \in DOMAIN q : i = 1 => q[i] = change
    BY <1>2
  <2> HIDE DEF change
  <2> SUFFICES ASSUME NEW t, NEW i \in DOMAIN q, t \in Covers(q[i]), i # 1
               PROVE  \E k \in DOMAIN Tail(q) : t \in Covers(Tail(q)[k])
    BY <2>0
  <2>1. i - 1 \in DOMAIN Tail(q) /\ Tail(q)[i - 1] = q[i]
    BY <1>2
  <2>. QED  BY <2>1
<1> HIDE DEF change, q
<1>4. BrokerTyped'
  <2>1. revision' \in [Worker -> Nat]
    BY <1>1, <1>2 DEF BrokerTyped
  <2>2. CASE UNCHANGED link /\ queue' = [queue EXCEPT ![w].messages = Tail(q)]
    <3>1. queue' \in [Worker -> [bound : BOOLEAN, messages : Seq(Change)]]
      BY <1>1, <1>2, <2>2 DEF BrokerTyped
    <3>2. \A v \in Worker : /\ queue'[v].bound = queue[v].bound
                            /\ ~queue[v].bound => queue'[v].messages = <<>>
      BY <1>1, <1>2, <2>2 DEF BrokerTyped
    <3>. QED  BY <1>1, <2>1, <2>2, <3>1, <3>2 DEF BrokerTyped
  <2>3. CASE UNCHANGED queue /\ link' = [link EXCEPT ![w] = "down"]
    BY <1>1, <2>1, <2>3 DEF BrokerTyped
  <2>. QED  BY <1>2, <2>2, <2>3
<1>5. OutboxTyped'
  BY <1>1, <1>2 DEF OutboxTyped
<1>6. FramesTyped'
  <2>1. \A v \in Worker : revision[v] \in Nat /\ revision'[v] \in Nat /\ revision[v] <= revision'[v]
    BY <1>1, <1>2 DEF BrokerTyped
  <2>. QED  BY <1>1, <1>2, <2>1 DEF FramesTyped
<1>7. /\ stream' \in [Client -> StreamState]
      /\ \A c \in Client :
           /\ stream'[c].phase = stream[c].phase /\ stream'[c].on = stream[c].on
           /\ stream'[c].change = stream[c].change /\ stream'[c].day = stream[c].day
           /\ stream'[c].frame = stream[c].frame
           /\ Covers(stream[c].pending) \in SUBSET Covers(stream'[c].pending)
           /\ stream[c].on = w => Covers(change) \in SUBSET Covers(stream'[c].pending)
  <2> SUFFICES ASSUME NEW c \in Client
               PROVE  /\ stream'[c] \in StreamState
                      /\ stream'[c].phase = stream[c].phase /\ stream'[c].on = stream[c].on
                      /\ stream'[c].change = stream[c].change /\ stream'[c].day = stream[c].day
                      /\ stream'[c].frame = stream[c].frame
                      /\ Covers(stream[c].pending) \in SUBSET Covers(stream'[c].pending)
                      /\ stream[c].on = w => Covers(change) \in SUBSET Covers(stream'[c].pending)
    BY <1>2 DEF Signalled
  <2>1. stream[c] \in StreamState /\ stream[c].pending \in Change
    BY <1>1 DEF StreamsTyped, StreamState
  <2>2. /\ Merge(stream[c].pending, change) \in Change
        /\ Covers(Merge(stream[c].pending, change)) = Covers(stream[c].pending) \cup Covers(change)
    BY <1>2, <2>1, ChangesAndTopics
  <2>3. stream'[c] = IF stream[c].on = w THEN [stream[c] EXCEPT !.pending = Merge(@, change)] ELSE stream[c]
    BY <1>2 DEF Signalled
  <2>. QED  BY <2>1, <2>2, <2>3 DEF StreamState
<1>8. StreamsTyped'
  BY <1>1, <1>2, <1>7 DEF StreamsTyped, StreamState, Relevant
<1>9. ASSUME NEW v \in Worker, NEW t, Travelling(v, t), ~Travelling(v, t)'
      PROVE  v = w /\ t \in Covers(change)
  <2>1. \A m \in Message : Sent(m)' <=> Sent(m)
    BY <1>2 DEF Sent, First
  <2>2. \E i \in DOMAIN queue[v].messages : t \in Covers(queue[v].messages[i])
    <3>1. link[v] # "live" => link'[v] # "live"
      BY <1>1, <1>2 DEF BrokerTyped
    <3>. QED  BY <1>2, <1>9, <2>1, <3>1 DEF Travelling, Unsent
  <2>3. v = w
    BY <1>1, <1>2, <1>9, <2>2 DEF Travelling, BrokerTyped
  <2>4. queue' = [queue EXCEPT ![w].messages = Tail(q)]
    BY <1>1, <1>2, <1>9, <2>3 DEF Travelling, BrokerTyped
  <2>5. queue'[w].messages = Tail(q)
    BY <1>1, <2>4 DEF BrokerTyped
  <2>. QED  BY <1>3, <1>9, <2>2, <2>3, <2>5 DEF Travelling, q
<1>10. ASSUME NEW c \in Client, stream'[c].phase \in Streaming
       PROVE  Awaited(c)'
  <2>1. Awaited(c) /\ stream[c].on \in Worker
    BY <1>1, <1>7, <1>10 DEF UInv, StreamsTyped
  <2>2. \A t : Coming(c, t) => Coming(c, t)'
    BY <1>7, <1>9, <2>1 DEF Coming
  <2>. QED  BY <1>2, <1>7, <2>1, <2>2 DEF Awaited
<1>11. FramesAwaited'
  <2> SUFFICES ASSUME NEW f \in DOMAIN frames, f[2] = revision'[f[1]], NEW t \in frames[f].missed
               PROVE  Travelling(f[1], t)'
    BY <1>2 DEF FramesAwaited
  <2>1. f[1] \in Worker /\ f[2] \in Nat /\ f[2] <= revision[f[1]] /\ t \in Team /\ revision[f[1]] \in Nat
    BY <1>1 DEF FramesTyped, BrokerTyped
  <2>2. f[2] = revision[f[1]] /\ (f[1] = w => ~IsInventory(change))
    BY <1>1, <1>2, <2>1 DEF BrokerTyped
  <2>3. Travelling(f[1], t)
    BY <2>2 DEF UInv, FramesAwaited
  <2>4. ~IsInventory(change) => t \notin Covers(change)
    BY <2>1, UpdateAssumption DEF IsInventory, Covers
  <2>. QED  BY <1>9, <2>1, <2>2, <2>3, <2>4
<1>. QED  BY <1>4, <1>5, <1>6, <1>8, <1>10, <1>11 DEF UInv, UpdatesTyped

LEMMA CrashStep == ASSUME UInv, NEW w \in Worker, Crash(w) PROVE UInv'
<1>1. BrokerTyped /\ OutboxTyped /\ StreamsTyped /\ FramesTyped
  BY DEF UInv, UpdatesTyped
<1>2. OutboxTyped'
  <2>1. \A row \in OutboxRow : row.owner = w /\ Leased(row) =>
          [row EXCEPT !.owner = Dead] \in OutboxRow /\ Leased([row EXCEPT !.owner = Dead])
    BY DEF OutboxRow, Leased
  <2>2. outbox' \in [Message -> OutboxRow] /\ \A m \in Message : Leased(outbox'[m])
    BY <1>1, <2>1 DEF Crash, OutboxTyped
  <2>. QED  BY <1>1, <2>2 DEF Crash, OutboxTyped
<1>3. BrokerTyped'
  <2>0. <<>> \in Seq(Change)
    OBVIOUS
  <2>1. queue' \in [Worker -> [bound : BOOLEAN, messages : Seq(Change)]]
    BY <1>1, <2>0 DEF Crash, BrokerTyped
  <2>2. link' \in [Worker -> {"down", "binding", "live"}] /\ revision' \in [Worker -> Nat]
    BY <1>1 DEF Crash, BrokerTyped
  <2>3. \A v \in Worker : /\ link'[v] # "down" => queue'[v].bound
                          /\ ~queue'[v].bound => queue'[v].messages = <<>>
    BY <1>1 DEF Crash, BrokerTyped
  <2>. QED  BY <2>1, <2>2, <2>3 DEF BrokerTyped
<1>4. /\ \A v \in Worker : v # w => revision'[v] = revision[v] /\ link'[v] = link[v]
                                    /\ queue'[v] = queue[v] /\ batch'[v] = batch[v]
      /\ DOMAIN frames' = {f \in DOMAIN frames : f[1] # w}
      /\ \A f \in DOMAIN frames' : frames'[f] = frames[f]
      /\ frames' = [f \in DOMAIN frames' |-> frames'[f]]
      /\ today' = today
  BY <1>1 DEF Crash, BrokerTyped, OutboxTyped
<1>5. FramesTyped'
  BY <1>1, <1>4 DEF FramesTyped
<1>6. \A c \in Client : IF stream[c].on = w THEN stream'[c] = Away /\ stale'[c] = {}
                        ELSE stream'[c] = stream[c] /\ stale'[c] = stale[c]
  BY DEF Crash
<1>7. StreamsTyped'
  <2>1. \A c \in Client : stream[c].on # w => stream[c].frame \in DOMAIN frames' \cup {NoFrame}
    BY <1>1, <1>4 DEF StreamsTyped, StreamState
  <2>2. stream' \in [Client -> StreamState']
    <3> SUFFICES ASSUME NEW c \in Client PROVE stream'[c] \in StreamState'
      BY DEF Crash
    <3>1. CASE stream[c].on = w
      BY <1>6, <3>1, ChangesAndTopics DEF StreamState, Away
    <3>2. CASE stream[c].on # w
      BY <1>1, <1>6, <2>1, <3>2 DEF StreamsTyped, StreamState
    <3>. QED  BY <3>1, <3>2
  <2>3. stale' \in [Client -> SUBSET Topic]
    BY <1>1 DEF Crash, StreamsTyped
  <2>4. ASSUME NEW c \in Client
        PROVE  /\ stream'[c].phase \in Streaming <=> stream'[c].on \in Worker
               /\ stream'[c].phase = "frame" <=> stream'[c].frame # NoFrame
               /\ stream'[c].frame # NoFrame => stream'[c].frame[1] = stream'[c].on
               /\ stream'[c].day <= today'
               /\ stale'[c] \in SUBSET Relevant(c)
    <3>1. CASE stream[c].on = w
      <4>1. Away.phase = "away" /\ Away.on = Nobody /\ Away.frame = NoFrame /\ Away.day = 0
        BY DEF Away
      <4>2. Nobody \notin Worker /\ "away" \notin Streaming
        BY UpdateAssumption DEF Streaming
      <4>3. today \in Nat
        BY <1>1 DEF StreamsTyped
      <4>. QED  BY <1>4, <1>6, <3>1, <4>1, <4>2, <4>3
    <3>2. CASE stream[c].on # w
      BY <1>1, <1>4, <1>6, <3>2 DEF StreamsTyped
    <3>. QED  BY <3>1, <3>2
  <2>. QED  BY <1>1, <1>4, <2>2, <2>3, <2>4 DEF StreamsTyped, Relevant
<1>8. ASSUME NEW v \in Worker \ {w}, NEW t, Travelling(v, t)
      PROVE  Travelling(v, t)'
  <2>1. ASSUME NEW m \in Unsent, ~Sent(m)
        PROVE  m \in Unsent' /\ ~Sent(m)' /\ outbox'[m].change = outbox[m].change
    <3>1. m \in Message /\ outbox[m] \in OutboxRow
      BY <1>1 DEF Unsent, OutboxTyped
    <3>2. outbox'[m] = IF outbox[m].owner = w THEN [outbox[m] EXCEPT !.owner = Dead] ELSE outbox[m]
      BY <3>1 DEF Crash
    <3>3. \A x \in Worker : outbox'[m].owner = x => x # w /\ outbox[m].owner = x
      BY <3>1, <3>2, UpdateAssumption DEF OutboxRow
    <3>4. \A x \in Worker : x # w => First(x)' = First(x)
      BY <1>4 DEF First
    <3>5. ~Sent(m)'
      BY <1>4, <2>1, <3>3, <3>4 DEF Sent
    <3>. QED  BY <3>1, <3>2, <3>5 DEF Unsent, OutboxRow
  <2>. QED  BY <1>4, <1>8, <2>1 DEF Travelling
<1>9. ASSUME NEW c \in Client, stream'[c].phase \in Streaming
      PROVE  Awaited(c)'
  <2>1. stream[c].on # w
    BY <1>6, <1>9 DEF Away, Streaming
  <2>2. stream'[c] = stream[c] /\ stale'[c] = stale[c] /\ Awaited(c) /\ stream[c].on \in Worker
    BY <1>1, <1>6, <1>9, <2>1 DEF UInv, StreamsTyped
  <2>3. \A t : Coming(c, t) => Coming(c, t)'
    BY <1>8, <2>1, <2>2 DEF Coming
  <2>4. stream[c].phase = "frame" => frames'[stream[c].frame] = frames[stream[c].frame]
    BY <1>1, <1>4, <2>1 DEF StreamsTyped, StreamState
  <2>. QED  BY <1>4, <2>2, <2>3, <2>4 DEF Awaited
<1>10. FramesAwaited'
  BY <1>1, <1>4, <1>8 DEF UInv, FramesTyped, FramesAwaited
<1>. QED  BY <1>2, <1>3, <1>5, <1>7, <1>9, <1>10 DEF UInv, UpdatesTyped

-----------------------------------------------------------------------------
(* Steps of the streams.                                                   *)

LEMMA TravelSame ==
  ASSUME StreamStep, NEW w, NEW t
  PROVE  Travelling(w, t)' <=> Travelling(w, t)
BY DEF StreamStep, Travelling, Unsent, Sent, First

LEMMA StreamsMove ==
  ASSUME UInv, StreamStep, FramesTyped', StreamsTyped', FramesAwaited',
         \A c \in Client : stream'[c].phase \in Streaming => Awaited(c)'
  PROVE  UInv'
<1>1. OutboxTyped' /\ BrokerTyped'
  BY DEF UInv, UpdatesTyped, StreamStep, OutboxTyped, BrokerTyped
<1>. QED  BY <1>1 DEF UInv, UpdatesTyped

\* Of a client whose turn this is, and what its screen shows in an older version.
OneStream(c, state, shown) ==
  /\ state \in StreamState /\ state.frame = NoFrame /\ state.phase # "frame"
  /\ state.phase \in Streaming <=> state.on \in Worker
  /\ state.day <= today
  /\ state.phase \in Streaming =>
       /\ \A t \in shown \ {"day"} : \/ Travelling(state.on, t)
                                     \/ t \in Covers(state.pending)
                                     \/ state.phase = "top" /\ t \in Refreshed(state.change)
       /\ "day" \in shown => \/ state.day # today
                             \/ state.phase = "top" /\ "day" \in Refreshed(state.change)
  /\ shown \in SUBSET Relevant(c)

LEMMA OneStreamStep ==
  ASSUME UInv, StreamStep, UNCHANGED frames, NEW c \in Client, NEW state, NEW shown,
         OneStream(c, state, shown),
         Becomes(c, state), stale' = [stale EXCEPT ![c] = shown]
  PROVE  UInv'
<1>1. StreamsTyped /\ FramesTyped
  BY DEF UInv, UpdatesTyped
<1>2. FramesTyped'
  BY <1>1 DEF FramesTyped, StreamStep
<1>3. /\ stream'[c] = state /\ stale'[c] = shown /\ today' = today
      /\ \A d \in Client \ {c} : stream'[d] = stream[d] /\ stale'[d] = stale[d]
  BY <1>1 DEF Becomes, StreamsTyped, StreamStep
<1>4. StreamsTyped'
  <2>1. stream' \in [Client -> StreamState']
    BY <1>1 DEF Becomes, OneStream, StreamsTyped, StreamState
  <2>2. stale' \in [Client -> SUBSET Topic]
    BY <1>1 DEF OneStream, StreamsTyped, Relevant, Topic
  <2>. QED  BY <1>1, <1>3, <2>1, <2>2 DEF StreamsTyped, OneStream, Relevant
<1>5. \A v, t : Travelling(v, t)' <=> Travelling(v, t)
  BY TravelSame
<1>6. ASSUME NEW d \in Client, stream'[d].phase \in Streaming
      PROVE  Awaited(d)'
  <2>1. CASE d = c
    BY <1>3, <1>5, <1>6, <2>1 DEF OneStream, Awaited, Coming
  <2>2. CASE d # c
    BY <1>3, <1>5, <1>6, <2>2 DEF UInv, Awaited, Coming
  <2>. QED  BY <2>1, <2>2
<1>7. FramesAwaited'
  BY <1>5 DEF UInv, FramesAwaited, StreamStep
<1>. QED  BY <1>2, <1>4, <1>6, <1>7, StreamsMove

LEMMA EndsStep ==
  ASSUME UInv, StreamStep, NEW c \in Client, NEW how \in {Away, Over}, Ends(c, how)
  PROVE  UInv'
<1>1. how.phase \in {"away", "over"} /\ how.on = Nobody /\ how.frame = NoFrame /\ how.day = 0
      /\ how.change = Nothing /\ how.pending = Nothing
  BY DEF Away, Over
<1>2. how \in StreamState
  BY ChangesAndTopics DEF Away, Over, StreamState
<1>3. stale' = [stale EXCEPT ![c] = {}] /\ today \in Nat
  BY DEF Ends, Shows, UInv, UpdatesTyped, StreamsTyped
<1>4. Nobody \notin Worker /\ how.phase \notin Streaming
  BY <1>1, UpdateAssumption DEF Streaming
<1>5. OneStream(c, how, {})
  BY <1>1, <1>2, <1>3, <1>4 DEF OneStream
<1>. QED  BY <1>3, <1>5, OneStreamStep DEF Ends

LEMMA ReadingTypes ==
  /\ \A x \in Change : Refreshed(x) \in SUBSET Topic /\ Covers(x) \in SUBSET Refreshed(x)
  /\ Refreshed(Everything) = Topic
  /\ \A x \in Change : ~IsInventory(x) => Refreshed(x) \cap (Team \cup {"day"}) = {}
  /\ \A x \in Change : SessionOnly(x) => Refreshed(x) = {}
  /\ \A c \in Client : Relevant(c) \in SUBSET Topic /\ Team \in SUBSET Relevant(c)
                       /\ (View[c] # "inventory-changed" => Relevant(c) = Team)
<1>1. Refreshed(Everything) = Topic
  BY ChangesAndTopics DEF Refreshed, Everything, Topic
<1>2. \A x \in Change : ~IsInventory(x) => Refreshed(x) \cap (Team \cup {"day"}) = {}
  BY UpdateAssumption DEF Change, IsInventory, Refreshed, Covers
<1>3. \A x \in Change : SessionOnly(x) => Refreshed(x) = {}
  BY UpdateAssumption DEF Change, SessionOnly, IsInventory, Refreshed, Covers
<1>4. \A x \in Change : Refreshed(x) \in SUBSET Topic /\ Covers(x) \in SUBSET Refreshed(x)
  BY ChangesAndTopics DEF Refreshed, Topic
<1>5. \A c \in Client : Relevant(c) \in SUBSET Topic /\ Team \in SUBSET Relevant(c)
                        /\ (View[c] # "inventory-changed" => Relevant(c) = Team)
  BY UpdateAssumption DEF Relevant, Topic
<1>. QED  BY <1>1, <1>2, <1>3, <1>4, <1>5

LEMMA ConnectStep == ASSUME UInv, NEW c \in Client, NEW w \in Worker, Connect(c, w) PROVE UInv'
<1>1. StreamsTyped /\ StreamStep /\ UNCHANGED frames
  BY DEF UInv, UpdatesTyped, Connect
<1>2. CASE ~Valid(c) /\ Becomes(c, Over) /\ UNCHANGED stale
  <2>1. Over \in StreamState /\ Over.phase = "over" /\ Over.on = Nobody /\ Over.frame = NoFrame
        /\ Over.day = 0
    BY ChangesAndTopics DEF Away, Over, StreamState
  <2>2. Nobody \notin Worker /\ "over" \notin Streaming
    BY UpdateAssumption DEF Streaming
  <2>3. stale[c] \in SUBSET Relevant(c) /\ stale' = [stale EXCEPT ![c] = stale[c]] /\ today \in Nat
    BY <1>1, <1>2 DEF StreamsTyped
  <2>4. OneStream(c, Over, stale[c])
    BY <2>1, <2>2, <2>3 DEF OneStream
  <2>. QED  BY <1>1, <1>2, <2>3, <2>4, OneStreamStep
<1>3. CASE /\ Becomes(c, [Away EXCEPT !.phase = "top", !.on = w, !.change = Everything, !.day = today])
           /\ stale' = [stale EXCEPT ![c] = Relevant(c)]
  <2> DEFINE state == [Away EXCEPT !.phase = "top", !.on = w, !.change = Everything, !.day = today]
  <2>1. /\ state \in StreamState /\ state.phase = "top" /\ state.on = w /\ state.frame = NoFrame
        /\ state.change = Everything /\ state.day = today
    BY <1>1, ChangesAndTopics DEF Away, StreamState, StreamsTyped, Streaming
  <2>2. Relevant(c) \in SUBSET Refreshed(Everything) /\ "day" \in Refreshed(Everything)
        /\ "top" \in Streaming /\ today \in Nat
    BY <1>1, ReadingTypes DEF Streaming, StreamsTyped, Topic
  <2> HIDE DEF state
  <2>3. OneStream(c, state, Relevant(c))
    BY <2>1, <2>2 DEF OneStream
  <2>. QED  BY <1>1, <1>3, <2>3, OneStreamStep DEF state
<1>. QED  BY <1>2, <1>3 DEF Connect

LEMMA WakeStep == ASSUME UInv, NEW c \in Client, Wake(c) PROVE UInv'
<1> DEFINE state == [stream[c] EXCEPT !.phase = "top", !.change = Taken(c), !.pending = Nothing,
                                      !.day = today]
<1>1. /\ stream[c] \in StreamState /\ stream[c].phase = "wait" /\ stream[c].on \in Worker
      /\ stream[c].frame = NoFrame /\ stream[c].pending \in Change /\ Awaited(c)
      /\ stale[c] \in SUBSET Relevant(c) /\ today \in Nat
      /\ "wait" \in Streaming /\ "top" \in Streaming /\ "wait" # "top" /\ "wait" # "frame"
      /\ StreamStep /\ UNCHANGED <<frames, stale>>
  BY DEF UInv, UpdatesTyped, StreamsTyped, StreamState, Wake, Streaming
<1>2. /\ Taken(c) \in Change /\ Covers(stream[c].pending) \in SUBSET Refreshed(Taken(c))
      /\ NewDay(c) => "day" \in Refreshed(Taken(c))
  <2>1. [Nothing EXCEPT !.teams = Team] \in Change
    BY DEF Nothing, Change
  <2>2. Taken(c) \in Change /\ Covers(stream[c].pending) \in SUBSET Covers(Taken(c))
    BY <1>1, <2>1, ChangesAndTopics DEF Taken
  <2>3. NewDay(c) => Taken(c).teams = Team
    BY <1>1, ChangesAndTopics DEF Taken, Merge, Nothing, Change
  <2>. QED  BY <2>2, <2>3, ReadingTypes DEF Refreshed
<1>3. /\ state \in StreamState /\ state.phase = "top" /\ state.on = stream[c].on
      /\ state.frame = NoFrame /\ state.change = Taken(c) /\ state.day = today
  BY <1>1, <1>2, ChangesAndTopics DEF StreamState
<1>4. \A t \in stale[c] \ {"day"} : Travelling(state.on, t) \/ t \in Refreshed(state.change)
  BY <1>1, <1>2, <1>3 DEF Awaited, Coming
<1>5. "day" \in stale[c] => "day" \in Refreshed(state.change)
  <2>1. "day" \in stale[c] => View[c] = "inventory-changed" /\ stream[c].day # today
    BY <1>1, ReadingTypes, ChangesAndTopics DEF Awaited
  <2>. QED  BY <1>2, <1>3, <2>1 DEF NewDay
<1>6. Becomes(c, state) /\ stale' = [stale EXCEPT ![c] = stale[c]]
  BY <1>1 DEF Wake, UInv, UpdatesTyped, StreamsTyped
<1> HIDE DEF state
<1>7. OneStream(c, state, stale[c])
  BY <1>1, <1>3, <1>4, <1>5 DEF OneStream
<1>. QED  BY <1>1, <1>6, <1>7, OneStreamStep

LEMMA HeartbeatStep == ASSUME UInv, NEW c \in Client, Heartbeat(c) PROVE UInv'
<1>1. CASE Ends(c, Over) \/ Ends(c, Away)
  BY <1>1, EndsStep DEF Heartbeat
<1>2. CASE /\ Becomes(c, [stream[c] EXCEPT !.phase = "top", !.change = Everything, !.day = today])
           /\ UNCHANGED <<stale, frames>>
  <2> DEFINE state == [stream[c] EXCEPT !.phase = "top", !.change = Everything, !.day = today]
  <2>1. /\ stream[c] \in StreamState /\ stream[c].phase = "wait" /\ stream[c].on \in Worker
        /\ stream[c].frame = NoFrame /\ stale[c] \in SUBSET Relevant(c) /\ today \in Nat
        /\ "top" \in Streaming /\ StreamStep
    BY DEF UInv, UpdatesTyped, StreamsTyped, StreamState, Heartbeat, Streaming
  <2>2. /\ state \in StreamState /\ state.phase = "top" /\ state.on = stream[c].on
        /\ state.frame = NoFrame /\ state.change = Everything /\ state.day = today
    BY <2>1, ChangesAndTopics DEF StreamState
  <2>3. \A t \in stale[c] : t \in Refreshed(Everything)
    BY <2>1, ReadingTypes
  <2>4. Becomes(c, state) /\ stale' = [stale EXCEPT ![c] = stale[c]]
    BY <1>2 DEF UInv, UpdatesTyped, StreamsTyped
  <2> HIDE DEF state
  <2>5. OneStream(c, state, stale[c])
    BY <2>1, <2>2, <2>3 DEF OneStream
  <2>. QED  BY <1>2, <2>1, <2>4, <2>5, OneStreamStep
<1>. QED  BY <1>1, <1>2 DEF Heartbeat

LEMMA LeaveStep == ASSUME UInv, NEW c \in Client, Leave(c) PROVE UInv'
BY EndsStep DEF Leave

\* A client that joins a snapshot another one asked for has missed what that has.
LEMMA JoinStep ==
  ASSUME UInv, StreamStep, NEW c \in Client, stream[c].phase = "top",
         View[c] # "inventory-changed",
         JoinFrame(c, [stream[c] EXCEPT !.change = Nothing, !.phase = "wait"])
  PROVE  UInv'
<1>1. /\ stream[c] \in StreamState /\ stream[c].on \in Worker
      /\ Awaited(c) /\ stale[c] \in SUBSET Relevant(c)
      /\ StreamsTyped /\ FramesTyped /\ BrokerTyped
      /\ "frame" \in Streaming
  BY DEF UInv, UpdatesTyped, StreamsTyped, StreamState, Streaming
<1>2. PICK who, frame :
        /\ frame = FrameKey(c, who)
        /\ Becomes(c, [[stream[c] EXCEPT !.change = Nothing, !.phase = "wait"] EXCEPT !.phase = "frame", !.frame = frame])
        /\ frames' = [f \in DOMAIN frames \cup {frame} |->
                        IF f \in DOMAIN frames THEN frames[f] ELSE [read |-> FALSE, missed |-> {}]]
        /\ UNCHANGED stale
  BY DEF JoinFrame
<1>3. /\ frame # NoFrame /\ frame[1] = stream[c].on /\ frame[2] = revision[stream[c].on]
      /\ frame[2] \in Nat
  BY <1>1, <1>2 DEF FrameKey, NoFrame, BrokerTyped
<1> DEFINE state == [[stream[c] EXCEPT !.change = Nothing, !.phase = "wait"] EXCEPT !.phase = "frame", !.frame = frame]
<1>4. /\ DOMAIN frames' = DOMAIN frames \cup {frame} /\ frames' = [f \in DOMAIN frames' |-> frames'[f]]
      /\ \A f \in DOMAIN frames : frames'[f] = frames[f]
      /\ frame \notin DOMAIN frames => frames'[frame] = [read |-> FALSE, missed |-> {}]
  BY <1>2
<1>5. FramesTyped'
  <2>1. \A f \in DOMAIN frames' : /\ frames'[f] \in [read : BOOLEAN, missed : SUBSET Team]
                                  /\ f # NoFrame /\ f[1] \in Worker
                                  /\ f[2] \in Nat /\ f[2] <= revision[f[1]]
    <3>1. [read |-> FALSE, missed |-> {}] \in [read : BOOLEAN, missed : SUBSET Team]
      OBVIOUS
    <3>2. ASSUME NEW f \in DOMAIN frames', f \notin DOMAIN frames
          PROVE  f = frame /\ frames'[f] \in [read : BOOLEAN, missed : SUBSET Team]
                 /\ f[2] <= revision[f[1]]
      <4>1. f = frame
        BY <1>4, <3>2
      <4>2. frame[2] <= revision[frame[1]]
        BY <1>3
      <4>. QED  BY <1>4, <3>1, <3>2, <4>1, <4>2
    <3>. QED  BY <1>1, <1>3, <1>4, <3>2 DEF FramesTyped
  <2>. QED  BY <1>4, <2>1 DEF FramesTyped, StreamStep
<1>6. /\ state.phase = "frame" /\ state.on = stream[c].on /\ state.frame = frame
      /\ state.pending = stream[c].pending /\ state.day = stream[c].day
      /\ state \in StreamState'
  BY <1>1, <1>4, ChangesAndTopics DEF StreamState, Streaming
<1>7. /\ stream' = [stream EXCEPT ![c] = state] /\ stream'[c] = state
      /\ \A d \in Client \ {c} : stream'[d] = stream[d]
  BY <1>1, <1>2 DEF Becomes, StreamsTyped
<1> HIDE DEF state
<1>8. StreamsTyped'
  <2>1. stream' \in [Client -> StreamState']
    BY <1>1, <1>4, <1>6, <1>7 DEF StreamsTyped, StreamState
  <2>2. ASSUME NEW d \in Client
        PROVE  /\ stream'[d].phase \in Streaming <=> stream'[d].on \in Worker
               /\ stream'[d].phase = "frame" <=> stream'[d].frame # NoFrame
               /\ stream'[d].frame # NoFrame => stream'[d].frame[1] = stream'[d].on
               /\ stream'[d].day <= today
               /\ stale[d] \in SUBSET Relevant(d)
    BY <1>1, <1>3, <1>6, <1>7 DEF StreamsTyped
  <2>. QED  BY <1>1, <1>2, <2>1, <2>2 DEF StreamsTyped, StreamStep, Relevant
<1>9. \A t \in frames'[frame].missed : Travelling(stream[c].on, t)
  BY <1>1, <1>3, <1>4 DEF UInv, FramesAwaited
<1>10. \A v, t : Travelling(v, t)' <=> Travelling(v, t)
  BY TravelSame
<1>11. ASSUME NEW d \in Client, stream'[d].phase \in Streaming
       PROVE  Awaited(d)'
  <2>1. CASE d = c
    <3>1. "day" \notin stale[c]
      BY <1>1, ReadingTypes, ChangesAndTopics
    <3>2. \A t \in frames'[frame].missed : Coming(c, t)'
      BY <1>6, <1>7, <1>9, <1>10 DEF Coming
    <3>. QED  BY <1>2, <1>6, <1>7, <2>1, <3>1, <3>2 DEF Awaited
  <2>2. CASE d # c
    <3>1. Awaited(d) /\ stream'[d] = stream[d]
      BY <1>7, <1>11, <2>2 DEF UInv
    <3>2. stream[d].phase = "frame" => stream[d].frame \in DOMAIN frames
      BY <1>1 DEF StreamsTyped, StreamState
    <3>. QED  BY <1>2, <1>4, <1>10, <3>1, <3>2 DEF Awaited, Coming, StreamStep
  <2>. QED  BY <2>1, <2>2
<1>12. FramesAwaited'
  <2> SUFFICES ASSUME NEW f \in DOMAIN frames', f[2] = revision[f[1]], NEW t \in frames'[f].missed
               PROVE  Travelling(f[1], t)
    BY <1>10 DEF FramesAwaited, StreamStep
  <2>. QED  BY <1>3, <1>4, <1>9 DEF UInv, FramesAwaited
<1>. QED  BY <1>5, <1>8, <1>11, <1>12, StreamsMove

LEMMA TopStep == ASSUME UInv, NEW c \in Client, Top(c) PROVE UInv'
<1> DEFINE x == stream[c].change
           turn == [stream[c] EXCEPT !.change = Nothing, !.phase = "wait"]
<1>1. /\ stream[c] \in StreamState /\ stream[c].phase = "top" /\ stream[c].on \in Worker
      /\ stream[c].frame = NoFrame /\ stream[c].day <= today /\ x \in Change /\ Awaited(c)
      /\ stale[c] \in SUBSET Relevant(c)
      /\ "wait" \in Streaming /\ "top" \in Streaming /\ StreamStep
  BY DEF UInv, UpdatesTyped, StreamsTyped, StreamState, Top, Streaming
<1>2. /\ turn \in StreamState /\ turn.phase = "wait" /\ turn.on = stream[c].on
      /\ turn.frame = NoFrame /\ turn.day = stream[c].day /\ turn.pending = stream[c].pending
  BY <1>1, ChangesAndTopics DEF StreamState
<1>3. ASSUME NEW shown \in SUBSET stale[c], shown \cap Refreshed(x) = {}, Becomes(c, turn),
             stale' = [stale EXCEPT ![c] = shown], UNCHANGED frames
      PROVE  UInv'
  <2>1. \A t \in shown \ {"day"} : Travelling(turn.on, t) \/ t \in Covers(turn.pending)
    BY <1>1, <1>2, <1>3 DEF Awaited, Coming
  <2>2. "day" \in shown => turn.day # today
    BY <1>1, <1>2, <1>3 DEF Awaited
  <2> HIDE DEF turn
  <2>3. OneStream(c, turn, shown)
    BY <1>1, <1>2, <1>3, <2>1, <2>2 DEF OneStream
  <2>. QED  BY <1>1, <1>3, <2>3, OneStreamStep
<1>4. CASE Ends(c, Away) \/ Ends(c, Over)
  BY <1>1, <1>4, EndsStep
<1>5. CASE View[c] # "inventory-changed" /\ JoinFrame(c, turn)
  BY <1>1, <1>5, JoinStep
<1>6. CASE Becomes(c, turn) /\ Shows(c, Refreshed(x)) /\ UNCHANGED frames
  <2>1. stale' = [stale EXCEPT ![c] = stale[c] \ Refreshed(x)]
    BY <1>6 DEF Shows
  <2>. QED  BY <1>3, <1>6, <2>1
<1>7. CASE /\ SessionOnly(x) \/ (View[c] # "inventory-changed" /\ ~IsInventory(x))
           /\ Becomes(c, turn) /\ UNCHANGED <<stale, frames>>
  <2>1. stale' = [stale EXCEPT ![c] = stale[c]]
    BY <1>7 DEF UInv, UpdatesTyped, StreamsTyped
  <2>2. stale[c] \cap Refreshed(x) = {}
    BY <1>1, <1>7, ReadingTypes
  <2>. QED  BY <1>3, <1>7, <2>1, <2>2
<1>. QED  BY <1>4, <1>5, <1>6, <1>7 DEF Top

LEMMA ReadFrameStep == ASSUME UInv, NEW f \in DOMAIN frames, ReadFrame(f) PROVE UInv'
<1>1. StreamsTyped /\ FramesTyped /\ StreamStep /\ UNCHANGED <<stream, stale>>
  BY DEF UInv, UpdatesTyped, ReadFrame
<1>2. /\ DOMAIN frames' = DOMAIN frames /\ frames' = [g \in DOMAIN frames' |-> frames'[g]]
      /\ \A g \in DOMAIN frames : /\ frames'[g].missed = frames[g].missed
                                  /\ frames'[g] \in [read : BOOLEAN, missed : SUBSET Team]
  BY <1>1 DEF ReadFrame, FramesTyped
<1>3. FramesTyped'
  BY <1>1, <1>2 DEF FramesTyped, StreamStep
<1>4. StreamsTyped'
  BY <1>1, <1>2 DEF StreamsTyped, StreamState, StreamStep, Relevant
<1>5. \A v, t : Travelling(v, t)' <=> Travelling(v, t)
  BY <1>1, TravelSame
<1>6. ASSUME NEW c \in Client, stream'[c].phase \in Streaming
      PROVE  Awaited(c)'
  <2>1. Awaited(c) /\ (stream[c].phase = "frame" => stream[c].frame \in DOMAIN frames)
    BY <1>1, <1>6 DEF UInv, StreamsTyped, StreamState
  <2>. QED  BY <1>1, <1>2, <1>5, <2>1 DEF Awaited, Coming, StreamStep
<1>7. FramesAwaited'
  BY <1>1, <1>2, <1>5 DEF UInv, FramesAwaited, StreamStep
<1>. QED  BY <1>1, <1>3, <1>4, <1>6, <1>7, StreamsMove

LEMMA FinishFrameStep == ASSUME UInv, NEW f \in DOMAIN frames, FinishFrame(f) PROVE UInv'
<1>1. StreamsTyped /\ FramesTyped /\ StreamStep /\ f # NoFrame /\ frames[f].missed \in SUBSET Team
  BY DEF UInv, UpdatesTyped, FinishFrame, FramesTyped
<1>2. /\ DOMAIN frames' = DOMAIN frames \ {f} /\ frames' = [g \in DOMAIN frames' |-> frames'[g]]
      /\ \A g \in DOMAIN frames' : frames'[g] = frames[g]
  BY DEF FinishFrame
<1>3. FramesTyped'
  BY <1>1, <1>2 DEF FramesTyped, StreamStep
<1>4. /\ stream' = [c \in Client |-> stream'[c]] /\ stale' = [c \in Client |-> stale'[c]]
      /\ \A c \in Client :
           IF stream[c].frame # f THEN stream'[c] = stream[c] /\ stale'[c] = stale[c]
           ELSE \/ /\ stream'[c] = [stream[c] EXCEPT !.phase = "wait", !.frame = NoFrame]
                   /\ stale'[c] = frames[f].missed
                \/ stream'[c] = Away /\ stale'[c] = {}
  BY DEF FinishFrame
<1>5. \A c \in Client : stream[c].frame = f =>
        /\ stream[c] \in StreamState /\ stream[c].phase = "frame" /\ stream[c].on \in Worker
        /\ Awaited(c) /\ stream[c].day <= today
  BY <1>1 DEF UInv, StreamsTyped, Streaming
<1>6. StreamsTyped'
  <2>1. ASSUME NEW c \in Client
        PROVE  /\ stream'[c] \in StreamState'
               /\ stale'[c] \in SUBSET Relevant(c) /\ stale'[c] \in SUBSET Topic
               /\ stream'[c].phase \in Streaming <=> stream'[c].on \in Worker
               /\ stream'[c].phase = "frame" <=> stream'[c].frame # NoFrame
               /\ stream'[c].frame # NoFrame => stream'[c].frame[1] = stream'[c].on
               /\ stream'[c].day <= today
    <3>1. CASE stream[c].frame # f
      <4>1. stream[c] \in StreamState' /\ stream'[c] = stream[c] /\ stale'[c] = stale[c]
        BY <1>1, <1>2, <1>4, <3>1 DEF StreamsTyped, StreamState
      <4>. QED  BY <1>1, <4>1 DEF StreamsTyped
    <3>2. CASE stream[c].frame = f /\ stream'[c] = Away /\ stale'[c] = {}
      <4>1. Away.phase = "away" /\ Away.on = Nobody /\ Away.frame = NoFrame /\ Away.day = 0
            /\ Away \in StreamState'
        BY ChangesAndTopics DEF Away, StreamState
      <4>2. Nobody \notin Worker /\ "away" \notin Streaming /\ today \in Nat
        BY <1>1, UpdateAssumption DEF Streaming, StreamsTyped
      <4>. QED  BY <3>2, <4>1, <4>2
    <3>3. CASE /\ stream[c].frame = f
               /\ stream'[c] = [stream[c] EXCEPT !.phase = "wait", !.frame = NoFrame]
               /\ stale'[c] = frames[f].missed
      <4>1. /\ stream'[c] \in StreamState' /\ stream'[c].phase = "wait" /\ stream'[c].frame = NoFrame
            /\ stream'[c].on = stream[c].on /\ stream'[c].day = stream[c].day
        BY <1>5, <3>3 DEF StreamState, Streaming
      <4>. QED  BY <1>1, <1>5, <3>3, <4>1, ReadingTypes DEF Streaming
    <3>. QED  BY <1>4, <3>1, <3>2, <3>3
  <2>. QED  BY <1>1, <1>4, <2>1 DEF StreamsTyped, StreamStep, Relevant
<1>7. \A v, t : Travelling(v, t)' <=> Travelling(v, t)
  BY <1>1, TravelSame
<1>8. ASSUME NEW c \in Client, stream'[c].phase \in Streaming
      PROVE  Awaited(c)'
  <2>1. CASE stream[c].frame # f
    <3>1. Awaited(c) /\ stream'[c] = stream[c] /\ stale'[c] = stale[c]
      BY <1>4, <1>8, <2>1 DEF UInv
    <3>2. stream[c].phase = "frame" => stream[c].frame \in DOMAIN frames'
      BY <1>1, <1>2, <2>1 DEF StreamsTyped, StreamState
    <3>. QED  BY <1>1, <1>2, <1>7, <3>1, <3>2 DEF Awaited, Coming, StreamStep
  <2>2. CASE stream[c].frame = f
    <3>1. /\ stream'[c] = [stream[c] EXCEPT !.phase = "wait", !.frame = NoFrame]
          /\ stale'[c] = frames[f].missed
      <4>1. Away.phase = "away" /\ "away" \notin Streaming
        BY DEF Away, Streaming
      <4>. QED  BY <1>4, <1>8, <2>2, <4>1
    <3>2. /\ stream'[c].phase = "wait" /\ stream'[c].on = stream[c].on
          /\ stream'[c].pending = stream[c].pending
      BY <1>5, <2>2, <3>1 DEF StreamState
    <3>3. \A t \in frames[f].missed : Coming(c, t)
      BY <1>5, <2>2 DEF Awaited
    <3>. QED  BY <1>1, <1>7, <3>1, <3>2, <3>3, ChangesAndTopics DEF Awaited, Coming
  <2>. QED  BY <2>1, <2>2
<1>9. FramesAwaited'
  BY <1>1, <1>2, <1>7 DEF UInv, FramesAwaited, StreamStep
<1>. QED  BY <1>1, <1>3, <1>6, <1>8, <1>9, StreamsMove

-----------------------------------------------------------------------------
(* Transactions.                                                           *)

LEMMA ShownIsCovered ==
  ASSUME NEW row \in Row
  PROVE  ChangeFor(row) \in Change /\ ShownIn(row) \in SUBSET Covers(ChangeFor(row))
<1>1. Nothing \in Change
  BY ChangesAndTopics
<1>2. /\ AffectedTeams(row) \in SUBSET Team /\ row.old \cup row.new \in SUBSET AffectedTeams(row)
      /\ row.old \in SUBSET Team /\ row.new \in SUBSET Team /\ row.token \in SUBSET Session
  BY DEF AffectedTeams, Row
<1>3. CASE row.kind \in {"team", "user", "origin"}
  BY <1>3 DEF ChangeFor, ShownIn, Nothing, Change, Covers
<1>4. CASE row.kind \in {"session", "lease"}
  BY <1>1, <1>2, <1>4 DEF ChangeFor, ShownIn, Nothing, Change
<1>5. CASE row.kind \in {"feedback", "setting", "document"}
  BY <1>2, <1>5 DEF ChangeFor, ShownIn, Nothing, Change, Covers
<1>. QED  BY <1>3, <1>4, <1>5 DEF Row, RowKind

\* The change of a transaction covers every row written and kept.
LEMMA PendingCovers ==
  ASSUME NEW outer \in SUBSET Row, NEW nested \in SUBSET Row, NEW released \in BOOLEAN
  PROVE  /\ Pending(outer, nested, released) \in Change
         /\ UNION {ShownIn(r) : r \in outer \cup (IF released THEN nested ELSE {})}
              \in SUBSET Covers(Pending(outer, nested, released))
<1> DEFINE rows == outer \cup (IF released THEN nested ELSE {})
<1>1. rows \in SUBSET Row
  OBVIOUS
<1> HIDE DEF rows
<1>2. \A r \in rows : ChangeFor(r) \in Change /\ ShownIn(r) \in SUBSET Covers(ChangeFor(r))
  BY <1>1, ShownIsCovered
<1>3. MergeAll({ChangeFor(r) : r \in rows}) \in Change
  BY <1>2 DEF MergeAll, Change
<1>4. \A r \in rows : Covers(ChangeFor(r)) \in SUBSET Covers(MergeAll({ChangeFor(k) : k \in rows}))
  BY DEF MergeAll, Covers
<1>5. UNION {ShownIn(r) : r \in rows} \in SUBSET Covers(MergeAll({ChangeFor(k) : k \in rows}))
  BY <1>2, <1>4
<1>. QED  BY <1>3, <1>5 DEF Pending, rows

\* Readers fall behind in topics whose change is under way.
LEMMA OutdateStep ==
  ASSUME UInv, NEW topics \in SUBSET Topic, Outdate(topics), OutboxTyped', BrokerTyped',
         UNCHANGED <<stream, revision>>, today' \in Nat, today <= today',
         "day" \in topics => today < today',
         \A w \in Worker : \A t : Travelling(w, t) => Travelling(w, t)',
         \A w \in Worker, t \in topics \ {"day"} : Travelling(w, t)'
  PROVE  UInv'
<1>1. StreamsTyped /\ FramesTyped /\ "day" \notin Team
  BY ChangesAndTopics DEF UInv, UpdatesTyped
<1>2. /\ DOMAIN frames' = DOMAIN frames /\ frames' = [f \in DOMAIN frames' |-> frames'[f]]
      /\ \A f \in DOMAIN frames : /\ frames'[f] \in [read : BOOLEAN, missed : SUBSET Team]
                                  /\ frames'[f].missed \in SUBSET (frames[f].missed \cup (topics \cap Team))
  BY <1>1 DEF Outdate, FramesTyped
<1>3. FramesTyped'
  BY <1>1, <1>2 DEF FramesTyped
<1>4. \A c \in Client : /\ stale'[c] \in SUBSET (stale[c] \cup topics) /\ stale'[c] \in SUBSET Relevant(c)
                        /\ stale'[c] \in SUBSET Topic
  BY <1>1 DEF Outdate, StreamsTyped
<1>5. StreamsTyped'
  <2>1. \A c \in Client : stream[c].day \in Nat
    BY <1>1 DEF StreamsTyped, StreamState
  <2>2. stale' \in [Client -> SUBSET Topic]
    BY <1>4 DEF Outdate
  <2>. QED  BY <1>1, <1>2, <1>4, <2>1, <2>2 DEF StreamsTyped, StreamState, Relevant
<1>6. ASSUME NEW c \in Client, stream'[c].phase \in Streaming
      PROVE  Awaited(c)'
  <2>1. /\ Awaited(c) /\ stream[c].on \in Worker /\ stream[c].day \in Nat /\ stream[c].day <= today
        /\ today \in Nat
        /\ stream[c].phase = "frame" => stream[c].frame \in DOMAIN frames
    BY <1>1, <1>6 DEF UInv, StreamsTyped, StreamState
  <2>2. \A t : Coming(c, t) => Coming(c, t)'
    BY <2>1 DEF Coming
  <2>3. \A t \in topics \ {"day"} : Coming(c, t)'
    BY <2>1 DEF Coming
  <2>4. ASSUME NEW t \in stale'[c] \ {"day"}
        PROVE  \/ Coming(c, t)'
               \/ stream[c].phase = "top" /\ t \in Refreshed(stream[c].change)
               \/ stream[c].phase = "frame" /\ t \notin frames'[stream[c].frame].missed
    <3>1. CASE t \in topics
      BY <2>3, <3>1
    <3>2. CASE t \notin topics
      BY <1>2, <1>4, <2>1, <2>2, <3>2 DEF Awaited
    <3>. QED  BY <3>1, <3>2
  <2>5. "day" \in stale'[c] => \/ stream[c].day # today'
                               \/ stream[c].phase = "top" /\ "day" \in Refreshed(stream[c].change)
    BY <1>4, <2>1 DEF Awaited
  <2>6. stream[c].phase = "frame" => \A t \in frames'[stream[c].frame].missed : Coming(c, t)'
    BY <1>1, <1>2, <2>1, <2>2, <2>3 DEF Awaited
  <2>. QED  BY <2>4, <2>5, <2>6 DEF Awaited
<1>7. FramesAwaited'
  <2> SUFFICES ASSUME NEW f \in DOMAIN frames, f[2] = revision[f[1]], NEW t \in frames'[f].missed
               PROVE  Travelling(f[1], t)'
    BY <1>2 DEF FramesAwaited
  <2>1. f[1] \in Worker
    BY <1>1 DEF FramesTyped
  <2>2. t \in frames[f].missed => Travelling(f[1], t)
    BY DEF UInv, FramesAwaited
  <2>. QED  BY <1>1, <1>2, <2>1, <2>2
<1>. QED  BY <1>3, <1>5, <1>6, <1>7 DEF UInv, UpdatesTyped

\* The outbox row is part of the transaction.
LEMMA StoredStep ==
  ASSUME UInv, NEW change \in Change, NEW topics \in SUBSET Covers(change), Stored(change, topics)
  PROVE  UInv'
<1>1. /\ OutboxTyped /\ BrokerTyped /\ today \in Nat /\ topics \in SUBSET (Topic \ {"day"})
      /\ Outdate(topics) /\ Stage(change)
      /\ UNCHANGED <<link, queue, revision, batch, stream, today>>
  BY ChangesAndTopics DEF UInv, UpdatesTyped, StreamsTyped, Stored
<1>2. BrokerTyped'
  BY <1>1 DEF BrokerTyped
<1>3. CASE change = Nothing
  <2>1. topics = {} /\ UNCHANGED outbox
    BY <1>1, <1>3, ChangesAndTopics DEF Stage
  <2>2. OutboxTyped'
    BY <1>1, <2>1 DEF OutboxTyped
  <2>3. \A w \in Worker : \A t : Travelling(w, t) => Travelling(w, t)'
    BY <1>1, <2>1 DEF Travelling, Unsent, Sent, First
  <2>. QED  BY <1>1, <1>2, <2>1, <2>2, <2>3, OutdateStep
<1>4. CASE change # Nothing
  <2> DEFINE row == [state |-> "ready", owner |-> Nobody, change |-> change]
  <2>1. PICK m0 \in Message : outbox[m0].state = "absent" /\ outbox' = [outbox EXCEPT ![m0] = row]
    BY <1>1, <1>4 DEF Stage
  <2>2. row \in OutboxRow /\ Leased(row) /\ row.state = "ready" /\ row.owner = Nobody
        /\ row.change = change
    BY UpdateAssumption DEF OutboxRow, State, Leased, Nobody, Dead
  <2> HIDE DEF row
  <2>3. OutboxTyped'
    BY <1>1, <2>1, <2>2 DEF OutboxTyped
  <2>4. /\ m0 \in Unsent' /\ outbox'[m0] = row /\ m0 \notin Unsent
        /\ \A m \in Message \ {m0} : outbox'[m] = outbox[m]
    BY <1>1, <2>1, <2>2 DEF Unsent, OutboxTyped
  <2>5. ~Sent(m0)'
    BY <2>2, <2>4, UpdateAssumption DEF Sent
  <2>6. \A m \in Unsent : m \in Unsent' /\ outbox'[m] = outbox[m] /\ (Sent(m)' => Sent(m))
    BY <1>1, <2>4 DEF Unsent, Sent, First
  <2>7. \A w \in Worker : \A t : Travelling(w, t) => Travelling(w, t)'
    BY <1>1, <2>6 DEF Travelling
  <2>8. \A w \in Worker, t \in topics : Travelling(w, t)'
    BY <2>2, <2>4, <2>5 DEF Travelling
  <2>. QED  BY <1>1, <1>2, <2>3, <2>7, <2>8, OutdateStep
<1>. QED  BY <1>3, <1>4

LEMMA WrittenRows ==
  /\ \A kind \in RowKind : Written(kind) \in Row
  /\ AccountRows \in SUBSET Row
<1>1. \A kind \in RowKind : Written(kind) \in Row
  BY DEF Written, Row
<1>2. \A s \in Session, b \in BOOLEAN : [Written("session") EXCEPT !.token = {s}, !.fresh = b] \in Row
  BY DEF Written, Row, RowKind
<1>3. Written("user") \in Row /\ Written("team") \in Row
  BY <1>1 DEF RowKind
<1>4. ASSUME NEW row \in AccountRows PROVE row \in Row
  <2>1. CASE row \in {[Written("session") EXCEPT !.token = {s}, !.fresh = session[s] = "none"] :
                     s \in {x \in Session : session'[x] # session[x]}}
    BY <1>2, <2>1
  <2>2. CASE row = Written("user") \/ row = Written("team")
    BY <1>3, <2>2
  <2>. QED  BY <1>4, <2>1, <2>2 DEF AccountRows
<1>. QED  BY <1>1, <1>4

LEMMA CommitStep == ASSUME UInv, left \in Plan, Commit PROVE UInv'
<1>1. PICK outer \in SUBSET left.rows, nested \in SUBSET left.rows, released \in BOOLEAN :
        Stored(Pending(outer, nested, released),
               UNION {ShownIn(r) : r \in outer \cup (IF released THEN nested ELSE {})})
  BY DEF Commit
<1>2. outer \in SUBSET Row /\ nested \in SUBSET Row
  BY UpdateAssumption DEF Plan
<1>. QED  BY <1>1, <1>2, PendingCovers, StoredStep

LEMMA AccountCommitStep == ASSUME UInv, AccountCommit PROVE UInv'
<1>1. Stored(Pending(AccountRows, {}, FALSE), UNION {ShownIn(r) : r \in AccountRows})
  BY DEF AccountCommit
<1>2. /\ Pending(AccountRows, {}, FALSE) \in Change
      /\ UNION {ShownIn(r) : r \in AccountRows} \in SUBSET Covers(Pending(AccountRows, {}, FALSE))
  <2>1. {} \in SUBSET Row /\ FALSE \in BOOLEAN /\ AccountRows \in SUBSET Row
    BY WrittenRows
  <2>2. AccountRows \cup (IF FALSE THEN {} ELSE {}) = AccountRows
    OBVIOUS
  <2>. QED  BY <2>1, <2>2, PendingCovers
<1>. QED  BY <1>1, <1>2, StoredStep

LEMMA ProfileCommitStep == ASSUME UInv, ProfileCommit PROVE UInv'
BY WrittenRows, ShownIsCovered, StoredStep DEF ProfileCommit, RowKind

LEMMA MidnightStep == ASSUME UInv, Midnight PROVE UInv'
<1>1. /\ OutboxTyped /\ BrokerTyped /\ today \in Nat /\ today' = today + 1
      /\ Outdate({"day"}) /\ UNCHANGED <<outbox, link, queue, revision, batch, stream>>
  BY DEF UInv, UpdatesTyped, StreamsTyped, Midnight
<1>2. OutboxTyped' /\ BrokerTyped'
  BY <1>1 DEF OutboxTyped, BrokerTyped
<1>3. \A w \in Worker : \A t : Travelling(w, t) => Travelling(w, t)'
  BY <1>1 DEF Travelling, Unsent, Sent, First
<1>4. {"day"} \in SUBSET Topic
  BY DEF Topic
<1>. QED  BY <1>1, <1>2, <1>3, <1>4, OutdateStep

\* Steps of the accounts that no reader sees.
LEMMA UnseenStep ==
  ASSUME UInv, UNCHANGED <<outbox, link, queue, revision, batch, stream, frames, stale, today>>
  PROVE  UInv'
<1>1. OutboxTyped'
  BY DEF UInv, UpdatesTyped, OutboxTyped
<1>2. \A m \in Unsent : Sent(m) \/ StillUnsent(m)
  BY DEF StillUnsent, Unsent, Sent, First
<1>. QED  BY <1>1, <1>2, OutboxStep

LEMMA SpendLeft ==
  ASSUME left \in Plan, NEW kind \in {"login", "business", "account", "fault", "day"}, Spend(kind)
  PROVE  left' \in Plan
BY DEF Plan, Spend

LEMMA LeftStep == ASSUME left \in Plan, [Next]_vars PROVE left' \in Plan
<1>1. \/ UNCHANGED left
      \/ \E kind \in {"login", "business", "account", "fault", "day"} : Spend(kind)
  <2>1. CASE Progress
    BY <2>1 DEF Progress, Claim, Publish, Complete, LinkUp, Resync, Consume, Connect, Top, Wake,
       Heartbeat, ReadFrame, FinishFrame, TimePasses, Due, Lapse, Prune, NoFault, Fault
  <2>2. CASE Commit \/ AccountCommit \/ ProfileCommit \/ AccountRead \/ Midnight
    BY <2>2 DEF Commit, AccountCommit, ProfileCommit, AccountRead, Midnight, NoFault
  <2>3. CASE Faults
    BY <2>3 DEF Faults, GiveUp, Disconnect, QueueExpires, Crash, Leave, SessionExpires, Fault
  <2>. QED  BY <2>1, <2>2, <2>3 DEF Next, vars, updateVars
<1>. QED  BY <1>1, SpendLeft

LEMMA UpdatesStart == ASSUME Init, left \in Plan PROVE UInv
<1>1. /\ Nothing \in Change /\ <<>> \in Seq(Change) /\ Away \in StreamState
      /\ Away.phase = "away" /\ Away.on = Nobody /\ Away.frame = NoFrame /\ Away.day = 0
  BY ChangesAndTopics DEF Away, StreamState
<1>2. Nobody \notin Worker /\ Nobody # Dead /\ "away" \notin Streaming /\ "away" # "frame"
  BY UpdateAssumption DEF Nobody, Dead, Streaming
<1>3. NoRow \in OutboxRow /\ Leased(NoRow)
  BY <1>1, <1>2 DEF NoRow, OutboxRow, State, Leased
<1>4. OutboxTyped
  BY <1>3 DEF Init, OutboxTyped
<1>5. BrokerTyped
  <2>1. \A w \in Worker : queue[w] = [bound |-> w \in left.workers, messages |-> <<>>]
    BY DEF Init
  <2>2. queue \in [Worker -> [bound : BOOLEAN, messages : Seq(Change)]]
    BY <1>1, <2>1 DEF Init
  <2>3. link \in [Worker -> {"down", "binding", "live"}] /\ revision \in [Worker -> Nat]
    BY DEF Init
  <2>4. \A w \in Worker : link[w] # "down" => queue[w].bound
    BY <2>1 DEF Init
  <2>. QED  BY <2>1, <2>2, <2>3, <2>4 DEF BrokerTyped
<1>6. DOMAIN frames = {} /\ frames = [f \in DOMAIN frames |-> frames[f]]
  BY DEF Init
<1>7. FramesTyped /\ FramesAwaited
  BY <1>6 DEF FramesTyped, FramesAwaited
<1>8. StreamsTyped /\ \A c \in Client : stream[c].phase \notin Streaming
  BY <1>1, <1>2 DEF Init, StreamsTyped
<1>. QED  BY <1>4, <1>5, <1>7, <1>8 DEF UInv, UpdatesTyped

LEMMA UpdatesInductive ==
  /\ Init => IInv
  /\ IInv /\ [Next]_vars => IInv'
<1>1. ASSUME Init PROVE IInv
  BY <1>1, SessionsInductive, UpdatesStart, UpdateAssumption DEF Init, IInv
<1>2. ASSUME IInv, [Next]_vars PROVE UInv'
  <2>1. UInv /\ left \in Plan
    BY <1>2 DEF IInv
  <2>2. CASE Progress
    <3>1. CASE \E w \in Worker : Claim(w) \/ Publish(w) \/ Complete(w)
      BY <2>1, <3>1, ClaimStep, PublishStep, CompleteStep
    <3>2. CASE \E w \in Worker : LinkUp(w) \/ Resync(w) \/ Consume(w)
      BY <2>1, <3>2, LinkStep, ResyncStep, ConsumeStep
    <3>3. CASE \E c \in Client : Top(c) \/ Wake(c) \/ Heartbeat(c)
      BY <2>1, <3>3, TopStep, WakeStep, HeartbeatStep
    <3>4. CASE \E c \in Client, w \in Worker : Connect(c, w)
      BY <2>1, <3>4, ConnectStep
    <3>5. CASE \E f \in DOMAIN frames : ReadFrame(f) \/ FinishFrame(f)
      BY <2>1, <3>5, ReadFrameStep, FinishFrameStep
    <3>6. CASE TimePasses
      BY <2>1, <3>6, TimeStep
    <3>. QED  BY <2>2, <3>1, <3>2, <3>3, <3>4, <3>5, <3>6 DEF Progress
  <2>3. CASE Commit \/ AccountCommit \/ ProfileCommit \/ Midnight
    BY <2>1, <2>3, CommitStep, AccountCommitStep, ProfileCommitStep, MidnightStep
  <2>4. CASE AccountRead \/ SessionExpires
    BY <2>1, <2>4, UnseenStep DEF AccountRead, SessionExpires
  <2>5. CASE \E w \in Worker : GiveUp(w) \/ Disconnect(w) \/ QueueExpires(w) \/ Crash(w)
    BY <2>1, <2>5, GiveUpStep, LinkStep, CrashStep
  <2>6. CASE \E c \in Client : Leave(c)
    BY <2>1, <2>6, LeaveStep
  <2>7. CASE UNCHANGED vars
    BY <2>1, <2>7, UnseenStep DEF vars, updateVars
  <2>. QED  BY <1>2, <2>2, <2>3, <2>4, <2>5, <2>6, <2>7 DEF Next, Faults
<1>3. ASSUME IInv, [Next]_vars PROVE IInv'
  BY <1>2, <1>3, LeftStep, SessionsInductive DEF IInv
<1>. QED  BY <1>1, <1>3

LEMMA SoundIsTypedAndAwaited == ASSUME IInv PROVE TypeOK /\ NothingIsForgotten
<1>1. OutboxTyped /\ BrokerTyped /\ FramesTyped /\ StreamsTyped /\ AccountTypeOK /\ left \in Plan
  BY DEF IInv, UInv, UpdatesTyped, SInv
<1>2. TypeOK
  <2>1. \A m \in Message :
          /\ outbox[m].state \in {"absent", "ready", "later", "leased", "lapsed", "published", "pruned"}
          /\ outbox[m].change \in Change
          /\ outbox[m].state \in {"leased", "lapsed"} <=> outbox[m].owner \in Worker \cup {Dead}
    BY <1>1 DEF OutboxTyped, OutboxRow, State, Leased
  <2>2. /\ \A w \in Worker : /\ queue[w].messages \in Seq(Change)
                             /\ link[w] # "down" => queue[w].bound
                             /\ ~queue[w].bound => queue[w].messages = <<>>
        /\ link \in [Worker -> {"down", "binding", "live"}] /\ revision \in [Worker -> Nat]
    BY <1>1 DEF BrokerTyped
  <2>3. batch \in [Worker -> [messages : SUBSET Message, answer : {"none", "sent", "failed"}]]
    BY <1>1 DEF OutboxTyped
  <2>4. \A c \in Client : /\ stream[c].phase \in {"away", "over"} \cup Streaming
                          /\ stream[c].phase \in Streaming <=> stream[c].on \in Worker
                          /\ stream[c].phase = "frame" <=> stream[c].frame # NoFrame
                          /\ stream[c].frame \in DOMAIN frames \cup {NoFrame}
                          /\ stale[c] \in SUBSET Topic
    BY <1>1 DEF StreamsTyped, StreamState
  <2>. QED  BY <1>1, <2>1, <2>2, <2>3, <2>4 DEF TypeOK
<1>3. NothingIsForgotten
  <2> SUFFICES ASSUME NEW c \in Client, stream[c].phase \in Streaming, NEW t \in stale[c]
               PROVE  OnTheWay(c, t)
    BY DEF NothingIsForgotten
  <2>1. Awaited(c)
    BY DEF IInv, UInv
  <2>. QED  BY <2>1 DEF Awaited, Coming, Travelling, OnTheWay
<1>. QED  BY <1>2, <1>3

\* The outbox, the queues, the streams and the shared snapshots fit together: a lease has
\* an owner, a connected worker a queue, a waiting client a snapshot.
THEOREM UpdatesAlwaysTyped == Spec => []TypeOK
<1>. QED  BY UpdatesInductive, SoundIsTypedAndAwaited, PTL DEF Spec

\* Whatever an open screen shows in an old version, its refresh is under way: for any
\* number of workers, clients and changes, and after any crash, failed publication,
\* lapsed lease, lost queue or snapshot that was shared while it grew old.
THEOREM NothingEverForgotten == Spec => []NothingIsForgotten
<1>. QED  BY UpdatesInductive, SoundIsTypedAndAwaited, PTL DEF Spec
=============================================================================
