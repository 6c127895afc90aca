------------------------------- MODULE Accounts -------------------------------
(***************************************************************************)
(* Accounts and login sessions: auth.py, auth_api.py and the account part  *)
(* of admin_api.py.  Checking a password takes long and runs outside the   *)
(* database, so a login is two steps, and so is an administrator's update, *)
(* which revokes the sessions its read view showed.                        *)
(*                                                                         *)
(* Every client logs in at most once; session c is the one client c gets.  *)
(* Earlier are sessions of the same accounts that were open before.        *)
(***************************************************************************)
EXTENDS Naturals, Sequences, FiniteSets

CONSTANTS
  Team, User,
  Client,        \* browsers that log in
  Earlier,       \* sessions created before, of the same accounts
  Number,        \* the id a session has that was created before: [Session -> Nat \ {0}]
  AccountOf,     \* the account of a session: [Session -> User]
  TeamOf,        \* the team an account leads: [User -> Team]
  NoUser,
  MaxActive,     \* MAX_ACTIVE_SESSIONS
  MaxSecret      \* bound: passwords an account goes through

Session == Client \cup Earlier
SessionState == {"none", "open", "expired", "revoked", "gone"}

ASSUME AccountAssumption ==
  /\ IsFiniteSet(Session) /\ Client \cap Earlier = {}
  /\ AccountOf \in [Session -> User] /\ TeamOf \in [User -> Team] /\ NoUser \notin User
  /\ Number \in [Session -> 1 .. Cardinality(Session)]
  /\ \A r, s \in Session : Number[r] = Number[s] => r = s
  /\ MaxActive \in Nat \ {0} /\ MaxSecret \in Nat

VARIABLES
  active,     \* teams.active
  user,       \* users: is the account there and active, and its password
  session,    \* auth_sessions
  number,     \* auth_sessions.id of a session, 0 before it is created
  issued,     \* the last id given
  login,      \* where a client's login stands, and the password it was checked against
  desk        \* an administrator's update that has read but not yet written

accountVars == <<active, user, session, number, issued, login, desk>>

AccountTypeOK ==
  /\ active \in [Team -> BOOLEAN]
  /\ user \in [User -> [state : {"absent", "active", "inactive"}, secret : 0 .. MaxSecret]]
  /\ session \in [Session -> SessionState]
  /\ number \in [Session -> Nat] /\ issued \in Nat
  /\ login \in [Client -> [phase : {"idle", "verified", "done", "refused"}, secret : 0 .. MaxSecret]]
  /\ desk \in [on : User \cup {NoUser}, sees : SUBSET Session, state : {"active", "inactive"},
               reset : BOOLEAN]

Idle == [on |-> NoUser, sees |-> {}, state |-> "active", reset |-> FALSE]

\* The sessions of the same account with a greater id.
Newer(s) == {r \in Session : AccountOf[r] = AccountOf[s] /\ number[r] > number[s]}

\* The clients of in have logged in already, as CreateSession leaves their sessions.
AccountInit(in) ==
  /\ active = [t \in Team |-> TRUE]
  /\ user = [u \in User |-> [state |-> "active", secret |-> 0]]
  /\ number = [s \in Session |-> IF s \in Earlier \cup in THEN Number[s] ELSE 0]
  /\ issued = Cardinality(Session)
  /\ session = [s \in Session |-> IF number[s] = 0 THEN "none"
                                 ELSE IF Cardinality(Newer(s)) < MaxActive THEN "open"
                                      ELSE "revoked"]
  /\ login = [c \in Client |-> [phase |-> IF c \in in THEN "done" ELSE "idle", secret |-> 0]]
  /\ desk = Idle

-----------------------------------------------------------------------------
MayEnter(u) == user[u].state = "active" /\ active[TeamOf[u]]

\* read_auth_context: what every request, and every check of a live stream, asks.
Valid(s) == session[s] = "open" /\ MayEnter(AccountOf[s])

Revoked(ss) == [s \in Session |-> IF s \in ss THEN "revoked" ELSE session[s]]

\* The password given is the account's at this moment; checking it takes a while.
Verify(c) ==
  /\ login[c].phase = "idle"
  /\ MayEnter(AccountOf[c])
  /\ login' = [login EXCEPT ![c] = [phase |-> "verified", secret |-> user[AccountOf[c]].secret]]
  /\ UNCHANGED <<active, user, session, number, issued, desk>>

Open(u) == {s \in Session : AccountOf[s] = u /\ session[s] = "open"}

\* Mutated: one session too many stays open.
ReplacedOneLate(u) == {s \in Open(u) : Cardinality(Newer(s) \cap Open(u)) > MaxActive - 1}
Replaced(u) == {s \in Open(u) : Cardinality(Newer(s) \cap Open(u)) >= MaxActive - 1}

\* create_session, under the account's lock, with current reads of its sessions.
CreateSession(c) ==
  /\ session' = [Revoked(Replaced(AccountOf[c])) EXCEPT ![c] = "open"]
  /\ issued' = issued + 1
  /\ number' = [number EXCEPT ![c] = issued']

\* The account is locked and read again: its password may have changed meanwhile.
Issue(c) ==
  /\ login[c].phase = "verified"
  /\ IF user[AccountOf[c]].secret = login[c].secret /\ MayEnter(AccountOf[c])
     THEN CreateSession(c) /\ login' = [login EXCEPT ![c].phase = "done"]
     ELSE login' = [login EXCEPT ![c].phase = "refused"] /\ UNCHANGED <<session, number, issued>>
  /\ UNCHANGED <<active, user, desk>>

Logout(c) ==
  /\ Valid(c)
  /\ session' = Revoked({c})
  /\ UNCHANGED <<active, user, number, issued, login, desk>>

\* Nothing of the account the model knows changes: its name and picture do.
UpdateProfile(c) == Valid(c) /\ UNCHANGED accountVars

\* Bound: an account has passwords left, one kept for a reset that is under way.
HasSecret(u) == user[u].secret + (IF desk.on = u /\ desk.reset THEN 1 ELSE 0) < MaxSecret

ChangePassword(c) ==
  LET u == AccountOf[c]
      unrevoked == {s \in Session : AccountOf[s] = u /\ session[s] \in {"open", "expired"}}
  IN /\ Valid(c)
     /\ HasSecret(u)
     /\ user' = [user EXCEPT ![u].secret = @ + 1]
     /\ session' = Revoked(unrevoked)
     /\ UNCHANGED <<active, number, issued, login, desk>>

Expire(s) ==
  /\ session[s] = "open"
  /\ session' = [session EXCEPT ![s] = "expired"]
  /\ UNCHANGED <<active, user, number, issued, login, desk>>

-----------------------------------------------------------------------------
(* The administrator, whose own account and session are not among these.    *)

\* update_user reads the account; its sessions are those of the same read view.
ReadAccount(u, state, reset) ==
  /\ desk = Idle
  /\ user[u].state # "absent"
  /\ active[TeamOf[u]]
  /\ reset => HasSecret(u)
  /\ desk' = [on |-> u, state |-> state, reset |-> reset,
              sees |-> IF reset \/ state = "inactive"
                       THEN {s \in Session : AccountOf[s] = u /\ session[s] \notin {"none", "gone"}}
                       ELSE {}]
  /\ UNCHANGED <<active, user, session, number, issued, login>>

\* ... and writes the row and the sessions it saw.
WriteAccount ==
  LET u == desk.on
  IN /\ desk # Idle
     /\ desk' = Idle
     /\ user' = [user EXCEPT ![u] = [state |-> desk.state,
                                     secret |-> IF desk.reset THEN @.secret + 1 ELSE @.secret]]
     /\ session' = Revoked(desk.sees)
     /\ UNCHANGED <<active, number, issued, login>>

\* The sessions go with their account; an update of it that is under way fails.
DeleteUser(u) ==
  /\ user[u].state # "absent"
  /\ user' = [user EXCEPT ![u].state = "absent"]
  /\ session' = [s \in Session |-> IF AccountOf[s] = u /\ session[s] # "none" THEN "gone"
                                   ELSE session[s]]
  /\ desk' = IF desk.on = u THEN Idle ELSE desk
  /\ UNCHANGED <<active, number, issued, login>>

CreateUser(u) ==
  /\ user[u].state = "absent"
  /\ active[TeamOf[u]]
  /\ HasSecret(u)
  /\ user' = [user EXCEPT ![u] = [state |-> "active", secret |-> @.secret + 1]]
  /\ UNCHANGED <<active, session, number, issued, login, desk>>

\* update_team: a team is closed or opened again.
UpdateTeam(t) ==
  /\ active' = [active EXCEPT ![t] = ~@]
  /\ UNCHANGED <<user, session, number, issued, login, desk>>
=============================================================================
