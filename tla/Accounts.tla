----------------------------- MODULE Accounts -----------------------------
(***************************************************************************)
(* Accounts: status and platform role, the administrators' changes of      *)
(* them, sign-in codes, sessions and access tokens.                        *)
(* Sources: admin/users.py, auth/service.py, auth/router.py,               *)
(* auth/dependencies.py, models/user.py.                                   *)
(*                                                                         *)
(* update_admin_user takes row locks: the user and his roles, then every   *)
(* active administrator when one would be lost.  A row of `holder` stands  *)
(* for the users row and its user_roles.  The database aborts one of two   *)
(* transactions that wait for each other.                                  *)
(*                                                                         *)
(* Sign-in reads the account without a lock and issues the session later.  *)
(* An access token says what was read and lives Life ticks (900 s).        *)
(***************************************************************************)
EXTENDS Integers, FiniteSets

CONSTANTS
  Accs,    \* user ids
  Clients, \* accounts whose sessions are followed
  Admins,  \* platform administrators to start with
  Changes, \* update_admin_user transactions
  Slots,   \* user_sessions rows, a row is reused when it is of no more use
  Life,    \* ticks an access token lives
  Nobody   \* no such row

VARIABLES
  account,  \* users and user_roles: status and platform_admin
  code,     \* the sign-in code stored for the phone
  holder,   \* the transaction that holds the row locks of an account
  changes,  \* update_admin_user transactions under way
  sessions  \* user_sessions with their newest access token

accountVars == <<account, code, holder, changes, sessions>>

\* Somebody administers the platform to start with.
ASSUME Staffed ==
  IsFiniteSet(Accs) /\ Admins \subseteq Accs /\ Admins # {} /\ Nobody \notin Changes

ASSUME AccountsAssumption == Clients \subseteq Accs /\ Life \in Nat

Accounts == [active : BOOLEAN, admin : BOOLEAN]

AtRest == [phase |-> "rest"]

Unused == [user |-> Nobody, live |-> FALSE, token |-> 0, admin |-> FALSE]

\* A session with the access token it was issued with, which knows the role.
SessionRows == [user : Accs, live : BOOLEAN, token : 0..Life, admin : BOOLEAN]

AccountsTypeOK ==
  /\ account \in [Accs -> Accounts]
  /\ code \in [Clients -> BOOLEAN]
  /\ holder \in [Accs -> Changes \cup {Nobody}]
  /\ changes \in [Changes -> {AtRest} \cup [phase : {"count", "write"}, user : Accs, want : Accounts]]
  /\ sessions \in [Slots -> {Unused} \cup
       SessionRows \cup
       [user : Accs, reads : Accounts, old : Slots \cup {Nobody}]]

AccountsInit ==
  /\ account = [u \in Accs |-> [active |-> TRUE, admin |-> u \in Admins]]
  /\ code = [u \in Clients |-> FALSE]
  /\ holder = [u \in Accs |-> Nobody]
  /\ changes = [t \in Changes |-> AtRest]
  /\ sessions = [s \in Slots |-> Unused]

----------------------------------------------------------------------------
(* Administrators change an account *)

\* The change takes an active administrator away.
Loses(now, want) == now.admin /\ (~want.admin \/ (now.active /\ ~want.active))

LockAccount(t, u, want) ==
  /\ changes[t] = AtRest /\ holder[u] = Nobody
  /\ want # account[u]
  /\ holder' = [holder EXCEPT ![u] = t]
  /\ changes' = [changes EXCEPT ![t] =
       [phase |-> IF Loses(account[u], want) THEN "count" ELSE "write", user |-> u, want |-> want]]
  /\ UNCHANGED <<account, code, sessions>>

PlatformAdmins == {u \in Accs : account[u].admin}

ActiveAdmins == {u \in PlatformAdmins : account[u].active}

\* The locking read takes the administrators' rows one after the other.
LockAdmin(t, u) ==
  /\ changes[t].phase = "count" /\ u \in PlatformAdmins /\ holder[u] = Nobody
  /\ holder' = [holder EXCEPT ![u] = t]
  /\ UNCHANGED <<account, code, changes, sessions>>

\* Mutant of AdminsLocked: the administrators are counted by a plain read.
AdminsRead(t) == TRUE

AdminsLocked(t) == \A u \in PlatformAdmins : holder[u] = t

Released(t) == [u \in Accs |-> IF holder[u] = t THEN Nobody ELSE holder[u]]

Finish(t) == holder' = Released(t) /\ changes' = [changes EXCEPT ![t] = AtRest]

\* LAST_ACTIVE_PLATFORM_ADMIN, or the change may be written.
CountAdmins(t) ==
  /\ changes[t].phase = "count" /\ AdminsLocked(t)
  /\ IF Cardinality(ActiveAdmins) = 1 THEN Finish(t)
     ELSE changes' = [changes EXCEPT ![t].phase = "write"] /\ UNCHANGED holder
  /\ UNCHANGED <<account, code, sessions>>

WriteAccount(t) ==
  /\ changes[t].phase = "write"
  /\ account' = [account EXCEPT ![changes[t].user] = changes[t].want]
  /\ Finish(t)
  /\ UNCHANGED <<code, sessions>>

\* Each waits for a row the other holds.
DeadlockVictim(t) ==
  /\ changes[t].phase = "count"
  /\ \E u \in PlatformAdmins, v \in PlatformAdmins :
       /\ holder[v] = t /\ holder[u] \in Changes \ {t}
       /\ changes[holder[u]].phase = "count"
  /\ Finish(t)
  /\ UNCHANGED <<account, code, sessions>>

----------------------------------------------------------------------------
(* Sessions *)

SendCode(u) ==
  /\ ~code[u] /\ code' = [code EXCEPT ![u] = TRUE]
  /\ UNCHANGED <<account, holder, changes, sessions>>

\* Mutant of MayIssue: a suspended account gets its session.
IssueAny(read) == TRUE

\* ACCOUNT_SUSPENDED
MayIssue(read) == read.active

Free(s) == sessions[s] = Unused

\* The account is read; the session is written with the commit.
Reads(s, u, old) == sessions' = [sessions EXCEPT ![s] = [user |-> u, reads |-> account[u], old |-> old]]

\* A code signs in once, whether the account may be used or not.
SignIn(s, u) ==
  /\ Free(s) /\ code[u]
  /\ code' = [code EXCEPT ![u] = FALSE]
  /\ IF MayIssue(account[u]) THEN Reads(s, u, Nobody) ELSE UNCHANGED sessions
  /\ UNCHANGED <<account, holder, changes>>

SignInWithPassword(s, u) ==
  /\ Free(s) /\ MayIssue(account[u]) /\ Reads(s, u, Nobody)
  /\ UNCHANGED <<account, code, holder, changes>>

Row(s) == "live" \in DOMAIN sessions[s]

\* The refresh token is good while its row is not revoked.
Refresh(s, old) ==
  /\ Free(s) /\ Row(old) /\ sessions[old].live
  /\ MayIssue(account[sessions[old].user]) /\ Reads(s, sessions[old].user, old)
  /\ UNCHANGED <<account, code, holder, changes>>

Revoked(old) == [o \in Slots |-> IF o = old /\ Row(o) THEN [sessions[o] EXCEPT !.live = FALSE] ELSE sessions[o]]

IssueSession(s) ==
  /\ "reads" \in DOMAIN sessions[s]
  /\ sessions' = [Revoked(sessions[s].old) EXCEPT ![s] =
       [user |-> sessions[s].user, live |-> TRUE, token |-> Life, admin |-> sessions[s].reads.admin]]
  /\ UNCHANGED <<account, code, holder, changes>>

\* Whoever has a token may end its session; the token stays good.
SignOut(s) ==
  /\ Row(s) /\ sessions[s].live /\ sessions[s].token > 0
  /\ sessions' = Revoked(s)
  /\ UNCHANGED <<account, code, holder, changes>>

\* refresh_expiry: the row may no longer be refreshed.
ExpireSession(s) ==
  /\ Row(s) /\ sessions[s].live /\ sessions[s].token = 0
  /\ sessions' = Revoked(s)
  /\ UNCHANGED <<account, code, holder, changes>>

\* What the model needs to go on: a row nobody can use is forgotten.
Forget(s) ==
  /\ Row(s) /\ sessions[s] # Unused /\ ~sessions[s].live /\ sessions[s].token = 0
  /\ \A o \in Slots : "reads" \in DOMAIN sessions[o] => sessions[o].old # s
  /\ sessions' = [sessions EXCEPT ![s] = Unused]
  /\ UNCHANGED <<account, code, holder, changes>>

Tick ==
  /\ \E s \in Slots : Row(s) /\ sessions[s].token > 0
  /\ sessions' = [s \in Slots |-> IF Row(s) /\ sessions[s].token > 0
                                  THEN [sessions[s] EXCEPT !.token = @ - 1] ELSE sessions[s]]
  /\ UNCHANGED <<account, code, holder, changes>>

\* current_consumer_claims and current_admin_claims believe the token.
Consumer(u) == \E s \in Slots : Row(s) /\ sessions[s].user = u /\ sessions[s].token > 0

Administrator(u) == \E s \in Slots :
  Row(s) /\ sessions[s].user = u /\ sessions[s].token > 0 /\ sessions[s].admin

----------------------------------------------------------------------------
Changing == \E t \in Changes :
  \/ \E u \in Accs, want \in Accounts : LockAccount(t, u, want)
  \/ \E u \in Accs : LockAdmin(t, u)
  \/ CountAdmins(t) \/ WriteAccount(t) \/ DeadlockVictim(t)

SigningIn ==
  \/ \E u \in Clients : SendCode(u)
  \/ \E s \in Slots, u \in Clients : SignIn(s, u) \/ SignInWithPassword(s, u)
  \/ \E s, old \in Slots : Refresh(s, old)
  \/ \E s \in Slots : IssueSession(s) \/ SignOut(s) \/ ExpireSession(s) \/ Forget(s)

AccountsNext == Changing \/ SigningIn \/ Tick

\* Requests that were read are answered, and time passes.
AccountsFairness == WF_accountVars(Tick) /\ \A s \in Slots : WF_accountVars(IssueSession(s))

AccountsSpec == AccountsInit /\ [][AccountsNext]_accountVars /\ AccountsFairness

----------------------------------------------------------------------------
\* Two administrators may suspend or demote each other at the same moment:
\* one active platform administrator always remains (update_admin_user).
AlwaysAnAdmin == ActiveAdmins # {}

\* No session is told of a suspension or a lost role, and a sign-in may have
\* read the account just before; yet an account that stays suspended ends
\* without a good token and a former administrator without an administrator's
\* (_issue_session, refresh_session).
TokensFollowAccount == \A u \in Clients :
  /\ <>[](~account[u].active) => <>[](~Consumer(u))
  /\ <>[](~account[u].admin) => <>[](~Administrator(u))
=============================================================================
