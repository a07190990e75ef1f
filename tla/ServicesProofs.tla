--------------------------- MODULE ServicesProofs ---------------------------
(***************************************************************************)
(* Proofs about the services behind the pages: an active platform          *)
(* administrator always remains (Accounts), a deleted memory is forgotten  *)
(* (Memory), a link leads to a stored document (Exports), a preview is     *)
(* what was checked (Planning); and all of it of the composition that is   *)
(* checked (MCServices), whose variables keep their types.                 *)
(***************************************************************************)
EXTENDS MCServices, OrderPaymentProofs, FiniteSetTheorems, SequenceTheorems, TLAPS

(***************************************************************************)
(* Accounts.  The argument is about locks: a transaction that takes an     *)
(* active administrator away has counted while it held every               *)
(* administrator's row, and it still holds the row of another active one   *)
(* when it writes.                                                         *)
(***************************************************************************)

UnderWay == [phase : {"count", "write"}, user : Accs, want : Accounts]

LocksTyped ==
  /\ account \in [Accs -> Accounts]
  /\ holder \in [Accs -> Changes \cup {Nobody}]
  /\ changes \in [Changes -> {AtRest} \cup UnderWay]

\* A change holds the lock of its account until it ends.
HoldsItsAccount == \A t \in Changes : changes[t] # AtRest => holder[changes[t].user] = t

\* Another active administrator, whose row the change holds as well.
Spare(t, v) == v \in ActiveAdmins /\ v # changes[t].user /\ holder[v] = t

LosesOneOfTwo ==
  \A t \in Changes :
    changes[t].phase = "write" /\ Loses(account[changes[t].user], changes[t].want)
      => \E v \in Accs : Spare(t, v)

AdminInv == LocksTyped /\ HoldsItsAccount /\ LosesOneOfTwo /\ AlwaysAnAdmin

----------------------------------------------------------------------------
LEMMA AdminInit == ASSUME AccountsInit PROVE AdminInv
<1>1. LocksTyped BY DEF AccountsInit, LocksTyped, Accounts
<1>2. HoldsItsAccount /\ LosesOneOfTwo
  BY DEF AccountsInit, HoldsItsAccount, LosesOneOfTwo, AtRest
<1>3. Admins \subseteq ActiveAdmins
  BY Staffed DEF AccountsInit, ActiveAdmins, PlatformAdmins
<1>4. AlwaysAnAdmin BY <1>3, Staffed DEF AlwaysAnAdmin
<1>5. QED BY <1>1, <1>2, <1>4 DEF AdminInv

\* What other changes hold and know is not touched when t ends.
LEMMA FinishKeeps ==
  ASSUME LocksTyped, HoldsItsAccount, NEW t \in Changes, Finish(t)
  PROVE  /\ holder' \in [Accs -> Changes \cup {Nobody}]
         /\ changes' \in [Changes -> {AtRest} \cup UnderWay]
         /\ changes'[t] = AtRest
         /\ \A u \in Changes \ {t} : changes'[u] = changes[u]
         /\ \A v \in Accs : holder[v] # t => holder'[v] = holder[v]
         /\ HoldsItsAccount'
<1>1. /\ holder' \in [Accs -> Changes \cup {Nobody}]
      /\ changes' \in [Changes -> {AtRest} \cup UnderWay]
      /\ changes'[t] = AtRest
      /\ \A u \in Changes \ {t} : changes'[u] = changes[u]
      /\ \A v \in Accs : holder[v] # t => holder'[v] = holder[v]
  BY DEF LocksTyped, Finish, Released
<1>2. HoldsItsAccount'
  <2>1. SUFFICES ASSUME NEW u \in Changes, changes'[u] # AtRest
                 PROVE  holder'[changes'[u].user] = u
    BY DEF HoldsItsAccount
  <2>2. u # t /\ changes'[u] = changes[u] BY <1>1, <2>1
  <2>3. changes[u].user \in Accs /\ holder[changes[u].user] = u
    BY <2>1, <2>2 DEF LocksTyped, HoldsItsAccount, UnderWay
  <2>4. QED BY <1>1, <2>2, <2>3
<1>3. QED BY <1>1, <1>2

LEMMA LockAccountKeeps ==
  ASSUME AdminInv, NEW t \in Changes, NEW u \in Accs, NEW want \in Accounts, LockAccount(t, u, want)
  PROVE  AdminInv'
<1> DEFINE new == [phase |-> IF Loses(account[u], want) THEN "count" ELSE "write", user |-> u, want |-> want]
<1>1. /\ changes[t] = AtRest /\ holder[u] = Nobody
      /\ holder' = [holder EXCEPT ![u] = t] /\ changes' = [changes EXCEPT ![t] = new] /\ account' = account
  BY DEF LockAccount
<1>2. new \in UnderWay BY DEF UnderWay
<1>3. LocksTyped' BY <1>1, <1>2 DEF AdminInv, LocksTyped
<1>4. /\ \A q \in Changes \ {t} : changes'[q] = changes[q]
      /\ changes'[t] = new
      /\ \A v \in Accs \ {u} : holder'[v] = holder[v]
  BY <1>1 DEF AdminInv, LocksTyped
<1>5. HoldsItsAccount'
  <2>1. ASSUME NEW q \in Changes, q # t, changes'[q] # AtRest PROVE holder'[changes'[q].user] = q
    <3>1. changes[q].user \in Accs /\ holder[changes[q].user] = q
      BY <1>4, <2>1 DEF AdminInv, LocksTyped, HoldsItsAccount, UnderWay
    <3>2. changes[q].user # u BY <1>1, <3>1, Staffed
    <3>3. QED BY <1>4, <2>1, <3>1, <3>2
  <2>2. holder'[changes'[t].user] = t BY <1>1, <1>4 DEF AdminInv, LocksTyped
  <2>3. QED BY <2>1, <2>2 DEF HoldsItsAccount
<1>6. ActiveAdmins' = ActiveAdmins BY <1>1 DEF ActiveAdmins, PlatformAdmins
<1>7. LosesOneOfTwo'
  <2>1. SUFFICES ASSUME NEW q \in Changes, changes'[q].phase = "write",
                        Loses(account'[changes'[q].user], changes'[q].want)
                 PROVE  \E v \in Accs : Spare(q, v)'
    BY DEF LosesOneOfTwo
  <2>2. q # t BY <1>1, <1>4, <2>1
  <2>3. PICK v \in Accs : Spare(q, v)
    BY <1>1, <1>4, <2>1, <2>2 DEF AdminInv, LosesOneOfTwo
  <2>4. v # u BY <1>1, <2>3, Staffed DEF Spare
  <2>5. QED BY <1>4, <1>6, <2>2, <2>3, <2>4 DEF Spare
<1>8. QED BY <1>3, <1>5, <1>6, <1>7 DEF AdminInv, AlwaysAnAdmin

LEMMA LockAdminKeeps ==
  ASSUME AdminInv, NEW t \in Changes, NEW u \in Accs, LockAdmin(t, u)
  PROVE  AdminInv'
<1>1. /\ holder[u] = Nobody /\ holder' = [holder EXCEPT ![u] = t]
      /\ UNCHANGED <<account, changes>>
  BY DEF LockAdmin
<1>2. \A v \in Accs : holder[v] # Nobody => holder'[v] = holder[v]
  BY <1>1 DEF AdminInv, LocksTyped
<1>3. LocksTyped' BY <1>1 DEF AdminInv, LocksTyped
<1>4. HoldsItsAccount'
  <2>1. \A q \in Changes : changes[q] # AtRest => changes[q].user \in Accs
    BY DEF AdminInv, LocksTyped, UnderWay
  <2>2. QED BY <1>1, <1>2, <2>1, Staffed DEF AdminInv, HoldsItsAccount
<1>5. ActiveAdmins' = ActiveAdmins BY <1>1 DEF ActiveAdmins, PlatformAdmins
<1>6. \A q \in Changes, v \in Accs : Spare(q, v) => Spare(q, v)'
  BY <1>1, <1>2, <1>5, Staffed DEF Spare
<1>7. LosesOneOfTwo' BY <1>1, <1>6 DEF AdminInv, LosesOneOfTwo
<1>8. QED BY <1>3, <1>4, <1>5, <1>7 DEF AdminInv, AlwaysAnAdmin

\* Steps that end a change and write nothing.
LEMMA EndKeeps ==
  ASSUME AdminInv, NEW t \in Changes, Finish(t), account' = account
  PROVE  AdminInv'
<1>1. LocksTyped /\ HoldsItsAccount BY DEF AdminInv
<1>2. LocksTyped' /\ HoldsItsAccount' BY <1>1, FinishKeeps DEF LocksTyped
<1>3. ActiveAdmins' = ActiveAdmins BY DEF ActiveAdmins, PlatformAdmins
<1>4. LosesOneOfTwo'
  <2>1. SUFFICES ASSUME NEW q \in Changes, changes'[q].phase = "write",
                        Loses(account'[changes'[q].user], changes'[q].want)
                 PROVE  \E v \in Accs : Spare(q, v)'
    BY DEF LosesOneOfTwo
  <2>2. q # t BY <1>1, <2>1, FinishKeeps DEF AtRest
  <2>3. changes'[q] = changes[q] BY <1>1, <2>2, FinishKeeps
  <2>4. PICK v \in Accs : Spare(q, v) BY <2>1, <2>3 DEF AdminInv, LosesOneOfTwo
  <2>5. holder'[v] = holder[v] BY <1>1, <2>2, <2>4, FinishKeeps DEF Spare
  <2>6. QED BY <1>3, <2>3, <2>4, <2>5 DEF Spare
<1>5. QED BY <1>2, <1>3, <1>4 DEF AdminInv, AlwaysAnAdmin

\* The count is taken with all rows locked: if it is not one, a second
\* administrator is there and stays locked.
LEMMA CountKeeps ==
  ASSUME AdminInv, NEW t \in Changes, CountAdmins(t)
  PROVE  AdminInv'
<1>1. CASE Cardinality(ActiveAdmins) = 1 BY <1>1, EndKeeps DEF CountAdmins
<1>2. CASE Cardinality(ActiveAdmins) # 1
  <2>1. /\ changes' = [changes EXCEPT ![t].phase = "write"] /\ UNCHANGED <<holder, account>>
        /\ changes[t].phase = "count" /\ AdminsLocked(t)
    BY <1>2 DEF CountAdmins
  <2>2. changes[t] \in UnderWay
    BY <2>1 DEF AdminInv, LocksTyped, AtRest
  <2>3. /\ \A q \in Changes \ {t} : changes'[q] = changes[q]
        /\ changes'[t] = [changes[t] EXCEPT !.phase = "write"]
    BY <2>1 DEF AdminInv, LocksTyped
  <2>4. changes'[t] \in UnderWay /\ changes'[t].user = changes[t].user
    BY <2>2, <2>3 DEF UnderWay
  <2>5. LocksTyped' BY <2>1, <2>3, <2>4 DEF AdminInv, LocksTyped
  <2>6. ActiveAdmins' = ActiveAdmins BY <2>1 DEF ActiveAdmins, PlatformAdmins
  <2>7. changes[t] # AtRest BY <2>1 DEF AtRest
  <2>8. HoldsItsAccount' BY <2>1, <2>3, <2>4, <2>7 DEF AdminInv, HoldsItsAccount
  <2>9. PICK v \in ActiveAdmins : v # changes[t].user
    <3>1. SUFFICES ASSUME \A w \in ActiveAdmins : w = changes[t].user PROVE FALSE OBVIOUS
    <3>2. ActiveAdmins = {changes[t].user} BY <3>1 DEF AdminInv, AlwaysAnAdmin
    <3>3. QED BY <1>2, <3>2, FS_Singleton
  <2>10. v \in Accs /\ holder[v] = t
    BY <2>1 DEF AdminsLocked, ActiveAdmins, PlatformAdmins
  <2>11. LosesOneOfTwo'
    <3>1. SUFFICES ASSUME NEW q \in Changes, changes'[q].phase = "write",
                          Loses(account'[changes'[q].user], changes'[q].want)
                   PROVE  \E w \in Accs : Spare(q, w)'
      BY DEF LosesOneOfTwo
    <3>2. CASE q = t BY <2>1, <2>4, <2>6, <2>9, <2>10, <3>2 DEF Spare
    <3>3. CASE q # t
      <4>1. PICK w \in Accs : Spare(q, w)
        BY <2>1, <2>3, <3>1, <3>3 DEF AdminInv, LosesOneOfTwo
      <4>2. QED BY <2>1, <2>3, <2>6, <3>3, <4>1 DEF Spare
    <3>4. QED BY <3>2, <3>3
  <2>12. QED BY <2>5, <2>6, <2>8, <2>11 DEF AdminInv, AlwaysAnAdmin
<1>3. QED BY <1>1, <1>2

LEMMA WriteKeeps ==
  ASSUME AdminInv, NEW t \in Changes, WriteAccount(t)
  PROVE  AdminInv'
<1> DEFINE u == changes[t].user
           want == changes[t].want
<1>1. /\ changes[t].phase = "write" /\ Finish(t)
      /\ account' = [account EXCEPT ![u] = want]
  BY DEF WriteAccount
<1>2. changes[t] \in UnderWay /\ changes[t] # AtRest BY <1>1 DEF AdminInv, LocksTyped, AtRest
<1>3. u \in Accs /\ want \in Accounts /\ holder[u] = t
  BY <1>2 DEF UnderWay, AdminInv, HoldsItsAccount
<1>4. LocksTyped /\ HoldsItsAccount BY DEF AdminInv
<1>5. LocksTyped' /\ HoldsItsAccount' BY <1>1, <1>3, <1>4, FinishKeeps DEF LocksTyped
<1>6. /\ \A v \in Accs \ {u} : account'[v] = account[v]
      /\ account'[u] = want
  BY <1>1, <1>3 DEF AdminInv, LocksTyped
<1>7. \A v \in Accs \ {u} : v \in ActiveAdmins => v \in ActiveAdmins'
  BY <1>6 DEF ActiveAdmins, PlatformAdmins
<1>8. AlwaysAnAdmin'
  <2>1. CASE Loses(account[u], want)
    <3>1. PICK v \in Accs : Spare(t, v) BY <1>1, <2>1 DEF AdminInv, LosesOneOfTwo
    <3>2. QED BY <1>7, <3>1 DEF Spare, AlwaysAnAdmin
  <2>2. CASE ~Loses(account[u], want)
    <3>1. u \in ActiveAdmins => u \in ActiveAdmins'
      BY <1>3, <1>6, <2>2 DEF Loses, ActiveAdmins, PlatformAdmins
    <3>2. ActiveAdmins \subseteq Accs BY DEF ActiveAdmins, PlatformAdmins
    <3>3. ActiveAdmins \subseteq ActiveAdmins' BY <1>7, <3>1, <3>2
    <3>4. QED BY <3>3 DEF AdminInv, AlwaysAnAdmin
  <2>3. QED BY <2>1, <2>2
<1>9. LosesOneOfTwo'
  <2>1. SUFFICES ASSUME NEW q \in Changes, changes'[q].phase = "write",
                        Loses(account'[changes'[q].user], changes'[q].want)
                 PROVE  \E v \in Accs : Spare(q, v)'
    BY DEF LosesOneOfTwo
  <2>2. q # t BY <1>1, <1>4, <2>1, FinishKeeps DEF AtRest
  <2>3. changes'[q] = changes[q] BY <1>1, <1>4, <2>2, FinishKeeps
  <2>4. changes[q] # AtRest BY <2>1, <2>3 DEF AtRest
  <2>5. changes[q].user \in Accs /\ holder[changes[q].user] = q
    BY <2>4 DEF AdminInv, LocksTyped, HoldsItsAccount, UnderWay
  <2>6. changes[q].user # u BY <1>3, <2>2, <2>5
  <2>7. PICK v \in Accs : Spare(q, v)
    BY <1>6, <2>1, <2>3, <2>5, <2>6 DEF AdminInv, LosesOneOfTwo
  <2>8. v # u /\ holder[v] = q BY <1>3, <2>2, <2>7 DEF Spare
  <2>9. holder'[v] = holder[v] BY <1>1, <1>4, <2>2, <2>8, FinishKeeps
  <2>10. QED BY <1>7, <2>3, <2>7, <2>8, <2>9 DEF Spare
<1>10. QED BY <1>5, <1>8, <1>9 DEF AdminInv

LEMMA AdminStep == ASSUME AdminInv, [AccountsNext]_accountVars PROVE AdminInv'
<1>1. CASE Changing
  <2>1. PICK t \in Changes :
          \/ \E u \in Accs, want \in Accounts : LockAccount(t, u, want)
          \/ \E u \in Accs : LockAdmin(t, u)
          \/ CountAdmins(t) \/ WriteAccount(t) \/ DeadlockVictim(t)
    BY <1>1 DEF Changing
  <2>2. CASE DeadlockVictim(t) BY <2>2, EndKeeps DEF DeadlockVictim
  <2>3. QED BY <2>1, <2>2, LockAccountKeeps, LockAdminKeeps, CountKeeps, WriteKeeps
<1>2. CASE UNCHANGED <<account, holder, changes>>
  BY <1>2 DEF AdminInv, LocksTyped, HoldsItsAccount, LosesOneOfTwo, Spare, AlwaysAnAdmin,
       ActiveAdmins, PlatformAdmins
<1>3. SigningIn \/ Tick \/ UNCHANGED accountVars => UNCHANGED <<account, holder, changes>>
  BY DEF SigningIn, Tick, SendCode, SignIn, SignInWithPassword, Refresh, IssueSession, SignOut,
       ExpireSession, Forget, accountVars
<1>4. QED BY <1>1, <1>2, <1>3 DEF AccountsNext

\* However many administrators change each other's accounts at once, however
\* their locks interleave and whichever of them the database aborts, one active
\* platform administrator remains.
THEOREM AdminRemains == AccountsSpec => []AlwaysAnAdmin
<1>1. AccountsInit => AdminInv BY AdminInit
<1>2. AdminInv /\ [AccountsNext]_accountVars => AdminInv' BY AdminStep
<1>3. AdminInv => AlwaysAnAdmin BY DEF AdminInv
<1>4. QED BY <1>1, <1>2, <1>3, PTL DEF AccountsSpec

\* A session that is being written.
SessionReads == [user : Accs, reads : Accounts, old : Slots \cup {Nobody}]

SessionStates == {Unused} \cup SessionRows \cup SessionReads

SessionsTyped == code \in [Clients -> BOOLEAN] /\ sessions \in [Slots -> SessionStates]

LEMMA SessionKinds == ASSUME NEW x \in SessionStates PROVE
  /\ "live" \in DOMAIN x => x = Unused \/ x \in SessionRows
  /\ "reads" \in DOMAIN x => x \in SessionReads
BY DEF SessionStates, SessionRows, SessionReads, Unused

\* Ending a session leaves a session that has ended.
LEMMA RevokedTyped == ASSUME SessionsTyped, NEW o PROVE Revoked(o) \in [Slots -> SessionStates]
<1>1. ASSUME NEW s \in Slots, Row(s) PROVE [sessions[s] EXCEPT !.live = FALSE] \in SessionStates
  <2>1. sessions[s] = Unused \/ sessions[s] \in SessionRows BY <1>1, SessionKinds DEF SessionsTyped, Row
  <2>2. CASE sessions[s] = Unused
    <3>1. [Unused EXCEPT !.live = FALSE] = [Unused EXCEPT !.live = Unused.live] BY DEF Unused
    <3>2. [Unused EXCEPT !.live = Unused.live] = Unused BY ZenonT(20) DEF Unused
    <3>3. QED BY <2>2, <3>1, <3>2 DEF SessionStates
  <2>3. CASE sessions[s] \in SessionRows BY <2>3 DEF SessionRows, SessionStates
  <2>4. QED BY <2>1, <2>2, <2>3
<1>2. QED BY <1>1 DEF Revoked, SessionsTyped

LEMMA SessionsKeep == ASSUME LocksTyped, SessionsTyped, [AccountsNext]_accountVars PROVE SessionsTyped'
<1>1. ASSUME NEW s \in Slots, NEW u \in Accs, NEW old \in Slots \cup {Nobody}, Reads(s, u, old)
      PROVE  sessions' \in [Slots -> SessionStates]
  BY <1>1 DEF Reads, LocksTyped, SessionsTyped, SessionStates, SessionReads
<1>2. CASE Changing
  BY <1>2 DEF Changing, LockAccount, LockAdmin, CountAdmins, WriteAccount, DeadlockVictim, SessionsTyped
<1>3. ASSUME NEW u \in Clients, SendCode(u) PROVE SessionsTyped' BY <1>3 DEF SendCode, SessionsTyped
<1>4. ASSUME NEW s \in Slots, NEW u \in Clients, SignIn(s, u) \/ SignInWithPassword(s, u) PROVE SessionsTyped'
  BY <1>1, <1>4, AccountsAssumption DEF SignIn, SignInWithPassword, SessionsTyped
<1>5. ASSUME NEW s \in Slots, NEW old \in Slots, Refresh(s, old) PROVE SessionsTyped'
  <2>1. sessions[old] \in SessionRows BY <1>5, SessionKinds DEF Refresh, Row, SessionsTyped, Unused
  <2>2. sessions[old].user \in Accs BY <2>1 DEF SessionRows
  <2>3. QED BY <1>1, <1>5, <2>2 DEF Refresh, SessionsTyped
<1>6. ASSUME NEW s \in Slots, IssueSession(s) PROVE SessionsTyped'
  <2>1. sessions[s] \in SessionReads BY <1>6, SessionKinds DEF IssueSession, SessionsTyped
  <2>2. [user |-> sessions[s].user, live |-> TRUE, token |-> Life, admin |-> sessions[s].reads.admin] \in SessionStates
    BY <2>1, AccountsAssumption DEF SessionReads, SessionRows, SessionStates, Accounts
  <2>3. Revoked(sessions[s].old) \in [Slots -> SessionStates] BY RevokedTyped
  <2>4. QED BY <1>6, <2>2, <2>3 DEF IssueSession, SessionsTyped
<1>7. ASSUME NEW s \in Slots, SignOut(s) \/ ExpireSession(s) PROVE SessionsTyped'
  BY <1>7, RevokedTyped DEF SignOut, ExpireSession, SessionsTyped
<1>8. ASSUME NEW s \in Slots, Forget(s) PROVE SessionsTyped'
  BY <1>8 DEF Forget, SessionsTyped, SessionStates
<1>9. CASE Tick
  <2>1. ASSUME NEW s \in Slots, Row(s), sessions[s].token > 0
        PROVE  [sessions[s] EXCEPT !.token = @ - 1] \in SessionStates
    <3>1. sessions[s] \in SessionRows BY <2>1, SessionKinds DEF Row, SessionsTyped, Unused
    <3>2. sessions[s].token - 1 \in 0..Life BY <2>1, <3>1, AccountsAssumption DEF SessionRows
    <3>3. QED BY <3>1, <3>2 DEF SessionRows, SessionStates
  <2>2. QED BY <1>9, <2>1 DEF Tick, SessionsTyped
<1>10. CASE UNCHANGED accountVars BY <1>10 DEF accountVars, SessionsTyped
<1>11. QED
  BY <1>2, <1>3, <1>4, <1>5, <1>6, <1>7, <1>8, <1>9, <1>10 DEF AccountsNext, SigningIn

LEMMA AccountsTypes == LocksTyped /\ SessionsTyped => AccountsTypeOK
BY DEF LocksTyped, SessionsTyped, SessionStates, SessionReads, UnderWay, AccountsTypeOK
LEMMA AccountsStart == AccountsInit => AdminInv /\ SessionsTyped
<1>1. AccountsInit => SessionsTyped BY DEF AccountsInit, SessionsTyped, SessionStates
<1>2. QED BY <1>1, AdminInit

LEMMA AccountsKeep == AdminInv /\ SessionsTyped /\ [AccountsNext]_accountVars => AdminInv' /\ SessionsTyped'
BY AdminStep, SessionsKeep DEF AdminInv

\* Accounts, the locks and readings of those who change them, and sessions
\* keep their types.
THEOREM AccountsTypeCorrect == AccountsSpec => []AccountsTypeOK
<1>1. AdminInv /\ SessionsTyped => AccountsTypeOK BY AccountsTypes DEF AdminInv
<1>2. QED BY <1>1, AccountsStart, AccountsKeep, PTL DEF AccountsSpec

----------------------------------------------------------------------------
(* Tokens only fade *)

\* A request of the account has read it and is about to issue its session.
Asks(s, u) == "reads" \in DOMAIN sessions[s] /\ sessions[s].user = u

\* A token of the account that is believed.
Good(s, u) == Row(s) /\ sessions[s].user = u /\ sessions[s].token > 0

Fades(s) == sessions'[s].token <= sessions[s].token

\* While an account is suspended and no request holds what it was before, no
\* request begins and no token appears or lasts longer; the same holds of the
\* tokens that speak of an administrator, once the role is gone.
FadesFor(u) ==
  /\ ~account[u].active /\ (\A s \in Slots : ~Asks(s, u))
       => \A s \in Slots : ~Asks(s, u)' /\ (Good(s, u)' => Good(s, u) /\ Fades(s))
  /\ ~account[u].admin /\ (\A s \in Slots : Asks(s, u) => ~sessions[s].reads.admin)
       => \A s \in Slots :
            /\ Asks(s, u)' => ~sessions'[s].reads.admin
            /\ Good(s, u)' /\ sessions'[s].admin => Good(s, u) /\ sessions[s].admin /\ Fades(s)

TokensOnlyFade == [][\A u \in Accs : FadesFor(u)]_accountVars

\* What a step does to a session.
Stays(s) == sessions'[s] = sessions[s]

Reading(s) ==
  \E u \in Accs, old \in Slots \cup {Nobody} :
    account[u].active /\ sessions'[s] = [user |-> u, reads |-> account[u], old |-> old]

Issued(s) ==
  /\ sessions[s] \in SessionReads
  /\ sessions'[s] = [user |-> sessions[s].user, live |-> TRUE, token |-> Life, admin |-> sessions[s].reads.admin]

Worn(s) ==
  /\ sessions[s] \in SessionRows /\ sessions'[s] \in SessionRows
  /\ sessions'[s].user = sessions[s].user /\ sessions'[s].admin = sessions[s].admin
  /\ sessions'[s].token <= sessions[s].token

Moved(s) == Stays(s) \/ Reading(s) \/ Issued(s) \/ Worn(s) \/ sessions'[s] = Unused

\* Who ends a session wears it, or finds none.
LEMMA RevokedWears ==
  ASSUME SessionsTyped, NEW o, NEW s \in Slots, sessions'[s] = Revoked(o)[s] PROVE Moved(s)
<1>1. CASE s = o /\ Row(s)
  <2>1. sessions'[s] = [sessions[s] EXCEPT !.live = FALSE] BY <1>1 DEF Revoked
  <2>2. sessions[s] = Unused \/ sessions[s] \in SessionRows BY <1>1, SessionKinds DEF SessionsTyped, Row
  <2>3. CASE sessions[s] = Unused
    <3>1. [Unused EXCEPT !.live = FALSE] = [Unused EXCEPT !.live = Unused.live] BY DEF Unused
    <3>2. [Unused EXCEPT !.live = Unused.live] = Unused BY ZenonT(20) DEF Unused
    <3>3. QED BY <2>1, <2>3, <3>1, <3>2 DEF Moved
  <2>4. CASE sessions[s] \in SessionRows
    <3> DEFINE now == sessions[s]
               ended == [now EXCEPT !.live = FALSE]
    <3>1. /\ ended \in SessionRows /\ ended.user = now.user /\ ended.admin = now.admin
          /\ ended.token = now.token
      BY <2>4 DEF SessionRows
    <3>2. now.token \in Int BY <2>4, AccountsAssumption DEF SessionRows
    <3>3. Worn(s) BY <2>1, <2>4, <3>1, <3>2 DEF Worn
    <3>4. QED BY <3>3 DEF Moved
  <2>5. QED BY <2>2, <2>3, <2>4
<1>2. CASE ~(s = o /\ Row(s)) BY <1>2 DEF Revoked, Moved, Stays
<1>3. QED BY <1>1, <1>2

LEMMA SessionMoves ==
  ASSUME LocksTyped, SessionsTyped, AccountsNext, NEW s \in Slots PROVE Moved(s)
<1>1. sessions[s] \in SessionStates BY DEF SessionsTyped
<1>2. CASE UNCHANGED sessions BY <1>2 DEF Moved, Stays
<1>3. ASSUME NEW z \in Slots, NEW u \in Accs, NEW old \in Slots \cup {Nobody}, Reads(z, u, old), account[u].active
      PROVE  Moved(s)
  <2>1. CASE s = z BY <1>3, <2>1 DEF Reads, SessionsTyped, Reading, Moved
  <2>2. CASE s # z BY <1>3, <2>2 DEF Reads, SessionsTyped, Stays, Moved
  <2>3. QED BY <2>1, <2>2
<1>4. CASE Changing \/ \E u \in Clients : SendCode(u)
  BY <1>2, <1>4 DEF Changing, LockAccount, LockAdmin, CountAdmins, WriteAccount, DeadlockVictim, SendCode
<1>5. ASSUME NEW z \in Slots, NEW u \in Clients, SignIn(z, u) \/ SignInWithPassword(z, u) PROVE Moved(s)
  BY <1>2, <1>3, <1>5, AccountsAssumption DEF SignIn, SignInWithPassword, MayIssue
<1>6. ASSUME NEW z \in Slots, NEW old \in Slots, Refresh(z, old) PROVE Moved(s)
  <2>1. sessions[old] \in SessionRows BY <1>6, SessionKinds DEF Refresh, Row, SessionsTyped, Unused
  <2>2. sessions[old].user \in Accs BY <2>1 DEF SessionRows
  <2>3. QED BY <1>3, <1>6, <2>2 DEF Refresh, MayIssue
<1>7. ASSUME NEW z \in Slots, IssueSession(z) PROVE Moved(s)
  <2>1. sessions[z] \in SessionReads BY <1>7, SessionKinds DEF IssueSession, SessionsTyped
  <2> DEFINE new == [user |-> sessions[z].user, live |-> TRUE, token |-> Life, admin |-> sessions[z].reads.admin]
             old == sessions[z].old
  <2>2. sessions' = [Revoked(old) EXCEPT ![z] = new] BY <1>7 DEF IssueSession
  <2>3. Revoked(old) \in [Slots -> SessionStates] BY RevokedTyped
  <2>4. CASE s = z
    <3>1. sessions'[s] = new BY <2>2, <2>3, <2>4
    <3>2. QED BY <2>1, <2>4, <3>1 DEF Issued, Moved
  <2>5. CASE s # z
    <3> HIDE DEF old, new
    <3>1. sessions'[s] = Revoked(old)[s] BY <2>2, <2>3, <2>5
    <3>2. QED BY <3>1, RevokedWears
  <2>6. QED BY <2>4, <2>5
<1>8. ASSUME NEW z \in Slots, SignOut(z) \/ ExpireSession(z) PROVE Moved(s)
  BY <1>8, RevokedWears DEF SignOut, ExpireSession
<1>9. ASSUME NEW z \in Slots, Forget(z) PROVE Moved(s)
  BY <1>9 DEF Forget, SessionsTyped, Moved, Stays
<1>10. CASE Tick
  <2>1. CASE Row(s) /\ sessions[s].token > 0
    <3>1. sessions'[s] = [sessions[s] EXCEPT !.token = sessions[s].token - 1] BY <1>10, <2>1 DEF Tick
    <3>2. sessions[s] \in SessionRows BY <1>1, <2>1, SessionKinds DEF Row, Unused
    <3>3. Worn(s) BY <2>1, <3>1, <3>2, AccountsAssumption DEF SessionRows, Worn
    <3>4. QED BY <3>3 DEF Moved
  <2>2. CASE ~(Row(s) /\ sessions[s].token > 0) BY <1>10, <2>2 DEF Tick, Stays, Moved
  <2>3. QED BY <2>1, <2>2
<1>11. QED BY <1>4, <1>5, <1>6, <1>7, <1>8, <1>9, <1>10 DEF AccountsNext, SigningIn

LEMMA StepFades == ASSUME LocksTyped, SessionsTyped, AccountsNext, NEW u \in Accs PROVE FadesFor(u)
<1>1. ASSUME NEW s \in Slots, Stays(s)
      PROVE  /\ Asks(s, u)' <=> Asks(s, u)
             /\ Good(s, u)' => Good(s, u)
             /\ Good(s, u)' => Fades(s)
             /\ sessions'[s] = sessions[s]
  <2>1. sessions'[s] = sessions[s] /\ sessions[s] \in SessionStates BY <1>1 DEF Stays, SessionsTyped
  <2>2. Row(s) => sessions[s].token \in Int
    BY <2>1, SessionKinds, AccountsAssumption DEF Row, SessionRows, Unused
  <2>3. QED BY <2>1, <2>2 DEF Asks, Good, Row, Fades
<1>2. ASSUME NEW s \in Slots, Reading(s)
      PROVE  /\ ~Row(s)'
             /\ Asks(s, u)' => account[u].active /\ sessions'[s].reads = account[u]
  BY <1>2 DEF Reading, Row, Asks
<1>3. ASSUME NEW s \in Slots, Issued(s)
      PROVE  /\ ~Asks(s, u)'
             /\ Good(s, u)' => Asks(s, u) /\ sessions'[s].admin = sessions[s].reads.admin
  BY <1>3 DEF Issued, Asks, Good, Row, SessionReads
<1>4. ASSUME NEW s \in Slots, Worn(s)
      PROVE  /\ ~Asks(s, u)' /\ Fades(s) /\ sessions'[s].admin = sessions[s].admin
             /\ Good(s, u)' => Good(s, u)
  BY <1>4, AccountsAssumption DEF Worn, Asks, Good, Row, SessionRows, Fades
<1>5. ASSUME NEW s \in Slots, sessions'[s] = Unused PROVE ~Asks(s, u)' /\ ~Good(s, u)'
  BY <1>5 DEF Asks, Good, Unused
<1>6. \A s \in Slots : Moved(s) BY SessionMoves
<1>7. ASSUME ~account[u].active, \A s \in Slots : ~Asks(s, u), NEW s \in Slots
      PROVE  ~Asks(s, u)' /\ (Good(s, u)' => Good(s, u) /\ Fades(s))
  BY <1>1, <1>2, <1>3, <1>4, <1>5, <1>6, <1>7 DEF Moved, Good
<1>8. ASSUME ~account[u].admin, \A s \in Slots : Asks(s, u) => ~sessions[s].reads.admin, NEW s \in Slots
      PROVE  /\ Asks(s, u)' => ~sessions'[s].reads.admin
             /\ Good(s, u)' /\ sessions'[s].admin => Good(s, u) /\ sessions[s].admin /\ Fades(s)
  <2>1. CASE Stays(s) BY <1>1, <1>8, <2>1
  <2>2. CASE Reading(s) BY <1>2, <1>8, <2>2 DEF Good
  <2>3. CASE Issued(s) BY <1>3, <1>8, <2>3
  <2>4. CASE Worn(s) BY <1>4, <1>8, <2>4
  <2>5. CASE sessions'[s] = Unused BY <1>5, <2>5
  <2>6. QED BY <1>6, <2>1, <2>2, <2>3, <2>4, <2>5 DEF Moved
<1>9. QED BY <1>7, <1>8 DEF FadesFor

\* What TokensFollowAccount rests on: nothing is told of a suspension or a lost
\* role, yet from the moment no request holds the old reading every step leaves
\* the tokens that still speak for it as they are or shorter (_issue_session,
\* refresh_session).
THEOREM TokensFade == AccountsSpec => TokensOnlyFade
<1>1. AdminInv /\ SessionsTyped /\ [AccountsNext]_accountVars => [\A u \in Accs : FadesFor(u)]_accountVars
  BY StepFades DEF AdminInv
<1>2. QED BY <1>1, AccountsStart, AccountsKeep, PTL DEF AccountsSpec, TokensOnlyFade

----------------------------------------------------------------------------
(***************************************************************************)
(* Memories.  A worker deletes and writes chunks only while it holds the   *)
(* row of the memory, whose version is then that of its task; so the       *)
(* stores hold what the steps it has made left there.                      *)
(***************************************************************************)

MemoryTyped ==
  /\ memory \in [Mems -> [version : 0..MaxVersion, deleted : BOOLEAN, kind : Kinds]]
  /\ \A m \in Mems : memory[m].deleted => Exists(m)
  /\ tasks = [t \in Tasks |-> tasks[t]]
  /\ work = [w \in Workers |-> work[w]]
  /\ dense = [m \in Mems |-> dense[m]] /\ bm25 = [m \in Mems |-> bm25[m]]

\* A store holds one version of a memory that was written, or none.
OneVersion(S, n) == S = {} \/ \E v \in 1..n : S = {v}

\* A task is for a version that was written.
TasksWritten == \A t \in Tasks : tasks[t] # NoTask => t[2] <= memory[t[1]].version

P0 == <<"delete_dense", "delete_bm25", "put_dense", "put_bm25">>
P1 == <<"delete_bm25", "put_dense", "put_bm25">>
P2 == <<"put_dense", "put_bm25">>
P3 == <<"put_bm25">>
D0 == <<"delete_dense", "delete_bm25">>
D1 == <<"delete_bm25">>

\* What the steps that are left say about the stores, for the task's version v.
Projecting(steps, v, d, b) ==
  \/ steps = P0
  \/ steps = P1 /\ d = {}
  \/ steps = P2 /\ d = {} /\ b = {}
  \/ steps = P3 /\ d = {v} /\ b = {}
  \/ steps = <<>> /\ d = {v} /\ b = {v}

Deleting(steps, d, b) ==
  \/ steps = D0
  \/ steps = D1 /\ d = {}
  \/ steps = <<>> /\ d = {} /\ b = {}

\* A worker between two steps.
WorkerOK(w) ==
  LET x == work[w] IN
  /\ x = [task |-> x.task, steps |-> x.steps, locked |-> x.locked]
  /\ x.locked \in BOOLEAN
  /\ x.task = <<>> => ~x.locked
  /\ x.task # <<>> => x.task \in Tasks /\ x.task[2] <= memory[x.task[1]].version
  /\ ~x.locked => x.steps = <<>>
  /\ x.locked => LET m == x.task[1] IN
       /\ memory[m].version = x.task[2]
       /\ IF memory[m].deleted THEN Deleting(x.steps, dense[m], bm25[m])
          ELSE Projecting(x.steps, x.task[2], dense[m], bm25[m])

\* The row lock: at most one worker projects a memory.
OneHolder ==
  \A w \in Workers, u \in Workers :
    work[w].locked /\ work[u].locked /\ work[w].task[1] = work[u].task[1] => w = u

MemoryInv ==
  /\ MemoryTyped /\ TasksWritten /\ OneHolder
  /\ \A w \in Workers : WorkerOK(w)
  /\ \A m \in Mems :
       /\ OneVersion(dense[m], memory[m].version) /\ OneVersion(bm25[m], memory[m].version)
       /\ memory[m].deleted /\ tasks[<<m, memory[m].version>>] = Completed => Holds(m, {})

LEMMA StepTails ==
  /\ ProjectSteps = P0 /\ DeleteSteps = D0
  /\ Head(P0) = "delete_dense" /\ Tail(P0) = P1
  /\ Head(P1) = "delete_bm25" /\ Tail(P1) = P2
  /\ Head(P2) = "put_dense" /\ Tail(P2) = P3
  /\ Head(P3) = "put_bm25" /\ Tail(P3) = <<>>
  /\ Head(D0) = "delete_dense" /\ Tail(D0) = D1
  /\ Head(D1) = "delete_bm25" /\ Tail(D1) = <<>>
<1>1. DeleteSteps = D0 BY DEF DeleteSteps, D0
<1>2. ProjectSteps = P0
  <2> DEFINE S == {"delete_dense", "delete_bm25", "put_dense", "put_bm25"}
             rest == <<"put_dense", "put_bm25">>
  <2>1. /\ D0 \in Seq(S) /\ Len(D0) = 2 /\ D0[1] = "delete_dense" /\ D0[2] = "delete_bm25"
        /\ rest \in Seq(S) /\ Len(rest) = 2 /\ rest[1] = "put_dense" /\ rest[2] = "put_bm25"
    BY DEF D0
  <2>2. /\ P0 \in Seq(S) /\ Len(P0) = 4 /\ P0[1] = "delete_dense" /\ P0[2] = "delete_bm25"
        /\ P0[3] = "put_dense" /\ P0[4] = "put_bm25"
    BY DEF P0
  <2>3. ProjectSteps = D0 \o rest BY <1>1 DEF ProjectSteps
  <2> HIDE DEF S, rest
  <2>4. /\ D0 \o rest \in Seq(S) /\ Len(D0 \o rest) = Len(D0) + Len(rest)
        /\ \A i \in 1..(Len(D0) + Len(rest)) :
             (D0 \o rest)[i] = IF i <= Len(D0) THEN D0[i] ELSE rest[i - Len(D0)]
    BY <2>1, ConcatProperties
  <2>5. Len(D0 \o rest) = 4 /\ \A i \in 1..4 : (D0 \o rest)[i] = P0[i] BY <2>1, <2>2, <2>4
  <2>6. QED BY <2>2, <2>3, <2>4, <2>5, SeqEqual
<1>3. Head(P0) = "delete_dense" /\ Tail(P0) = P1 BY DEF P0, P1
<1>4. Head(P1) = "delete_bm25" /\ Tail(P1) = P2 BY DEF P2, P1
<1>5. Head(P2) = "put_dense" /\ Tail(P2) = P3 BY DEF P2, P3
<1>6. Head(P3) = "put_bm25" /\ Tail(P3) = <<>> BY DEF P3
<1>7. Head(D0) = "delete_dense" /\ Tail(D0) = D1 BY DEF D0, D1
<1>8. Head(D1) = "delete_bm25" /\ Tail(D1) = <<>> BY DEF D1
<1>9. QED BY <1>1, <1>2, <1>3, <1>4, <1>5, <1>6, <1>7, <1>8

LEMMA WorkFields ==
  ASSUME NEW t, NEW s, NEW l
  PROVE  LET r == [task |-> t, steps |-> s, locked |-> l]
         IN r.task = t /\ r.steps = s /\ r.locked = l
            /\ r = [task |-> r.task, steps |-> r.steps, locked |-> r.locked]
OBVIOUS

LEMMA WorkExcept ==
  ASSUME NEW r, r = [task |-> r.task, steps |-> r.steps, locked |-> r.locked], NEW y
  PROVE  /\ [r EXCEPT !.task = y] = [task |-> y, steps |-> r.steps, locked |-> r.locked]
         /\ [r EXCEPT !.steps = y] = [task |-> r.task, steps |-> y, locked |-> r.locked]
         /\ [r EXCEPT !.locked = y] = [task |-> r.task, steps |-> r.steps, locked |-> y]
OBVIOUS

LEMMA RowExcept ==
  ASSUME NEW r, r = [version |-> r.version, deleted |-> r.deleted, kind |-> r.kind], NEW y
  PROVE  [r EXCEPT !.deleted = y] = [version |-> r.version, deleted |-> y, kind |-> r.kind]
OBVIOUS

LEMMA MemoryStarts == ASSUME MemoryInit PROVE MemoryInv
<1>1. MemoryTyped BY MemoryAssumption DEF MemoryInit, MemoryTyped, NoMemory, Kinds
<1>2. TasksWritten BY DEF MemoryInit, TasksWritten
<1>3. \A w \in Workers : work[w] = Resting BY DEF MemoryInit
<1>4. ASSUME NEW w \in Workers PROVE WorkerOK(w)
  <2>1. /\ work[w] = [task |-> <<>>, steps |-> <<>>, locked |-> FALSE]
        /\ work[w].task = <<>> /\ work[w].steps = <<>> /\ work[w].locked = FALSE
    BY <1>3 DEF Resting
  <2>2. QED BY <2>1 DEF WorkerOK
<1>5. OneHolder BY <1>3 DEF OneHolder, Resting
<1>6. \A m \in Mems : memory[m] = NoMemory /\ dense[m] = {} /\ bm25[m] = {} BY DEF MemoryInit
<1>7. QED BY <1>1, <1>2, <1>4, <1>5, <1>6 DEF MemoryInv, OneVersion, NoMemory

\* A change of a memory that no worker holds, with a task for the new version.
LEMMA RowWriteKeeps ==
  ASSUME MemoryInv, NEW m \in Mems, RowFree(m), NEW row,
         row \in [version : 1..MaxVersion, deleted : BOOLEAN, kind : Kinds],
         row.version = memory[m].version + 1, Write(m, row)
  PROVE  MemoryInv'
<1>1. /\ memory' = [memory EXCEPT ![m] = row]
      /\ tasks' = [tasks EXCEPT ![<<m, row.version>>] = Asked]
      /\ UNCHANGED <<work, dense, bm25>>
  BY DEF Write
<1>2. MemoryTyped'
  <2>1. row \in [version : 0..MaxVersion, deleted : BOOLEAN, kind : Kinds] /\ row.version > 0
    BY MemoryAssumption
  <2>2. QED BY <1>1, <2>1 DEF MemoryInv, MemoryTyped, Exists
<1>3. \A n \in Mems : memory'[n] = IF n = m THEN row ELSE memory[n]
  BY <1>1 DEF MemoryInv, MemoryTyped
<1>4. \A n \in Mems : memory[n].version \in Nat /\ memory'[n].version \in Nat
                      /\ memory[n].version <= memory'[n].version
  BY <1>1, <1>3, MemoryAssumption DEF MemoryInv, MemoryTyped
<1>5. \A t \in Tasks : tasks'[t] = IF t = <<m, row.version>> THEN Asked ELSE tasks[t]
  BY <1>1 DEF MemoryInv, MemoryTyped
<1>6. TasksWritten'
  <2>1. SUFFICES ASSUME NEW t \in Tasks, tasks'[t] # NoTask PROVE t[2] <= memory'[t[1]].version
    BY DEF TasksWritten
  <2>2. CASE t = <<m, row.version>> BY <1>3, <1>4, <2>2
  <2>3. CASE t # <<m, row.version>>
    <3>1. t[1] \in Mems /\ t[2] \in Int /\ t[2] <= memory[t[1]].version
      BY <1>5, <2>1, <2>3 DEF MemoryInv, TasksWritten, Tasks
    <3>2. QED BY <1>4, <3>1
  <2>4. QED BY <2>2, <2>3
<1>7. OneHolder' BY <1>1 DEF MemoryInv, OneHolder
<1>8. ASSUME NEW w \in Workers PROVE WorkerOK(w)'
  <2>1. WorkerOK(w) BY DEF MemoryInv
  <2>2. CASE work[w].locked
    <3>1. work[w].task[1] # m /\ work[w].task # <<>> BY <2>1, <2>2 DEF RowFree, WorkerOK
    <3>2. work[w].task[1] \in Mems BY <2>1, <3>1 DEF WorkerOK, Tasks
    <3>3. memory'[work[w].task[1]] = memory[work[w].task[1]] BY <1>3, <3>1, <3>2
    <3>4. QED BY <1>1, <2>1, <3>3 DEF WorkerOK
  <2>3. CASE ~work[w].locked
    <3>1. work[w].task # <<>> => /\ work[w].task[1] \in Mems /\ work[w].task[2] \in Int
                                 /\ work[w].task[2] <= memory'[work[w].task[1]].version
      BY <1>4, <2>1 DEF WorkerOK, Tasks
    <3>2. QED BY <1>1, <2>1, <2>3, <3>1 DEF WorkerOK
  <2>4. QED BY <2>2, <2>3
<1>9. ASSUME NEW n \in Mems
      PROVE  /\ OneVersion(dense[n], memory'[n].version) /\ OneVersion(bm25[n], memory'[n].version)
             /\ memory'[n].deleted /\ tasks'[<<n, memory'[n].version>>] = Completed => Holds(n, {})
  <2>1. OneVersion(dense[n], memory'[n].version) /\ OneVersion(bm25[n], memory'[n].version)
    <3>1. 1..memory[n].version \subseteq 1..memory'[n].version BY <1>4
    <3>2. QED BY <3>1 DEF MemoryInv, OneVersion
  <2>2. CASE n = m
    <3>1. <<n, memory'[n].version>> = <<m, row.version>> BY <1>3, <2>2
    <3>2. <<m, row.version>> \in Tasks BY DEF Tasks
    <3>3. tasks'[<<n, memory'[n].version>>] = Asked BY <1>5, <3>1, <3>2
    <3>4. QED BY <2>1, <3>3 DEF Asked, Completed
  <2>3. CASE n # m
    <3>1. memory'[n] = memory[n] /\ tasks'[<<n, memory[n].version>>] = tasks[<<n, memory[n].version>>]
      BY <1>1, <1>3, <2>3 DEF MemoryInv, MemoryTyped
    <3>2. QED BY <2>1, <3>1 DEF MemoryInv
  <2>4. QED BY <2>2, <2>3
<1>10. QED BY <1>1, <1>2, <1>6, <1>7, <1>8, <1>9 DEF MemoryInv, Holds

\* A step of a worker that changes tasks but no store.  It may complete the
\* task of a deletion when the stores are empty, and take a row no one holds.
LEMMA WorkerKeeps ==
  ASSUME MemoryInv, NEW w \in Workers, NEW x, work' = [work EXCEPT ![w] = x],
         UNCHANGED <<memory, dense, bm25>>,
         tasks' = [t \in Tasks |-> tasks'[t]],
         \A t \in Tasks : tasks'[t] # NoTask => tasks[t] # NoTask,
         \A t \in Tasks : tasks'[t] = Completed /\ tasks[t] # Completed
           => (memory[t[1]].deleted /\ t[2] = memory[t[1]].version => Holds(t[1], {})),
         WorkerOK(w)',
         \A u \in Workers \ {w} : x.locked /\ work[u].locked => work[u].task[1] # x.task[1]
  PROVE  MemoryInv'
<1>1. \A u \in Workers : work'[u] = IF u = w THEN x ELSE work[u] BY DEF MemoryInv, MemoryTyped
<1>2. work' = [u \in Workers |-> work'[u]] BY DEF MemoryInv, MemoryTyped
<1>3. MemoryTyped' BY <1>2 DEF MemoryInv, MemoryTyped, Exists
<1>4. TasksWritten' BY DEF MemoryInv, TasksWritten
<1>5. OneHolder' BY <1>1 DEF MemoryInv, OneHolder
<1>6. ASSUME NEW u \in Workers PROVE WorkerOK(u)'
  <2>1. CASE u = w BY <2>1
  <2>2. CASE u # w
    <3>1. WorkerOK(u) /\ work'[u] = work[u] BY <1>1, <2>2 DEF MemoryInv
    <3>2. QED BY <3>1 DEF WorkerOK
  <2>3. QED BY <2>1, <2>2
<1>7. ASSUME NEW m \in Mems, memory[m].deleted, tasks'[<<m, memory[m].version>>] = Completed
      PROVE  Holds(m, {})
  <2>1. <<m, memory[m].version>> \in Tasks
    BY <1>7, MemoryAssumption DEF MemoryInv, MemoryTyped, Exists, Tasks
  <2>2. CASE tasks[<<m, memory[m].version>>] = Completed BY <1>7, <2>2 DEF MemoryInv
  <2>3. CASE tasks[<<m, memory[m].version>>] # Completed BY <1>7, <2>1, <2>3
  <2>4. QED BY <2>2, <2>3
<1>8. \A m \in Mems :
        /\ OneVersion(dense'[m], memory'[m].version) /\ OneVersion(bm25'[m], memory'[m].version)
        /\ memory'[m].deleted /\ tasks'[<<m, memory'[m].version>>] = Completed => Holds(m, {})'
  BY <1>7 DEF MemoryInv, Holds
<1>9. QED BY <1>3, <1>4, <1>5, <1>6, <1>8 DEF MemoryInv

\* A worker that comes to rest, or takes up a task that was written.
LEMMA Unlocked ==
  ASSUME MemoryInv, NEW w \in Workers, NEW of,
         of = <<>> \/ (of \in Tasks /\ tasks[of] # NoTask),
         work' = [work EXCEPT ![w] = [task |-> of, steps |-> <<>>, locked |-> FALSE]],
         UNCHANGED memory
  PROVE  WorkerOK(w)'
<1>1. work'[w] = [task |-> of, steps |-> <<>>, locked |-> FALSE] BY DEF MemoryInv, MemoryTyped
<1>2. /\ work'[w] = [task |-> work'[w].task, steps |-> work'[w].steps, locked |-> work'[w].locked]
      /\ work'[w].task = of /\ work'[w].steps = <<>> /\ work'[w].locked = FALSE
  <2> DEFINE r == [task |-> of, steps |-> <<>>, locked |-> FALSE]
  <2>1. /\ r.task = of /\ r.steps = <<>> /\ r.locked = FALSE
        /\ r = [task |-> r.task, steps |-> r.steps, locked |-> r.locked]
    BY WorkFields, Zenon
  <2>2. work'[w] = r BY <1>1
  <2> HIDE DEF r
  <2>3. QED BY <2>1, <2>2
<1>3. of # <<>> => of \in Tasks /\ of[2] <= memory'[of[1]].version
  BY DEF MemoryInv, TasksWritten
<1>4. QED BY <1>2, <1>3 DEF WorkerOK

\* A claim, however many leases may expire under their workers.
Claims(w) ==
  /\ work[w] = Resting
  /\ \E late \in SUBSET {t \in Tasks : tasks[t].status = "leased"} :
       LET recovered == [t \in Tasks |-> IF t \in late THEN Asked ELSE tasks[t]] IN
       \/ \E t \in Tasks :
            /\ tasks[t] = Asked
            /\ tasks' = [recovered EXCEPT ![t] = Leased(w)]
            /\ work' = [work EXCEPT ![w] = [Resting EXCEPT !.task = t]]
       \/ tasks' = recovered /\ UNCHANGED work
  /\ UNCHANGED <<memory, dense, bm25>>

LEMMA ClaimKeeps == ASSUME MemoryInv, NEW w \in Workers, Claims(w) PROVE MemoryInv'
<1>1. work[w] = Resting /\ UNCHANGED <<memory, dense, bm25>> BY DEF Claims
<1>2. PICK late \in SUBSET {t \in Tasks : tasks[t].status = "leased"} :
        LET recovered == [t \in Tasks |-> IF t \in late THEN Asked ELSE tasks[t]] IN
        \/ \E t \in Tasks :
             /\ tasks[t] = Asked
             /\ tasks' = [recovered EXCEPT ![t] = Leased(w)]
             /\ work' = [work EXCEPT ![w] = [Resting EXCEPT !.task = t]]
        \/ tasks' = recovered /\ UNCHANGED work
  BY DEF Claims
<1> DEFINE recovered == [t \in Tasks |-> IF t \in late THEN Asked ELSE tasks[t]]
<1>3. \A t \in late : t \in Tasks /\ tasks[t] # NoTask BY DEF NoTask
<1>4. NoTask # Asked /\ Completed # Asked /\ Completed # Leased(w)
  BY DEF NoTask, Asked, Completed, Leased
<1>5. \A t \in Tasks : recovered[t] = IF t \in late THEN Asked ELSE tasks[t] OBVIOUS
<1>6. CASE tasks' = recovered /\ UNCHANGED work
  <2>1. work' = [work EXCEPT ![w] = Resting] BY <1>1, <1>6 DEF MemoryInv, MemoryTyped
  <2>2. Resting.locked = FALSE BY DEF Resting
  <2>3. WorkerOK(w)' BY <1>1, <2>1, Unlocked DEF Resting
  <2>4. tasks' = [t \in Tasks |-> tasks'[t]] BY <1>6
  <2>5. \A t \in Tasks : /\ tasks'[t] # NoTask => tasks[t] # NoTask
                         /\ tasks'[t] = Completed => tasks[t] = Completed
    BY <1>3, <1>4, <1>5, <1>6
  <2>6. QED BY <1>1, <2>1, <2>2, <2>3, <2>4, <2>5, WorkerKeeps
<1>7. ASSUME NEW t \in Tasks, tasks[t] = Asked, tasks' = [recovered EXCEPT ![t] = Leased(w)],
             work' = [work EXCEPT ![w] = [Resting EXCEPT !.task = t]]
      PROVE  MemoryInv'
  <2> DEFINE x == [Resting EXCEPT !.task = t]
  <2>1. x = [task |-> t, steps |-> <<>>, locked |-> FALSE] /\ x.locked = FALSE
    <3>1. /\ Resting = [task |-> Resting.task, steps |-> Resting.steps, locked |-> Resting.locked]
          /\ Resting.steps = <<>> /\ Resting.locked = FALSE
      BY WorkFields, Zenon DEF Resting
    <3>2. x = [task |-> t, steps |-> <<>>, locked |-> FALSE] BY <3>1, WorkExcept, Zenon
    <3> DEFINE r == [task |-> t, steps |-> <<>>, locked |-> FALSE]
    <3>3. r.locked = FALSE BY WorkFields, Zenon
    <3>4. x = r BY <3>2
    <3> HIDE DEF x, r
    <3>5. x.locked = FALSE BY <3>3, <3>4
    <3>6. QED BY <3>4, <3>5 DEF r
  <2>2. WorkerOK(w)' BY <1>1, <1>4, <1>7, <2>1, Unlocked
  <2>3. tasks' = [s \in Tasks |-> tasks'[s]] BY <1>7
  <2>4. \A s \in Tasks : tasks'[s] = IF s = t THEN Leased(w) ELSE recovered[s] BY <1>7
  <2>5. \A s \in Tasks : /\ tasks'[s] # NoTask => tasks[s] # NoTask
                         /\ tasks'[s] = Completed => tasks[s] = Completed
    <3> HIDE DEF recovered
    <3>1. QED BY <1>3, <1>4, <1>5, <1>7, <2>4
  <2>6. QED BY <1>1, <1>7, <2>1, <2>2, <2>3, <2>5, WorkerKeeps
<1>8. QED BY <1>2, <1>6, <1>7

\* Completing under the worker's own lease.
LEMMA CompletedByOnly ==
  ASSUME MemoryInv, NEW w \in Workers, work[w].task \in Tasks, tasks' = CompletedBy(w)
  PROVE  /\ tasks' = [t \in Tasks |-> tasks'[t]]
         /\ \A t \in Tasks : tasks'[t] # NoTask => tasks[t] # NoTask
         /\ \A t \in Tasks \ {work[w].task} : tasks'[t] = tasks[t]
<1>1. NoTask # Leased(w) BY DEF NoTask, Leased
<1>2. QED BY <1>1 DEF CompletedBy, MemoryInv, MemoryTyped

\* The row is locked, and read: its version is that of the task or a later one.
LEMMA LoadKeeps == ASSUME MemoryInv, NEW w \in Workers, Load(w) PROVE MemoryInv'
<1> DEFINE m == work[w].task[1]
           v == work[w].task[2]
           row == memory[m]
<1>1. WorkerOK(w) /\ work[w].task # <<>> /\ ~work[w].locked /\ RowFree(m)
      /\ UNCHANGED <<memory, dense, bm25>>
  BY DEF MemoryInv, Load, MayLoad
<1>2. work[w].task \in Tasks /\ m \in Mems /\ v <= row.version /\ row.version \in Nat /\ v \in Nat
  BY <1>1, MemoryAssumption DEF WorkerOK, Tasks, MemoryInv, MemoryTyped
<1>3. CASE row.version > v
  <2>1. work' = [work EXCEPT ![w] = Resting] /\ tasks' = CompletedBy(w) BY <1>3 DEF Load
  <2>2. Resting.locked = FALSE BY DEF Resting
  <2>3. WorkerOK(w)' BY <1>1, <2>1, Unlocked DEF Resting
  <2>4. /\ tasks' = [t \in Tasks |-> tasks'[t]]
        /\ \A t \in Tasks : tasks'[t] # NoTask => tasks[t] # NoTask
        /\ \A t \in Tasks \ {work[w].task} : tasks'[t] = tasks[t]
    BY <1>2, <2>1, CompletedByOnly
  <2>5. \A t \in Tasks : tasks'[t] = Completed /\ tasks[t] # Completed => t[2] # memory[t[1]].version
    BY <1>2, <1>3, <2>4
  <2>6. QED BY <1>1, <2>1, <2>2, <2>3, <2>4, <2>5, WorkerKeeps
<1>4. CASE ~(row.version > v)
  <2> DEFINE x == [work[w] EXCEPT !.locked = TRUE,
                     !.steps = IF row.deleted THEN DeleteSteps ELSE ProjectSteps]
             new == [task |-> work[w].task,
                     steps |-> IF row.deleted THEN DeleteSteps ELSE ProjectSteps, locked |-> TRUE]
  <2>1. work' = [work EXCEPT ![w] = x] /\ UNCHANGED tasks
    BY <1>4 DEF Load, MemoryInv, MemoryTyped
  <2>2. x = new
    <3> DEFINE one == [work[w] EXCEPT !.locked = TRUE]
               steps == IF row.deleted THEN DeleteSteps ELSE ProjectSteps
    <3>1. work[w] = [task |-> work[w].task, steps |-> work[w].steps, locked |-> work[w].locked]
      BY <1>1 DEF WorkerOK
    <3>2. one = [task |-> work[w].task, steps |-> work[w].steps, locked |-> TRUE]
      BY <3>1, WorkExcept, Zenon
    <3> HIDE DEF one
    <3>3. /\ one = [task |-> one.task, steps |-> one.steps, locked |-> one.locked]
          /\ one.task = work[w].task /\ one.locked = TRUE
      BY <3>2, WorkFields, Zenon
    <3> HIDE DEF steps
    <3> DEFINE two == [one EXCEPT !.steps = steps]
    <3>4. two = [task |-> work[w].task, steps |-> steps, locked |-> TRUE]
      <4>1. two = [task |-> one.task, steps |-> steps, locked |-> one.locked] BY <3>3, WorkExcept, Zenon
      <4> HIDE DEF two
      <4>2. QED BY <3>3, <4>1
    <3>5. QED BY <3>4 DEF one, steps
  <2> HIDE DEF x
  <2>3. /\ x.task = work[w].task /\ x.locked = TRUE
        /\ x.steps = IF row.deleted THEN D0 ELSE P0
        /\ x = [task |-> x.task, steps |-> x.steps, locked |-> x.locked]
    BY <2>2, StepTails
  <2>4. work'[w] = x BY <2>1 DEF MemoryInv, MemoryTyped
  <2>5. row.version = v BY <1>2, <1>4
  <2>6. WorkerOK(w)' BY <1>1, <1>2, <2>3, <2>4, <2>5 DEF WorkerOK, Deleting, Projecting
  <2>7. tasks' = [t \in Tasks |-> tasks'[t]] BY <2>1 DEF MemoryInv, MemoryTyped
  <2>8. \A u \in Workers \ {w} : x.locked /\ work[u].locked => work[u].task[1] # x.task[1]
    BY <1>1, <2>3 DEF RowFree
  <2>9. QED BY <1>1, <2>1, <2>6, <2>7, <2>8, WorkerKeeps
<1>5. QED BY <1>3, <1>4

\* A deletion is completed when both stores are empty.
LEMMA CompleteKeeps == ASSUME MemoryInv, NEW w \in Workers, Complete(w) PROVE MemoryInv'
<1> DEFINE m == work[w].task[1]
<1>1. /\ WorkerOK(w) /\ work[w].locked /\ work[w].steps = <<>>
      /\ tasks' = CompletedBy(w) /\ work' = [work EXCEPT ![w] = Resting]
      /\ UNCHANGED <<memory, dense, bm25>>
  BY DEF MemoryInv, Complete
<1>2. work[w].task \in Tasks /\ m \in Mems BY <1>1 DEF WorkerOK, Tasks
<1>3. memory[m].deleted => Holds(m, {})
  <2>1. <<>> # D0 /\ <<>> # D1 BY DEF D0, D1
  <2>2. QED BY <1>1, <2>1 DEF WorkerOK, Deleting, Holds
<1>4. Resting.locked = FALSE BY DEF Resting
<1>5. WorkerOK(w)' BY <1>1, Unlocked DEF Resting
<1>6. /\ tasks' = [t \in Tasks |-> tasks'[t]]
      /\ \A t \in Tasks : tasks'[t] # NoTask => tasks[t] # NoTask
      /\ \A t \in Tasks \ {work[w].task} : tasks'[t] = tasks[t]
  BY <1>1, <1>2, CompletedByOnly
<1>7. \A t \in Tasks : tasks'[t] = Completed /\ tasks[t] # Completed
        => (memory[t[1]].deleted => Holds(t[1], {}))
  BY <1>3, <1>6
<1>8. QED BY <1>1, <1>4, <1>5, <1>6, <1>7, WorkerKeeps

\* A failure or a crash leaves what was written, and at most gives the task up.
GivesUp(w) ==
  /\ work' = [work EXCEPT ![w] = Resting] /\ UNCHANGED <<memory, dense, bm25>>
  /\ \/ tasks' = tasks
     \/ tasks[work[w].task] = Leased(w) /\ tasks' = [tasks EXCEPT ![work[w].task] = Asked]

LEMMA GivingUpKeeps == ASSUME MemoryInv, NEW w \in Workers, GivesUp(w) PROVE MemoryInv'
<1>1. /\ work' = [work EXCEPT ![w] = Resting] /\ UNCHANGED <<memory, dense, bm25>>
      /\ tasks' = tasks
         \/ (tasks[work[w].task] = Leased(w) /\ tasks' = [tasks EXCEPT ![work[w].task] = Asked])
  BY DEF GivesUp
<1>2. Resting.locked = FALSE BY DEF Resting
<1>3. WorkerOK(w)' BY <1>1, Unlocked DEF Resting
<1>4. tasks' = [t \in Tasks |-> tasks'[t]] BY <1>1 DEF MemoryInv, MemoryTyped
<1>5. NoTask # Leased(w) /\ Completed # Asked BY DEF NoTask, Leased, Completed, Asked
<1>6. \A t \in Tasks : /\ tasks'[t] # NoTask => tasks[t] # NoTask
                       /\ tasks'[t] = Completed => tasks[t] = Completed
  BY <1>1, <1>5 DEF MemoryInv, MemoryTyped
<1>7. QED BY <1>1, <1>2, <1>3, <1>4, <1>6, WorkerKeeps

\* A step on one document of the stores.  No other worker holds its row.
LEMMA ProjectKeeps == ASSUME MemoryInv, NEW w \in Workers, Project(w) PROVE MemoryInv'
<1> DEFINE m == work[w].task[1]
           v == work[w].task[2]
           step == Head(work[w].steps)
           d == CASE step = "delete_dense" -> {} [] step = "put_dense" -> dense[m] \cup {v} [] OTHER -> dense[m]
           b == CASE step = "delete_bm25" -> {} [] step = "put_bm25" -> bm25[m] \cup {v} [] OTHER -> bm25[m]
           x == [work[w] EXCEPT !.steps = Tail(work[w].steps)]
<1>1. WorkerOK(w) /\ work[w].steps # <<>> BY DEF MemoryInv, Project
<1>2. work[w].locked /\ work[w].task \in Tasks /\ m \in Mems BY <1>1 DEF WorkerOK, Tasks
<1>3. /\ dense' = [dense EXCEPT ![m] = d] /\ bm25' = [bm25 EXCEPT ![m] = b]
      /\ work' = [work EXCEPT ![w] = x] /\ UNCHANGED <<memory, tasks>>
  BY DEF Project, MemoryInv, MemoryTyped
<1>4. memory[m].version = v /\ v \in 1..memory[m].version
  BY <1>1, <1>2, MemoryAssumption DEF WorkerOK, Tasks, MemoryInv, MemoryTyped
<1>5. /\ \A n \in Mems : dense'[n] = IF n = m THEN d ELSE dense[n]
      /\ \A n \in Mems : bm25'[n] = IF n = m THEN b ELSE bm25[n]
      /\ \A u \in Workers : work'[u] = IF u = w THEN x ELSE work[u]
  BY <1>3 DEF MemoryInv, MemoryTyped
<1>6. /\ x.task = work[w].task /\ x.locked = work[w].locked /\ x.steps = Tail(work[w].steps)
      /\ x = [task |-> x.task, steps |-> x.steps, locked |-> x.locked]
  BY <1>1 DEF WorkerOK
<1>7. IF memory[m].deleted THEN Deleting(work[w].steps, dense[m], bm25[m])
      ELSE Projecting(work[w].steps, v, dense[m], bm25[m])
  BY <1>1, <1>2 DEF WorkerOK
<1> HIDE DEF x
<1>8. /\ IF memory[m].deleted THEN Deleting(x.steps, d, b) ELSE Projecting(x.steps, v, d, b)
      /\ d = {} \/ d = {v} \/ d = dense[m]
      /\ b = {} \/ b = {v} \/ b = bm25[m]
      /\ memory[m].deleted => (d = {} \/ d = dense[m]) /\ (b = {} \/ b = bm25[m])
  <2>1. CASE memory[m].deleted /\ work[w].steps = D0
    <3>1. step = "delete_dense" /\ x.steps = D1 /\ d = {} /\ b = bm25[m] BY <1>6, <2>1, StepTails
    <3>2. QED BY <2>1, <3>1 DEF Deleting
  <2>2. CASE memory[m].deleted /\ work[w].steps = D1 /\ dense[m] = {}
    <3>1. step = "delete_bm25" /\ x.steps = <<>> /\ b = {} /\ d = dense[m] BY <1>6, <2>2, StepTails
    <3>2. QED BY <2>2, <3>1 DEF Deleting
  <2>3. CASE ~memory[m].deleted /\ work[w].steps = P0
    <3>1. step = "delete_dense" /\ x.steps = P1 /\ d = {} /\ b = bm25[m] BY <1>6, <2>3, StepTails
    <3>2. QED BY <2>3, <3>1 DEF Projecting
  <2>4. CASE ~memory[m].deleted /\ work[w].steps = P1 /\ dense[m] = {}
    <3>1. step = "delete_bm25" /\ x.steps = P2 /\ d = {} /\ b = {} BY <1>6, <2>4, StepTails
    <3>2. QED BY <2>4, <3>1 DEF Projecting
  <2>5. CASE ~memory[m].deleted /\ work[w].steps = P2 /\ dense[m] = {} /\ bm25[m] = {}
    <3>1. step = "put_dense" /\ x.steps = P3 /\ d = {v} /\ b = {} BY <1>6, <2>5, StepTails
    <3>2. QED BY <2>5, <3>1 DEF Projecting
  <2>6. CASE ~memory[m].deleted /\ work[w].steps = P3 /\ dense[m] = {v} /\ bm25[m] = {}
    <3>1. step = "put_bm25" /\ x.steps = <<>> /\ d = {v} /\ b = {v} BY <1>6, <2>6, StepTails
    <3>2. QED BY <2>6, <3>1 DEF Projecting
  <2>7. QED BY <1>1, <1>7, <2>1, <2>2, <2>3, <2>4, <2>5, <2>6 DEF Deleting, Projecting
<1> HIDE DEF d, b
<1>9. WorkerOK(w)'
  <2>1. work'[w] = x /\ dense'[m] = d /\ bm25'[m] = b /\ memory' = memory BY <1>2, <1>3, <1>5
  <2>2. /\ x.locked = TRUE /\ x.task = work[w].task /\ x.task \in Tasks /\ x.task # <<>>
        /\ x.task[2] <= memory[x.task[1]].version /\ memory[m].version = x.task[2]
        /\ work[w].task[1] = m /\ work[w].task[2] = v
    BY <1>1, <1>2, <1>6 DEF WorkerOK, Tasks
  <2> HIDE DEF m, v
  <2>3. QED BY <1>6, <1>8, <2>1, <2>2 DEF WorkerOK
<1>10. ASSUME NEW u \in Workers, u # w PROVE WorkerOK(u)'
  <2>1. WorkerOK(u) /\ work'[u] = work[u] BY <1>5, <1>10 DEF MemoryInv
  <2>2. work[u].locked => work[u].task[1] # m BY <1>2, <1>10 DEF MemoryInv, OneHolder
  <2>3. work[u].locked => work[u].task[1] \in Mems BY <2>1 DEF WorkerOK, Tasks
  <2>4. work[u].locked => /\ dense'[work[u].task[1]] = dense[work[u].task[1]]
                          /\ bm25'[work[u].task[1]] = bm25[work[u].task[1]]
    BY <1>5, <2>2, <2>3
  <2>5. QED BY <1>3, <2>1, <2>4 DEF WorkerOK
<1>11. MemoryTyped'
  <2>1. /\ dense' = [n \in Mems |-> dense'[n]] /\ bm25' = [n \in Mems |-> bm25'[n]]
        /\ work' = [u \in Workers |-> work'[u]]
    BY <1>3 DEF MemoryInv, MemoryTyped
  <2>2. QED BY <1>3, <2>1 DEF MemoryInv, MemoryTyped, Exists
<1>12. TasksWritten' BY <1>3 DEF MemoryInv, TasksWritten
<1>13. OneHolder' BY <1>5, <1>6 DEF MemoryInv, OneHolder
<1>14. ASSUME NEW n \in Mems
       PROVE  /\ OneVersion(dense'[n], memory'[n].version) /\ OneVersion(bm25'[n], memory'[n].version)
              /\ memory'[n].deleted /\ tasks'[<<n, memory'[n].version>>] = Completed => Holds(n, {})'
  <2>1. /\ OneVersion(dense[n], memory[n].version) /\ OneVersion(bm25[n], memory[n].version)
        /\ memory[n].deleted /\ tasks[<<n, memory[n].version>>] = Completed => Holds(n, {})
    BY DEF MemoryInv
  <2>2. CASE n # m BY <1>3, <1>5, <2>1, <2>2 DEF Holds
  <2>3. CASE n = m
    <3>1. OneVersion(d, memory[m].version) /\ OneVersion(b, memory[m].version)
      BY <1>4, <1>8, <2>1, <2>3 DEF OneVersion
    <3>2. dense'[m] = d /\ bm25'[m] = b /\ memory' = memory /\ tasks' = tasks BY <1>2, <1>3, <1>5
    <3>3. memory[m].deleted /\ Holds(m, {}) => d = {} /\ b = {} BY <1>8 DEF Holds
    <3> HIDE DEF m
    <3>4. Holds(n, {})' <=> d = {} /\ b = {} BY <2>3, <3>2 DEF Holds
    <3>5. QED BY <2>1, <2>3, <3>1, <3>2, <3>3, <3>4
  <2>4. QED BY <2>2, <2>3
<1>15. QED BY <1>9, <1>10, <1>11, <1>12, <1>13, <1>14 DEF MemoryInv

LEMMA OwnerKeeps ==
  ASSUME MemoryInv, NEW m \in Mems,
         (\E kind \in Kinds : CreateMemory(m, kind)) \/ UpdateMemory(m) \/ UpsertProfile(m) \/ DeleteMemory(m)
  PROVE  MemoryInv'
<1>1. memory[m] = [version |-> memory[m].version, deleted |-> memory[m].deleted, kind |-> memory[m].kind]
      /\ memory[m].version \in 0..MaxVersion /\ memory[m].deleted \in BOOLEAN /\ memory[m].kind \in Kinds
  BY DEF MemoryInv, MemoryTyped
<1>2. ASSUME NEW kind \in Kinds, CreateMemory(m, kind) PROVE MemoryInv'
  <2> DEFINE row == [version |-> 1, deleted |-> FALSE, kind |-> kind]
  <2>1. memory[m].version = 0 /\ Write(m, row)
    BY <1>1, <1>2, MemoryAssumption DEF CreateMemory, Exists
  <2>2. RowFree(m)
    <3>1. SUFFICES ASSUME NEW w \in Workers, work[w].locked, work[w].task[1] = m PROVE FALSE
      BY DEF RowFree
    <3>2. work[w].task \in Tasks /\ memory[m].version = work[w].task[2]
      BY <3>1 DEF MemoryInv, WorkerOK
    <3>3. QED BY <2>1, <3>2, MemoryAssumption DEF Tasks
  <2>3. row \in [version : 1..MaxVersion, deleted : BOOLEAN, kind : Kinds] /\ row.version = 0 + 1
    BY MemoryAssumption
  <2> HIDE DEF row
  <2>4. QED BY <2>1, <2>2, <2>3, RowWriteKeeps
<1>3. ASSUME NEW row, Changeable(m), Write(m, row),
             row = [version |-> memory[m].version + 1, deleted |-> row.deleted, kind |-> memory[m].kind],
             row.deleted \in BOOLEAN
      PROVE  MemoryInv'
  <2>1. RowFree(m) /\ memory[m].version < MaxVersion BY <1>3 DEF Changeable
  <2>2. row.version = memory[m].version + 1 /\ row \in [version : 1..MaxVersion, deleted : BOOLEAN, kind : Kinds]
    BY <1>1, <1>3, <2>1, MemoryAssumption
  <2>3. QED BY <1>3, <2>1, <2>2, RowWriteKeeps
<1>4. CASE UpdateMemory(m)
  <2> DEFINE row == [memory[m] EXCEPT !.version = @ + 1]
  <2>1. row = [version |-> memory[m].version + 1, deleted |-> memory[m].deleted, kind |-> memory[m].kind]
    BY <1>1
  <2>2. Changeable(m) /\ Write(m, row) BY <1>4 DEF UpdateMemory
  <2> HIDE DEF row
  <2>3. row.deleted = memory[m].deleted BY <2>1
  <2>4. QED BY <1>1, <1>3, <2>1, <2>2, <2>3
<1>5. CASE DeleteMemory(m)
  <2> DEFINE one == [memory[m] EXCEPT !.version = @ + 1]
             row == [one EXCEPT !.deleted = TRUE]
  <2>1. one = [version |-> memory[m].version + 1, deleted |-> memory[m].deleted, kind |-> memory[m].kind]
    BY <1>1
  <2>2. Changeable(m) /\ Write(m, row) BY <1>5 DEF DeleteMemory
  <2> HIDE DEF one
  <2>3. row = [version |-> memory[m].version + 1, deleted |-> TRUE, kind |-> memory[m].kind]
    <3>1. one = [version |-> one.version, deleted |-> one.deleted, kind |-> one.kind]
          /\ one.version = memory[m].version + 1 /\ one.kind = memory[m].kind
      BY <2>1
    <3>2. row = [version |-> one.version, deleted |-> TRUE, kind |-> one.kind]
      BY <3>1, RowExcept, Zenon
    <3> HIDE DEF row
    <3>3. QED BY <3>1, <3>2
  <2> HIDE DEF row
  <2>4. row.deleted = TRUE BY <2>3
  <2>5. QED BY <1>3, <2>2, <2>3, <2>4
<1>6. "profile" \in Kinds BY DEF Kinds
<1>7. QED BY <1>2, <1>4, <1>5, <1>6 DEF UpsertProfile

\* A step of the owner or of a worker, whatever the bounds.
MemoryMoves ==
  \/ \E m \in Mems :
       (\E kind \in Kinds : CreateMemory(m, kind)) \/ UpdateMemory(m) \/ UpsertProfile(m) \/ DeleteMemory(m)
  \/ \E w \in Workers : Claims(w) \/ Load(w) \/ Project(w) \/ Complete(w) \/ GivesUp(w)

LEMMA MovesKeep == MemoryInv /\ (MemoryMoves \/ UNCHANGED memoryVars) => MemoryInv'
<1> SUFFICES ASSUME MemoryInv, MemoryMoves \/ UNCHANGED memoryVars PROVE MemoryInv' OBVIOUS
<1>1. CASE UNCHANGED memoryVars
  <2>1. UNCHANGED <<memory, tasks, work, dense, bm25>> BY <1>1 DEF memoryVars
  <2>2. QED BY <2>1 DEF MemoryInv, MemoryTyped, TasksWritten, WorkerOK, OneHolder, Holds, Exists
<1>2. QED
  BY <1>1, OwnerKeeps, ClaimKeeps, LoadKeeps, ProjectKeeps, CompleteKeeps, GivingUpKeeps DEF MemoryMoves

LEMMA NextMoves == MemoryNext => MemoryMoves
<1>1. ASSUME NEW w \in Workers, Claim(w) PROVE Claims(w) BY <1>1 DEF Claim, Claims, Recoverable
<1>2. ASSUME NEW w \in Workers, Retry(w) \/ Crash(w) PROVE GivesUp(w) BY <1>2 DEF Retry, Crash, GivesUp
<1>3. QED BY <1>1, <1>2 DEF MemoryNext, MemoryMoves, Drain

LEMMA MemoryStep == MemoryInv /\ [MemoryNext]_memoryVars => MemoryInv'
BY NextMoves, MovesKeep

LEMMA Forgotten == MemoryInv => DeletedIsForgotten
<1>1. SUFFICES ASSUME MemoryInv, NEW m \in Mems
               PROVE  /\ memory[m].deleted /\ tasks[<<m, memory[m].version>>] = Completed => Holds(m, {})
                      /\ Cardinality(dense[m]) <= 1 /\ Cardinality(bm25[m]) <= 1
                      /\ dense[m] \cup bm25[m] \subseteq 1..memory[m].version
  BY DEF DeletedIsForgotten
<1>2. \A S, n : OneVersion(S, n) => Cardinality(S) <= 1 /\ S \subseteq 1..n
  <2>1. SUFFICES ASSUME NEW S, NEW n, OneVersion(S, n) PROVE Cardinality(S) <= 1 /\ S \subseteq 1..n
    OBVIOUS
  <2>2. CASE S = {} BY <2>2, FS_EmptySet
  <2>3. ASSUME NEW v \in 1..n, S = {v} PROVE Cardinality(S) <= 1 /\ S \subseteq 1..n
    BY <2>3, FS_Singleton
  <2>4. QED BY <2>1, <2>2, <2>3 DEF OneVersion
<1>3. QED BY <1>1, <1>2 DEF MemoryInv

\* However many workers run, fail, crash and come back with expired leases, a
\* deletion that was projected is in neither store and stays out, and no store
\* ever holds two versions of a memory or one that was never written.
THEOREM MemoryForgets == MemorySpec => []DeletedIsForgotten
<1>1. MemoryInit => MemoryInv BY MemoryStarts
<1>2. QED BY <1>1, Forgotten, MemoryStep, PTL DEF MemorySpec

\* What a task may be, and what has been counted.
TaskStates == {NoTask, Asked, Completed} \cup {Leased(w) : w \in Workers}

TasksTyped == tasks \in [Tasks -> TaskStates]

Counted(maxFaults, maxSlow) == faults \in 0..maxFaults /\ slow \in 0..maxSlow

\* At most one failure is counted by a step, and the leases that expired.
Counting(maxFaults, maxSlow) ==
  /\ faults' = faults \/ (faults < maxFaults /\ faults' = faults + 1)
  /\ slow' = slow \/ \E early \in Nat : slow + early <= maxSlow /\ slow' = slow + early

LEMMA CountingKeeps ==
  ASSUME NEW maxFaults \in Nat, NEW maxSlow \in Nat, Counted(maxFaults, maxSlow), Counting(maxFaults, maxSlow)
  PROVE  Counted(maxFaults, maxSlow)'
BY DEF Counted, Counting

LEMMA LateIsFinite == ASSUME NEW late \in SUBSET Tasks PROVE Cardinality({t \in late : Busy(t)}) \in Nat
<1>1. IsFiniteSet(1..MaxVersion) BY MemoryAssumption, FS_Interval
<1>2. IsFiniteSet(Tasks) BY <1>1, MemoryAssumption, FS_Product DEF Tasks
<1>3. {t \in late : Busy(t)} \subseteq Tasks OBVIOUS
<1>4. QED BY <1>2, <1>3, FS_Subset, FS_CardinalityType

LEMMA NextCounts == MemoryNext => Counting(MaxFaults, MaxSlow)
<1>1. ASSUME NEW w \in Workers, Claim(w) PROVE Counting(MaxFaults, MaxSlow)
  <2>1. PICK late \in SUBSET {t \in Tasks : Recoverable(t)} :
          LET early == Cardinality({t \in late : Busy(t)}) IN slow + early <= MaxSlow /\ slow' = slow + early
    BY <1>1 DEF Claim
  <2>2. late \in SUBSET Tasks OBVIOUS
  <2>3. QED BY <1>1, <2>1, <2>2, LateIsFinite DEF Claim, Counting
<1>2. ASSUME NEW w \in Workers, Retry(w) \/ Crash(w) PROVE Counting(MaxFaults, MaxSlow)
  BY <1>2 DEF Retry, Crash, Counting
<1>3. ASSUME UNCHANGED <<faults, slow>> PROVE Counting(MaxFaults, MaxSlow) BY <1>3 DEF Counting
<1>4. QED
  BY <1>1, <1>2, <1>3
  DEF MemoryNext, Drain, CreateMemory, UpdateMemory, UpsertProfile, DeleteMemory, Write, Load, Project, Complete

LEMMA TasksKeep == ASSUME MemoryInv, TasksTyped, MemoryMoves \/ UNCHANGED memoryVars PROVE TasksTyped'
<1>1. CASE UNCHANGED memoryVars BY <1>1 DEF memoryVars, TasksTyped
<1>2. ASSUME NEW m \in Mems,
             (\E kind \in Kinds : CreateMemory(m, kind)) \/ UpdateMemory(m) \/ UpsertProfile(m) \/ DeleteMemory(m)
      PROVE  TasksTyped'
  <2>1. PICK t : tasks' = [tasks EXCEPT ![t] = Asked]
    BY <1>2 DEF CreateMemory, UpdateMemory, UpsertProfile, DeleteMemory, Write
  <2>2. QED BY <2>1 DEF TasksTyped, TaskStates
<1>3. ASSUME NEW w \in Workers, Claims(w) PROVE TasksTyped'
  <2>1. PICK late \in SUBSET {t \in Tasks : tasks[t].status = "leased"} :
          LET recovered == [t \in Tasks |-> IF t \in late THEN Asked ELSE tasks[t]] IN
          \/ \E t \in Tasks : tasks' = [recovered EXCEPT ![t] = Leased(w)]
          \/ tasks' = recovered
    BY <1>3 DEF Claims
  <2> DEFINE recovered == [t \in Tasks |-> IF t \in late THEN Asked ELSE tasks[t]]
  <2>2. recovered \in [Tasks -> TaskStates] /\ Leased(w) \in TaskStates BY DEF TasksTyped, TaskStates
  <2>3. QED BY <2>1, <2>2 DEF TasksTyped
<1>4. ASSUME NEW w \in Workers, Load(w) \/ Project(w) \/ Complete(w) PROVE TasksTyped'
  <2>1. tasks' = tasks \/ tasks' = [tasks EXCEPT ![work[w].task] = Completed]
    BY <1>4 DEF Load, Project, Complete, CompletedBy
  <2>2. QED BY <2>1 DEF TasksTyped, TaskStates
<1>5. ASSUME NEW w \in Workers, GivesUp(w) PROVE TasksTyped'
  BY <1>5 DEF GivesUp, TasksTyped, TaskStates
<1>6. QED BY <1>1, <1>2, <1>3, <1>4, <1>5 DEF MemoryMoves

\* The steps of a worker, as the positions in the two lists.
LEMMA StepsLeft ==
  \A s \in {P0, P1, P2, P3, D0, D1, <<>>} :
    \E i \in 1..5 : s = SubSeq(ProjectSteps, i, 4) \/ s = SubSeq(DeleteSteps, i, 2)
<1> DEFINE S == {"delete_dense", "delete_bm25", "put_dense", "put_bm25"}
           project(i) == SubSeq(P0, i, 4)
           delete(i) == SubSeq(D0, i, 2)
<1>1. P0 \in Seq(S) /\ Len(P0) = 4 /\ D0 \in Seq(S) /\ Len(D0) = 2 BY DEF P0, D0
<1>2. project(1) = P0 /\ delete(1) = D0 BY <1>1, SubSeqFull
<1> HIDE DEF S
<1>3. \A i \in 1..4 : Tail(project(i)) = project(i + 1) BY <1>1, HeadTailOfSubSeq
<1>4. \A i \in 1..2 : Tail(delete(i)) = delete(i + 1) BY <1>1, HeadTailOfSubSeq
<1> HIDE DEF project, delete
<1>5. Tail(project(1)) = project(2) /\ Tail(project(2)) = project(3)
      /\ Tail(project(3)) = project(4) /\ Tail(project(4)) = project(5) /\ Tail(delete(1)) = delete(2)
  BY <1>3, <1>4
<1>6. project(2) = P1 /\ project(3) = P2 /\ project(4) = P3 /\ project(5) = <<>> /\ delete(2) = D1
  BY <1>2, <1>5, StepTails, Zenon
<1>7. /\ project(1) = SubSeq(ProjectSteps, 1, 4) /\ project(2) = SubSeq(ProjectSteps, 2, 4)
      /\ project(3) = SubSeq(ProjectSteps, 3, 4) /\ project(4) = SubSeq(ProjectSteps, 4, 4)
      /\ project(5) = SubSeq(ProjectSteps, 5, 4)
      /\ delete(1) = SubSeq(DeleteSteps, 1, 2) /\ delete(2) = SubSeq(DeleteSteps, 2, 2)
  BY StepTails, Zenon DEF project, delete
<1>8. 1 \in 1..5 /\ 2 \in 1..5 /\ 3 \in 1..5 /\ 4 \in 1..5 /\ 5 \in 1..5 OBVIOUS
<1>9. QED BY <1>2, <1>6, <1>7, <1>8, Zenon

LEMMA MemoryTypes ==
  ASSUME MemoryInv, TasksTyped
  PROVE  /\ \A w \in Workers : IsWork(work[w])
         /\ dense \in [Mems -> SUBSET (1..MaxVersion)] /\ bm25 \in [Mems -> SUBSET (1..MaxVersion)]
<1>1. ASSUME NEW m \in Mems PROVE dense[m] \subseteq 1..MaxVersion /\ bm25[m] \subseteq 1..MaxVersion
  <2>1. memory[m].version \in 0..MaxVersion BY DEF MemoryInv, MemoryTyped
  <2>2. OneVersion(dense[m], memory[m].version) /\ OneVersion(bm25[m], memory[m].version) BY DEF MemoryInv
  <2>3. QED BY <2>1, <2>2, MemoryAssumption DEF OneVersion
<1>2. ASSUME NEW w \in Workers PROVE IsWork(work[w])
  <2> DEFINE x == work[w]
  <2>1. WorkerOK(w) BY DEF MemoryInv
  <2>2. x = [task |-> x.task, steps |-> x.steps, locked |-> x.locked] BY <2>1 DEF WorkerOK
  <2>3. DOMAIN x = {"task", "steps", "locked"} BY <2>2
  <2>4. x.steps \in {P0, P1, P2, P3, <<>>, D0, D1}
    BY <2>1 DEF WorkerOK, Deleting, Projecting
  <2>5. \E i \in 1..5 : x.steps = SubSeq(ProjectSteps, i, 4) \/ x.steps = SubSeq(DeleteSteps, i, 2)
    <3>1. x.steps \in {P0, P1, P2, P3, D0, D1, <<>>} BY <2>4
    <3> HIDE DEF x
    <3>2. QED BY <3>1, StepsLeft, Zenon
  <2>6. x.task \in Tasks \cup {<<>>} /\ x.locked \in BOOLEAN BY <2>1 DEF WorkerOK
  <2>7. QED BY <2>3, <2>5, <2>6 DEF IsWork
<1>3. QED BY <1>1, <1>2 DEF MemoryInv, MemoryTyped

LEMMA MemTypes == MemoryTypeOK <=>
  /\ memory \in [Mems -> [version : 0..MaxVersion, deleted : BOOLEAN, kind : Kinds]]
  /\ TasksTyped /\ Counted(MaxFaults, MaxSlow)
  /\ \A w \in Workers : IsWork(work[w])
  /\ dense \in [Mems -> SUBSET (1..MaxVersion)] /\ bm25 \in [Mems -> SUBSET (1..MaxVersion)]
BY DEF MemoryTypeOK, TasksTyped, TaskStates, Counted

LEMMA MemoryBegins == MemoryInit => MemoryInv /\ TasksTyped /\ Counted(MaxFaults, MaxSlow) /\ Counted(0, 1)
<1>1. MemoryInit => TasksTyped BY DEF MemoryInit, TasksTyped, TaskStates
<1>2. MemoryInit => Counted(MaxFaults, MaxSlow) /\ Counted(0, 1) BY MemoryAssumption DEF MemoryInit, Counted
<1>3. QED BY <1>1, <1>2, MemoryStarts

\* Memories, tasks, the steps left to each worker, the stores and the counts
\* of failures keep their types.
THEOREM MemoryTypeCorrect == MemorySpec => []MemoryTypeOK
<1>1. MemoryInit => MemoryInv /\ TasksTyped /\ Counted(MaxFaults, MaxSlow) BY MemoryBegins
<1>2. MemoryInv /\ TasksTyped /\ Counted(MaxFaults, MaxSlow) /\ [MemoryNext]_memoryVars
      => (MemoryInv /\ TasksTyped /\ Counted(MaxFaults, MaxSlow))'
  <2> SUFFICES ASSUME MemoryInv, TasksTyped, Counted(MaxFaults, MaxSlow), [MemoryNext]_memoryVars
               PROVE  (MemoryInv /\ TasksTyped /\ Counted(MaxFaults, MaxSlow))'
    OBVIOUS
  <2>1. Counted(MaxFaults, MaxSlow)'
    <3>1. CASE MemoryNext BY <3>1, MemoryAssumption, NextCounts, CountingKeeps
    <3>2. CASE UNCHANGED memoryVars BY <3>2 DEF memoryVars, Counted
    <3>3. QED BY <3>1, <3>2
  <2>2. QED BY <2>1, MemoryStep, NextMoves, TasksKeep
<1>3. MemoryInv /\ TasksTyped /\ Counted(MaxFaults, MaxSlow) => MemoryTypeOK
  BY MemoryTypes, MemTypes DEF MemoryInv, MemoryTyped
<1>4. QED BY <1>1, <1>2, <1>3, PTL DEF MemorySpec

\* The same memories with the bounds of MCServices: other leases expire.
LEMMA SlowMoves == Slow!MemoryNext => MemoryMoves /\ Counting(0, 1)
<1>1. ASSUME NEW w \in Workers, Slow!Claim(w) PROVE Claims(w) /\ Counting(0, 1)
  <2>1. /\ Slow!Tasks = Tasks /\ Slow!Asked = Asked /\ Slow!Leased(w) = Leased(w) /\ Slow!Resting = Resting
        /\ \A t \in Tasks : Slow!Busy(t) = Busy(t)
    BY DEF Slow!Tasks, Slow!Asked, Slow!Leased, Slow!Resting, Slow!Busy, Tasks, Asked, Leased, Resting, Busy
  <2>2. PICK late \in SUBSET {t \in Slow!Tasks : Slow!Recoverable(t)} :
          LET recovered == [t \in Slow!Tasks |-> IF t \in late THEN Slow!Asked ELSE tasks[t]] IN
          \/ \E t \in Slow!Tasks :
               /\ tasks[t] = Slow!Asked
               /\ tasks' = [recovered EXCEPT ![t] = Slow!Leased(w)]
               /\ work' = [work EXCEPT ![w] = [Slow!Resting EXCEPT !.task = t]]
          \/ tasks' = recovered /\ UNCHANGED work
    BY <1>1 DEF Slow!Claim
  <2>3. late \in SUBSET {t \in Tasks : tasks[t].status = "leased"} BY <2>1 DEF Slow!Recoverable
  <2>4. Counting(0, 1)
    <3>1. PICK gone \in SUBSET {t \in Slow!Tasks : Slow!Recoverable(t)} :
            LET early == Cardinality({t \in gone : Slow!Busy(t)}) IN slow + early <= 1 /\ slow' = slow + early
      BY <1>1 DEF Slow!Claim, Slow!Cardinality, Cardinality
    <3>2. gone \in SUBSET Tasks /\ {t \in gone : Slow!Busy(t)} = {t \in gone : Busy(t)} BY <2>1
    <3>3. faults' = faults BY <1>1 DEF Slow!Claim
    <3>4. QED BY <3>1, <3>2, <3>3, LateIsFinite DEF Counting
  <2>5. LET recovered == [t \in Tasks |-> IF t \in late THEN Asked ELSE tasks[t]] IN
        \/ \E t \in Tasks :
             /\ tasks[t] = Asked
             /\ tasks' = [recovered EXCEPT ![t] = Leased(w)]
             /\ work' = [work EXCEPT ![w] = [Resting EXCEPT !.task = t]]
        \/ tasks' = recovered /\ UNCHANGED work
    <3> DEFINE recovered == [t \in Tasks |-> IF t \in late THEN Asked ELSE tasks[t]]
               slowly == [t \in Slow!Tasks |-> IF t \in late THEN Slow!Asked ELSE tasks[t]]
    <3>1. recovered = slowly BY <2>1
    <3> HIDE DEF recovered
    <3>2. \/ \E t \in Slow!Tasks :
               /\ tasks[t] = Slow!Asked
               /\ tasks' = [slowly EXCEPT ![t] = Slow!Leased(w)]
               /\ work' = [work EXCEPT ![w] = [Slow!Resting EXCEPT !.task = t]]
          \/ tasks' = slowly /\ UNCHANGED work
      BY <2>2
    <3> HIDE DEF slowly
    <3>3. \/ \E t \in Tasks :
               /\ tasks[t] = Asked
               /\ tasks' = [recovered EXCEPT ![t] = Leased(w)]
               /\ work' = [work EXCEPT ![w] = [Resting EXCEPT !.task = t]]
          \/ tasks' = recovered /\ UNCHANGED work
      BY <2>1, <3>1, <3>2
    <3>4. QED BY <3>3 DEF recovered
  <2>6. work[w] = Resting /\ UNCHANGED <<memory, dense, bm25>> BY <1>1, <2>1 DEF Slow!Claim
  <2>7. QED BY <2>3, <2>4, <2>5, <2>6 DEF Claims
<1>2. ASSUME NEW w \in Workers, Slow!Load(w) \/ Slow!Project(w) \/ Slow!Complete(w)
      PROVE  (Load(w) \/ Project(w) \/ Complete(w)) /\ UNCHANGED <<faults, slow>>
  BY <1>2
  DEF Slow!Load, Slow!MayLoad, Slow!RowFree, Slow!CompletedBy, Slow!Project, Slow!Complete, Slow!Resting,
      Slow!Leased, Slow!Completed, Slow!DeleteSteps, Slow!ProjectSteps,
      Load, MayLoad, RowFree, CompletedBy, Project, Complete, Resting, Leased, Completed, DeleteSteps, ProjectSteps
<1>3. ASSUME NEW w \in Workers, Slow!Retry(w) \/ Slow!Crash(w) PROVE GivesUp(w) /\ Counting(0, 1)
  BY <1>3 DEF Slow!Retry, Slow!Crash, Slow!Leased, Slow!Asked, Slow!Resting, GivesUp, Leased, Asked, Resting, Counting
<1>4. ASSUME NEW m \in Mems,
             (\E kind \in Slow!Kinds : Slow!CreateMemory(m, kind)) \/ Slow!UpdateMemory(m)
               \/ Slow!UpsertProfile(m) \/ Slow!DeleteMemory(m)
      PROVE  /\ (\E kind \in Kinds : CreateMemory(m, kind)) \/ UpdateMemory(m) \/ UpsertProfile(m) \/ DeleteMemory(m)
             /\ UNCHANGED <<faults, slow>>
  BY <1>4
  DEF Slow!CreateMemory, Slow!UpdateMemory, Slow!UpsertProfile, Slow!DeleteMemory, Slow!Write, Slow!Changeable,
      Slow!Active, Slow!Exists, Slow!RowFree, Slow!Asked, Slow!Kinds,
      CreateMemory, UpdateMemory, UpsertProfile, DeleteMemory, Write, Changeable, Active, Exists, RowFree, Asked, Kinds
<1>5. UNCHANGED <<faults, slow>> => Counting(0, 1) BY DEF Counting
<1>6. QED
  BY <1>1, <1>2, <1>3, <1>4, <1>5 DEF Slow!MemoryNext, Slow!Drain, MemoryMoves

LEMMA SlowTypes == Slow!MemoryTypeOK <=>
  /\ memory \in [Mems -> [version : 0..MaxVersion, deleted : BOOLEAN, kind : Kinds]]
  /\ TasksTyped /\ Counted(0, 1)
  /\ \A w \in Workers : IsWork(work[w])
  /\ dense \in [Mems -> SUBSET (1..MaxVersion)] /\ bm25 \in [Mems -> SUBSET (1..MaxVersion)]
BY DEF Slow!MemoryTypeOK, Slow!Kinds, Slow!Tasks, Slow!NoTask, Slow!Asked, Slow!Completed, Slow!Leased,
   Slow!IsWork, Slow!ProjectSteps, Slow!DeleteSteps, Kinds, TasksTyped, TaskStates, Tasks, NoTask, Asked, Completed, Leased,
   IsWork, ProjectSteps, DeleteSteps, Counted


LEMMA SlowBegins == Slow!MemoryInit => MemoryInit
BY DEF Slow!MemoryInit, Slow!NoMemory, Slow!Tasks, Slow!NoTask, Slow!Resting,
       MemoryInit, NoMemory, Tasks, NoTask, Resting

----------------------------------------------------------------------------
(* What is completed is shown *)

\* The stores show a memory whose last task is completed as its row says, as
\* soon as no worker is at it again.
CompletedIsShown ==
  \A m \in Mems :
    Exists(m) /\ tasks[<<m, memory[m].version>>] = Completed /\ RowFree(m) => UpToDate(m)

\* Attempts fail, or leases expire under their workers, but not both.
OneKindOfTrouble == MaxFaults = 0 \/ MaxSlow = 0

\* Whoever works on a task holds its lease, where no lease expires too early.
OwnLeases ==
  MaxSlow = 0 => \A w \in Workers : work[w].task # <<>> => tasks[work[w].task] = Leased(w)

Done(m) == Active(m) /\ tasks[<<m, memory[m].version>>] = Completed /\ RowFree(m)

DoneIsStored == \A m \in Mems : Done(m) => Holds(m, {memory[m].version})

LEMMA LeaseFacts ==
  \A w : /\ Leased(w) # Asked /\ Leased(w) # Completed /\ Leased(w) # NoTask
         /\ \A u : Leased(u) = Leased(w) => u = w
<1>1. \A w : Leased(w).lease = w /\ Leased(w).status = "leased" BY DEF Leased
<1>2. Asked.status = "requested" /\ Completed.status = "completed" /\ NoTask.status = "none"
  BY DEF Asked, Completed, NoTask
<1>3. QED BY <1>1, <1>2

\* A change of the owner writes one row and the task of its new version.
RowChanges(m) ==
  /\ UNCHANGED <<work, dense, bm25>>
  /\ \E row : /\ row.version = memory[m].version + 1 /\ row.version \in 1..MaxVersion /\ RowFree(m)
              /\ memory' = [memory EXCEPT ![m] = row]
              /\ tasks' = [tasks EXCEPT ![<<m, row.version>>] = Asked]

LEMMA RowsTyped ==
  ASSUME MemoryInv, NEW m \in Mems
  PROVE  memory[m] = [version |-> memory[m].version, deleted |-> memory[m].deleted, kind |-> memory[m].kind]
BY DEF MemoryInv, MemoryTyped

LEMMA VersionTyped ==
  ASSUME MemoryInv, NEW m \in Mems
  PROVE  /\ memory[m].version \in Nat /\ memory[m].version \in 0..MaxVersion
         /\ Exists(m) => <<m, memory[m].version>> \in Tasks
BY MemoryAssumption DEF MemoryInv, MemoryTyped, Exists, Tasks

LEMMA OwnerChanges ==
  ASSUME MemoryInv, NEW m \in Mems,
         (\E kind \in Kinds : CreateMemory(m, kind)) \/ UpdateMemory(m) \/ UpsertProfile(m) \/ DeleteMemory(m)
  PROVE  RowChanges(m)
<1>0. memory[m].version \in Nat BY VersionTyped
<1>1. ASSUME NEW kind, CreateMemory(m, kind) PROVE RowChanges(m)
  <2> DEFINE row == [version |-> 1, deleted |-> FALSE, kind |-> kind]
  <2>1. memory[m].version = 0 /\ Write(m, row)
    <3>1. ~(memory[m].version > 0) /\ Write(m, row) BY <1>1 DEF CreateMemory, Exists
    <3> HIDE DEF row
    <3>2. QED BY <1>0, <3>1
  <2>2. RowFree(m)
    <3>1. SUFFICES ASSUME NEW w \in Workers, work[w].locked, work[w].task[1] = m PROVE FALSE
      BY DEF RowFree
    <3>2. work[w].task \in Tasks /\ memory[m].version = work[w].task[2]
      BY <3>1 DEF MemoryInv, WorkerOK
    <3>3. QED BY <2>1, <3>2, MemoryAssumption DEF Tasks
  <2>3. row.version = memory[m].version + 1 /\ row.version \in 1..MaxVersion BY <2>1, MemoryAssumption
  <2> HIDE DEF row
  <2>4. QED BY <2>1, <2>2, <2>3 DEF RowChanges, Write
<1>2. CASE UpdateMemory(m)
  <2> DEFINE row == [memory[m] EXCEPT !.version = @ + 1]
  <2>1. row.version = memory[m].version + 1 BY RowsTyped
  <2>2. RowFree(m) /\ Write(m, row) /\ memory[m].version < MaxVersion
    BY <1>2 DEF UpdateMemory, Changeable
  <2> HIDE DEF row
  <2>3. row.version \in 1..MaxVersion BY <1>0, <2>1, <2>2, MemoryAssumption
  <2>4. QED BY <2>1, <2>2, <2>3 DEF RowChanges, Write
<1>3. CASE DeleteMemory(m)
  <2> DEFINE row == [memory[m] EXCEPT !.version = @ + 1, !.deleted = TRUE]
  <2>1. row.version = memory[m].version + 1 BY RowsTyped
  <2>2. RowFree(m) /\ Write(m, row) /\ memory[m].version < MaxVersion
    BY <1>3 DEF DeleteMemory, Changeable
  <2> HIDE DEF row
  <2>3. row.version \in 1..MaxVersion BY <1>0, <2>1, <2>2, MemoryAssumption
  <2>4. QED BY <2>1, <2>2, <2>3 DEF RowChanges, Write
<1>4. QED BY <1>1, <1>2, <1>3 DEF UpsertProfile

LEMMA ChangeShows ==
  ASSUME MemoryInv, OwnLeases, DoneIsStored, NEW m \in Mems, RowChanges(m) PROVE OwnLeases' /\ DoneIsStored'
<1>1. PICK row : /\ row.version = memory[m].version + 1 /\ row.version \in 1..MaxVersion
                 /\ memory' = [memory EXCEPT ![m] = row]
                 /\ tasks' = [tasks EXCEPT ![<<m, row.version>>] = Asked]
  BY DEF RowChanges
<1>2. UNCHANGED <<work, dense, bm25>> /\ RowFree(m) /\ memory[m].version \in Nat BY VersionTyped DEF RowChanges
<1>3. ASSUME NEW w \in Workers, work[w].task # <<>> PROVE tasks'[work[w].task] = tasks[work[w].task]
  <2>1. work[w].task \in Tasks /\ work[w].task[2] <= memory[work[w].task[1]].version
    BY <1>3 DEF MemoryInv, WorkerOK
  <2>2. work[w].task # <<m, row.version>>
    <3>1. SUFFICES ASSUME work[w].task = <<m, row.version>> PROVE FALSE OBVIOUS
    <3>2. work[w].task[1] = m /\ work[w].task[2] = row.version BY <3>1
    <3>3. QED BY <1>1, <1>2, <2>1, <3>2
  <2>3. QED BY <1>1, <2>1, <2>2 DEF MemoryInv, MemoryTyped
<1>4. OwnLeases' BY <1>2, <1>3 DEF OwnLeases
<1>5. ASSUME NEW n \in Mems, Done(n)' PROVE Holds(n, {memory[n].version})'
  <2>1. n # m
    <3>1. SUFFICES ASSUME n = m PROVE FALSE OBVIOUS
    <3>2. memory'[n] = row /\ Exists(n)' /\ tasks'[<<m, row.version>>] = Completed
      BY <1>1, <1>5, <3>1 DEF Done, Active, MemoryInv, MemoryTyped
    <3>3. <<m, row.version>> \in Tasks
      BY <1>1 DEF Tasks
    <3>4. tasks'[<<m, row.version>>] = Asked BY <1>1, <3>3 DEF MemoryInv, MemoryTyped
    <3>5. QED BY <3>2, <3>4 DEF Asked, Completed
  <2>2. memory'[n] = memory[n] BY <1>1, <2>1 DEF MemoryInv, MemoryTyped
  <2>3. tasks'[<<n, memory[n].version>>] = tasks[<<n, memory[n].version>>] BY <1>1, <2>1
  <2>4. Done(n) BY <1>2, <1>5, <2>2, <2>3 DEF Done, Active, Exists, RowFree
  <2>5. QED BY <1>2, <2>2, <2>4 DEF DoneIsStored, Holds
<1>6. QED BY <1>4, <1>5 DEF DoneIsStored

\* A step of a worker that changes no store.  It may complete a task when the
\* stores hold its version, and give a row back when they do or the task stays
\* open.
LEMMA WorkerShows ==
  ASSUME MemoryInv, DoneIsStored, UNCHANGED <<memory, dense, bm25>>,
         \A m \in Mems : Done(m)' => Done(m) \/ Holds(m, {memory[m].version})
  PROVE  DoneIsStored'
<1>1. \A m \in Mems : Done(m)' => Holds(m, {memory[m].version}) BY DEF DoneIsStored
<1>2. QED BY <1>1 DEF DoneIsStored, Holds

LEMMA ClaimShows ==
  ASSUME MemoryInv, OwnLeases, DoneIsStored, slow \in 0..MaxSlow, NEW w \in Workers, Claim(w)
  PROVE  OwnLeases' /\ DoneIsStored'
<1>1. work[w] = Resting /\ UNCHANGED <<memory, dense, bm25>> BY DEF Claim
<1>2. PICK late \in SUBSET {t \in Tasks : Recoverable(t)} :
        LET recovered == [t \in Tasks |-> IF t \in late THEN Asked ELSE tasks[t]] IN
        \/ \E t \in Tasks :
             /\ tasks[t] = Asked
             /\ tasks' = [recovered EXCEPT ![t] = Leased(w)]
             /\ work' = [work EXCEPT ![w] = [Resting EXCEPT !.task = t]]
        \/ tasks' = recovered /\ UNCHANGED work
  BY DEF Claim
<1> DEFINE recovered == [t \in Tasks |-> IF t \in late THEN Asked ELSE tasks[t]]
<1>3. \A t \in Tasks : /\ recovered[t] = tasks[t] \/ recovered[t] = Asked
                       /\ MaxSlow = 0 /\ Busy(t) => recovered[t] = tasks[t]
  BY DEF Recoverable
<1>4. recovered = [t \in Tasks |-> recovered[t]] OBVIOUS
<1>5. ASSUME NEW u \in Workers, MaxSlow = 0, work[u].task # <<>>
      PROVE  /\ work[u].task \in Tasks /\ tasks[work[u].task] = Leased(u)
             /\ recovered[work[u].task] = Leased(u)
  <2>1. work[u].task \in Tasks /\ tasks[work[u].task] = Leased(u) BY <1>5 DEF MemoryInv, WorkerOK, OwnLeases
  <2>2. Busy(work[u].task) BY <2>1 DEF Busy
  <2>3. QED BY <1>3, <1>5, <2>1, <2>2
<1> HIDE DEF recovered
<1>6. CASE tasks' = recovered /\ UNCHANGED work
  <2>1. OwnLeases' BY <1>5, <1>6 DEF OwnLeases
  <2>2. ASSUME NEW m \in Mems, Done(m)' PROVE Done(m)
    <3>1. Active(m) /\ RowFree(m) /\ recovered[<<m, memory[m].version>>] = Completed
      BY <1>1, <1>6, <2>2 DEF Done, Active, Exists, RowFree
    <3>2. <<m, memory[m].version>> \in Tasks BY <3>1, VersionTyped DEF Active
    <3>3. tasks[<<m, memory[m].version>>] = Completed BY <1>3, <3>1, <3>2 DEF Asked, Completed
    <3>4. QED BY <3>1, <3>3 DEF Done
  <2>3. QED BY <1>1, <2>1, <2>2, WorkerShows
<1>7. ASSUME NEW t \in Tasks, tasks[t] = Asked, tasks' = [recovered EXCEPT ![t] = Leased(w)],
             work' = [work EXCEPT ![w] = [Resting EXCEPT !.task = t]]
      PROVE  OwnLeases' /\ DoneIsStored'
  <2>1. /\ \A s \in Tasks : tasks'[s] = IF s = t THEN Leased(w) ELSE recovered[s]
        /\ \A u \in Workers : u # w => work'[u] = work[u]
        /\ work'[w].task = t
    BY <1>4, <1>7 DEF MemoryInv, MemoryTyped, Resting
  <2>2. OwnLeases'
    <3>1. SUFFICES ASSUME MaxSlow = 0, NEW u \in Workers, work'[u].task # <<>> PROVE tasks'[work'[u].task] = Leased(u)
      BY DEF OwnLeases
    <3>2. CASE u = w BY <2>1, <3>2
    <3>3. CASE u # w BY <1>5, <1>7, <2>1, <3>1, <3>3, LeaseFacts
    <3>4. QED BY <3>2, <3>3
  <2>3. ASSUME NEW m \in Mems, Done(m)' PROVE Done(m)
    <3>1. tasks[<<m, memory[m].version>>] = Completed /\ Active(m)
      <4> DEFINE s == <<m, memory[m].version>>
      <4>1. Active(m) /\ tasks'[s] = Completed BY <1>1, <2>3 DEF Done, Active, Exists
      <4>2. s \in Tasks BY <4>1, VersionTyped DEF Active
      <4> HIDE DEF s
      <4>3. tasks[s] = Completed BY <1>3, <2>1, <4>1, <4>2, LeaseFacts DEF Asked, Completed
      <4>4. QED BY <4>1, <4>3 DEF s
    <3>2. ~work[w].locked BY <1>1 DEF Resting
    <3>3. RowFree(m) BY <2>1, <2>3, <3>2 DEF Done, RowFree
    <3>4. QED BY <3>1, <3>3 DEF Done
  <2>4. QED BY <1>1, <2>2, <2>3, WorkerShows
<1>8. QED BY <1>2, <1>6, <1>7 DEF recovered

\* Whoever rests has no lease of its own to keep.
LEMMA RestingOwns ==
  ASSUME MemoryInv, OwnLeases, NEW w \in Workers, work' = [work EXCEPT ![w] = Resting],
         \A t \in Tasks : tasks'[t] = tasks[t] \/ (t = work[w].task /\ tasks[t] = Leased(w))
  PROVE  OwnLeases'
<1>1. \A u \in Workers : work'[u] = IF u = w THEN Resting ELSE work[u] BY DEF MemoryInv, MemoryTyped
<1>2. SUFFICES ASSUME MaxSlow = 0, NEW u \in Workers, work'[u].task # <<>> PROVE tasks'[work'[u].task] = Leased(u)
  BY DEF OwnLeases
<1>3. u # w /\ work'[u] = work[u] BY <1>1, <1>2 DEF Resting
<1>4. work[u].task \in Tasks /\ tasks[work[u].task] = Leased(u) BY <1>2, <1>3 DEF OwnLeases, MemoryInv, WorkerOK
<1>5. QED BY <1>3, <1>4, LeaseFacts

LEMMA LoadShows ==
  ASSUME MemoryInv, OwnLeases, DoneIsStored, NEW w \in Workers, Load(w) PROVE OwnLeases' /\ DoneIsStored'
<1> DEFINE m == work[w].task[1]
<1>1. /\ WorkerOK(w) /\ work[w].task # <<>> /\ ~work[w].locked /\ UNCHANGED <<memory, dense, bm25>>
      /\ work[w].task \in Tasks
  BY DEF MemoryInv, Load, MayLoad, WorkerOK
<1>2. CASE memory[m].version > work[w].task[2]
  <2>1. work' = [work EXCEPT ![w] = Resting] /\ tasks' = CompletedBy(w) BY <1>2 DEF Load
  <2>2. \A t \in Tasks : tasks'[t] = tasks[t] \/ (t = work[w].task /\ tasks[t] = Leased(w))
    BY <2>1 DEF CompletedBy, MemoryInv, MemoryTyped
  <2>3. OwnLeases' BY <2>1, <2>2, RestingOwns
  <2>4. ASSUME NEW n \in Mems, Done(n)' PROVE Done(n)
    <3>1. <<n, memory[n].version>> # work[w].task
      <4>1. SUFFICES ASSUME <<n, memory[n].version>> = work[w].task PROVE FALSE OBVIOUS
      <4>2. m = n /\ work[w].task[2] = memory[n].version BY <4>1
      <4>3. memory[m].version \in Nat BY <4>2, VersionTyped
      <4>4. QED BY <1>2, <4>2, <4>3
    <3>2. tasks[<<n, memory[n].version>>] = Completed /\ Active(n)
      BY <1>1, <2>2, <2>4, <3>1, VersionTyped DEF Done, Active, Exists
    <3>3. RowFree(n) BY <1>1, <2>1, <2>4 DEF Done, RowFree, MemoryInv, MemoryTyped
    <3>4. QED BY <3>2, <3>3 DEF Done
  <2>5. QED BY <1>1, <2>3, <2>4, WorkerShows
<1>3. CASE ~(memory[m].version > work[w].task[2])
  <2> DEFINE steps == IF memory[m].deleted THEN DeleteSteps ELSE ProjectSteps
             x == [work[w] EXCEPT !.locked = TRUE, !.steps = steps]
  <2>1. work' = [work EXCEPT ![w] = x] /\ UNCHANGED tasks BY <1>3 DEF Load, MemoryInv, MemoryTyped
  <2>2. x.task = work[w].task BY <1>1 DEF WorkerOK
  <2> HIDE DEF x
  <2>3. \A u \in Workers : work'[u].task = work[u].task /\ (u # w => work'[u] = work[u])
    BY <2>1, <2>2 DEF MemoryInv, MemoryTyped
  <2>4. OwnLeases' BY <2>1, <2>3 DEF OwnLeases
  <2>5. ASSUME NEW n \in Mems, Done(n)' PROVE Done(n)
    <3>1. RowFree(n) BY <1>1, <2>3, <2>5 DEF Done, RowFree
    <3>2. QED BY <1>1, <2>1, <2>5, <3>1 DEF Done, Active, Exists
  <2>6. QED BY <1>1, <2>4, <2>5, WorkerShows
<1>4. QED BY <1>2, <1>3

\* Projecting goes on under the row lock.
LEMMA ProjectShows ==
  ASSUME MemoryInv, OwnLeases, DoneIsStored, NEW w \in Workers, Project(w) PROVE OwnLeases' /\ DoneIsStored'
<1> DEFINE m == work[w].task[1]
<1>1. WorkerOK(w) /\ work[w].locked /\ UNCHANGED <<memory, tasks>> /\ m \in Mems
  BY DEF MemoryInv, Project, WorkerOK, Tasks
<1>2. \A u \in Workers : /\ work'[u].task = work[u].task /\ work'[u].locked = work[u].locked
  BY <1>1 DEF Project, MemoryInv, MemoryTyped, WorkerOK
<1>3. \A n \in Mems : n # m => dense'[n] = dense[n] /\ bm25'[n] = bm25[n]
  BY DEF Project, MemoryInv, MemoryTyped
<1>4. OwnLeases' BY <1>1, <1>2 DEF OwnLeases
<1>5. ASSUME NEW n \in Mems, Done(n)' PROVE Holds(n, {memory[n].version})'
  <2>1. Done(n) /\ n # m BY <1>1, <1>2, <1>5 DEF Done, Active, Exists, RowFree
  <2>2. QED BY <1>1, <1>3, <2>1 DEF DoneIsStored, Holds
<1>6. QED BY <1>4, <1>5 DEF DoneIsStored

LEMMA CompleteShows ==
  ASSUME MemoryInv, OwnLeases, DoneIsStored, NEW w \in Workers, Complete(w) PROVE OwnLeases' /\ DoneIsStored'
<1> DEFINE m == work[w].task[1]
<1>1. /\ WorkerOK(w) /\ work[w].locked /\ work[w].steps = <<>> /\ UNCHANGED <<memory, dense, bm25>>
      /\ work' = [work EXCEPT ![w] = Resting] /\ tasks' = CompletedBy(w)
  BY DEF MemoryInv, Complete
<1>2. /\ work[w].task \in Tasks /\ m \in Mems /\ memory[m].version = work[w].task[2]
      /\ ~memory[m].deleted => Projecting(work[w].steps, work[w].task[2], dense[m], bm25[m])
  BY <1>1 DEF WorkerOK, Tasks
<1>3. ~memory[m].deleted => Holds(m, {memory[m].version})
  <2>1. <<>> # P0 /\ <<>> # P1 /\ <<>> # P2 /\ <<>> # P3 BY DEF P0, P1, P2, P3
  <2>2. QED BY <1>1, <1>2, <2>1 DEF Projecting, Holds
<1>4. \A t \in Tasks : tasks'[t] = tasks[t] \/ (t = work[w].task /\ tasks[t] = Leased(w))
  BY <1>1 DEF CompletedBy, MemoryInv, MemoryTyped
<1>5. OwnLeases' BY <1>1, <1>4, RestingOwns
<1>6. ASSUME NEW n \in Mems, Done(n)' PROVE Done(n) \/ Holds(n, {memory[n].version})
  <2>1. CASE n = m BY <1>1, <1>3, <1>6, <2>1 DEF Done, Active
  <2>2. CASE n # m
    <3>1. <<n, memory[n].version>> # work[w].task BY <2>2
    <3>2. tasks[<<n, memory[n].version>>] = Completed /\ Active(n)
      BY <1>1, <1>4, <1>6, <3>1, VersionTyped DEF Done, Active, Exists
    <3>3. RowFree(n) BY <1>1, <1>6, <2>2 DEF Done, RowFree, MemoryInv, MemoryTyped
    <3>4. QED BY <3>2, <3>3 DEF Done
  <2>3. QED BY <2>1, <2>2
<1>7. QED BY <1>1, <1>5, <1>6, WorkerShows

\* Who gives a task up still had its lease, so that it is not completed.
LEMMA GivingUpShows ==
  ASSUME MemoryInv, OwnLeases, DoneIsStored, MaxSlow = 0, NEW w \in Workers, work[w].task # <<>>, GivesUp(w)
  PROVE  OwnLeases' /\ DoneIsStored'
<1>1. /\ WorkerOK(w) /\ work[w].task \in Tasks /\ tasks[work[w].task] = Leased(w)
      /\ work' = [work EXCEPT ![w] = Resting] /\ UNCHANGED <<memory, dense, bm25>>
  BY DEF MemoryInv, WorkerOK, OwnLeases, GivesUp
<1>2. /\ \A t \in Tasks : tasks'[t] = tasks[t] \/ (t = work[w].task /\ tasks'[t] = Asked)
  BY DEF GivesUp, MemoryInv, MemoryTyped
<1>3. OwnLeases' BY <1>1, <1>2, RestingOwns
<1>4. ASSUME NEW n \in Mems, Done(n)' PROVE Done(n)
  <2>1. <<n, memory[n].version>> \in Tasks /\ tasks'[<<n, memory[n].version>>] = Completed /\ Active(n)
    BY <1>1, <1>4, VersionTyped DEF Done, Active, Exists
  <2>2. <<n, memory[n].version>> # work[w].task /\ tasks[<<n, memory[n].version>>] = Completed
    BY <1>1, <1>2, <2>1, LeaseFacts DEF Asked, Completed
  <2>3. RowFree(n)
    <3>1. SUFFICES ASSUME NEW u \in Workers, work[u].locked, work[u].task[1] = n PROVE FALSE BY DEF RowFree
    <3>2. CASE u = w
      <4>1. work[w].task[2] = memory[n].version BY <1>1, <3>1, <3>2 DEF WorkerOK
      <4>2. work[w].task = <<n, memory[n].version>> BY <1>1, <3>1, <3>2, <4>1 DEF Tasks
      <4>3. QED BY <2>2, <4>2
    <3>3. CASE u # w BY <1>1, <1>4, <3>1, <3>3 DEF Done, RowFree, MemoryInv, MemoryTyped
    <3>4. QED BY <3>2, <3>3
  <2>4. QED BY <2>1, <2>2, <2>3 DEF Done
<1>5. QED BY <1>1, <1>3, <1>4, WorkerShows

ShowingInv == MemoryInv /\ Counted(MaxFaults, MaxSlow) /\ OwnLeases /\ DoneIsStored

LEMMA ShowingStep == OneKindOfTrouble /\ ShowingInv /\ [MemoryNext]_memoryVars => ShowingInv'
<1> SUFFICES ASSUME OneKindOfTrouble, ShowingInv, [MemoryNext]_memoryVars PROVE ShowingInv' OBVIOUS
<1>1. MemoryInv' BY MemoryStep DEF ShowingInv
<1>2. Counted(MaxFaults, MaxSlow)'
  <2>1. CASE MemoryNext BY <2>1, MemoryAssumption, NextCounts, CountingKeeps DEF ShowingInv
  <2>2. CASE UNCHANGED memoryVars BY <2>2 DEF ShowingInv, memoryVars, Counted
  <2>3. QED BY <2>1, <2>2
<1>3. CASE UNCHANGED memoryVars
  <2>1. OwnLeases' /\ DoneIsStored'
    BY <1>3 DEF ShowingInv, memoryVars, OwnLeases, DoneIsStored, Done, Active, Exists, RowFree, Holds
  <2>2. QED BY <1>1, <1>2, <2>1 DEF ShowingInv
<1>4. ASSUME NEW w \in Workers, Retry(w) \/ Crash(w) PROVE OwnLeases' /\ DoneIsStored'
  <2>1. work[w].task # <<>> /\ faults < MaxFaults /\ GivesUp(w) BY <1>4 DEF Retry, Crash, GivesUp
  <2>2. MaxSlow = 0 BY <2>1 DEF ShowingInv, Counted, OneKindOfTrouble
  <2>3. QED BY <2>1, <2>2, GivingUpShows DEF ShowingInv
<1>5. CASE MemoryNext
  <2>1. OwnLeases' /\ DoneIsStored'
    BY <1>4, <1>5, OwnerChanges, ChangeShows, ClaimShows, LoadShows, ProjectShows, CompleteShows
    DEF MemoryNext, Drain, ShowingInv, Counted
  <2>2. QED BY <1>1, <1>2, <2>1 DEF ShowingInv
<1>6. QED BY <1>3, <1>5

LEMMA Showing == ShowingInv => CompletedIsShown
<1>1. SUFFICES ASSUME ShowingInv, NEW m \in Mems, Exists(m), RowFree(m),
                      tasks[<<m, memory[m].version>>] = Completed
               PROVE  UpToDate(m)
  BY DEF CompletedIsShown
<1> DEFINE v == memory[m].version
<1>2. memory[m].deleted \in BOOLEAN BY <1>1 DEF ShowingInv, MemoryInv, MemoryTyped
<1>3. CASE memory[m].deleted
  <2>1. Holds(m, {}) BY <1>1, <1>3 DEF ShowingInv, MemoryInv
  <2>2. ~Active(m) BY <1>3 DEF Active
  <2>3. QED BY <2>1, <2>2 DEF UpToDate, Recalled
<1>4. CASE ~memory[m].deleted
  <2>1. Active(m) BY <1>1, <1>4 DEF Active
  <2>2. Holds(m, {v}) BY <1>1, <2>1 DEF ShowingInv, DoneIsStored, Done
  <2>3. FoundVersions(m) = {v}
    <3>1. dense[m] \cup bm25[m] = {v} BY <2>2 DEF Holds
    <3>2. Cardinality({v}) = 1 BY FS_Singleton
    <3>3. QED BY <3>1, <3>2 DEF FoundVersions
  <2>4. QED BY <2>1, <2>2, <2>3 DEF UpToDate, Recalled
<1>5. QED BY <1>2, <1>3, <1>4

\* What StoresCatchUp waits for is what completing a task means: however many
\* workers run and whatever fails, once the last task of a memory is completed
\* the stores show the memory as its row says (_project, _complete).  It takes
\* one kind of trouble only: an attempt whose lease expired and that fails after
\* the task was completed leaves a store behind.
THEOREM CompletedShown == ASSUME OneKindOfTrouble PROVE MemorySpec => []CompletedIsShown
<1>1. MemoryInit => ShowingInv
  <2> SUFFICES ASSUME MemoryInit PROVE ShowingInv OBVIOUS
  <2>1. OwnLeases BY DEF MemoryInit, Resting, OwnLeases
  <2>2. DoneIsStored
    <3>1. \A m \in Mems : ~Exists(m) BY DEF MemoryInit, NoMemory, Exists
    <3>2. QED BY <3>1 DEF DoneIsStored, Done, Active
  <2>3. QED BY <2>1, <2>2, MemoryBegins DEF ShowingInv
<1>2. ShowingInv /\ [MemoryNext]_memoryVars => ShowingInv' BY OneKindOfTrouble, ShowingStep
<1>3. QED BY <1>1, <1>2, Showing, PTL DEF MemorySpec

----------------------------------------------------------------------------
(***************************************************************************)
(* Exports.  The document of an export is only taken away once the export  *)
(* is overdue, and it is overdue only while no attempt at it is under way. *)
(***************************************************************************)

\* What is known of an event that was sent.
SentTo(e) ==
  /\ delivery[e] = [phase |-> delivery[e].phase, tries |-> delivery[e].tries, task |-> delivery[e].task]
  /\ X(e) \in Exports

Attempted(phase) == phase \in DeliveryPhases \ {"none", "waiting", "done"}

ExportsTyped ==
  /\ task \in [Exports -> [status : ExportStatuses, asset : BOOLEAN]]
  /\ delivery = [e \in Events |-> delivery[e]]
  /\ \A e \in Events : delivery[e].phase \in DeliveryPhases /\ (~At(e, "none") => SentTo(e))

ExportsInv ==
  /\ ExportsTyped
  /\ \A e \in Events : At(e, "commit") => X(e) \in stored
  /\ \A e \in Events, x \in Exports :
       Attempted(delivery[e].phase) /\ task[x].status = "succeeded" /\ x \in overdue => X(e) # x
  /\ \A x \in Exports : task[x].status = "succeeded" => task[x].asset /\ (x \notin overdue => x \in stored)

LEMMA ExportsStart == ASSUME ExportsInit PROVE ExportsInv
<1>1. ASSUME NEW x \in Exports PROVE task[x].status = "none" BY DEF ExportsInit
<1>2. ASSUME NEW e \in Events PROVE delivery[e].phase = "none" BY DEF ExportsInit
<1>3. delivery = [e \in Events |-> delivery[e]] BY DEF ExportsInit
<1>4. task \in [Exports -> [status : ExportStatuses, asset : BOOLEAN]]
  BY DEF ExportsInit, ExportStatuses
<1>5. QED BY <1>1, <1>2, <1>3, <1>4 DEF ExportsInv, ExportsTyped, At, Attempted, DeliveryPhases

\* An event goes on; its export does not become succeeded by it.
LEMMA GoingOnKeeps ==
  ASSUME ExportsInv, NEW e \in Events, NEW x \in Exports, NEW phase \in DeliveryPhases \ {"none"},
         NEW r, r = [phase |-> r.phase, tries |-> r.tries, task |-> r.task], r.phase = phase, r.task = x,
         delivery' = [delivery EXCEPT ![e] = r],
         task' \in [Exports -> [status : ExportStatuses, asset : BOOLEAN]],
         \A y \in Exports : task'[y] = task[y] \/ task'[y].status # "succeeded",
         UNCHANGED overdue, stored \subseteq stored', phase = "commit" => x \in stored',
         Attempted(phase) => \/ Attempted(delivery[e].phase) /\ X(e) = x
                             \/ task'[x].status # "succeeded"
  PROVE  ExportsInv'
<1>1. r.phase = phase /\ r.task = x /\ r = [phase |-> r.phase, tries |-> r.tries, task |-> r.task]
  OBVIOUS
<1>2. /\ delivery' = [f \in Events |-> delivery'[f]]
      /\ \A f \in Events : delivery'[f] = IF f = e THEN r ELSE delivery[f]
  BY DEF ExportsInv, ExportsTyped
<1>3. ExportsTyped'
  <2>1. ASSUME NEW f \in Events
        PROVE  delivery'[f].phase \in DeliveryPhases /\ (~At(f, "none") => SentTo(f))'
    BY <1>1, <1>2 DEF ExportsInv, ExportsTyped, At, SentTo, X
  <2>2. QED BY <1>2, <2>1 DEF ExportsTyped
<1>4. ASSUME NEW f \in Events, At(f, "commit")' PROVE X(f)' \in stored'
  BY <1>1, <1>2, <1>4 DEF ExportsInv, At, X
<1>5. ASSUME NEW f \in Events, NEW y \in Exports,
             Attempted(delivery'[f].phase), task'[y].status = "succeeded", y \in overdue'
      PROVE  X(f)' # y
  <2>1. task'[y] = task[y] BY <1>5
  <2>2. CASE f = e BY <1>1, <1>2, <1>5, <2>1, <2>2 DEF ExportsInv, X
  <2>3. CASE f # e BY <1>2, <1>5, <2>1, <2>3 DEF ExportsInv, X
  <2>4. QED BY <2>2, <2>3
<1>6. \A y \in Exports : task'[y].status = "succeeded" => task'[y].asset /\ (y \notin overdue' => y \in stored')
  BY DEF ExportsInv
<1>7. QED BY <1>3, <1>4, <1>5, <1>6 DEF ExportsInv

\* A step that sends nothing.
LEMMA Standing ==
  ASSUME ExportsInv, UNCHANGED delivery,
         task' \in [Exports -> [status : ExportStatuses, asset : BOOLEAN]],
         \A y \in Exports : task'[y].status = "succeeded" => task'[y] = task[y],
         \A y \in Exports : (y \notin stored' /\ y \in stored) =>
           task[y].status = "succeeded" /\ y \in overdue /\ task'[y].status # "succeeded",
         stored' \subseteq stored, overdue \subseteq overdue',
         \A y \in Exports : y \in overdue' /\ y \notin overdue =>
            \A e \in Events : Attempted(delivery[e].phase) => X(e) # y
  PROVE  ExportsInv'
<1>1. ExportsTyped' BY DEF ExportsInv, ExportsTyped, At, SentTo, X
<1>2. ASSUME NEW f \in Events, At(f, "commit")' PROVE X(f)' \in stored'
  <2>1. Attempted(delivery[f].phase) /\ At(f, "commit") /\ X(f) \in stored /\ X(f)' = X(f)
    BY <1>2 DEF At, ExportsInv, Attempted, DeliveryPhases, X
  <2>2. X(f) \in Exports BY <2>1 DEF ExportsInv, ExportsTyped, SentTo, At
  <2>3. QED BY <2>1, <2>2 DEF ExportsInv
<1>3. ASSUME NEW f \in Events, NEW y \in Exports,
             Attempted(delivery'[f].phase), task'[y].status = "succeeded", y \in overdue'
      PROVE  X(f)' # y
  BY <1>3 DEF ExportsInv, X
<1>4. \A y \in Exports : task'[y].status = "succeeded" => task'[y].asset /\ (y \notin overdue' => y \in stored')
  BY DEF ExportsInv
<1>5. QED BY <1>1, <1>2, <1>3, <1>4 DEF ExportsInv

LEMMA DeliveryFields ==
  ASSUME ExportsInv, NEW e \in Events, ~At(e, "none"), NEW phase
  PROVE  /\ X(e) \in Exports
         /\ [delivery EXCEPT ![e].phase = phase]
            = [delivery EXCEPT ![e] = [phase |-> phase, tries |-> delivery[e].tries, task |-> X(e)]]
         /\ [delivery EXCEPT ![e].tries = @ + 1, ![e].phase = phase]
            = [delivery EXCEPT ![e] = [phase |-> phase, tries |-> delivery[e].tries + 1, task |-> X(e)]]
<1>1. /\ delivery[e] = [phase |-> delivery[e].phase, tries |-> delivery[e].tries, task |-> X(e)]
      /\ X(e) \in Exports /\ delivery = [f \in Events |-> delivery[f]]
  BY DEF ExportsInv, ExportsTyped, SentTo, X
<1>2. [delivery EXCEPT ![e].phase = phase]
      = [delivery EXCEPT ![e] = [phase |-> phase, tries |-> delivery[e].tries, task |-> X(e)]]
  <2>1. [delivery[e] EXCEPT !.phase = phase] = [phase |-> phase, tries |-> delivery[e].tries, task |-> X(e)]
    BY <1>1
  <2>2. QED BY <1>1, <2>1
<1>3. [delivery EXCEPT ![e].tries = @ + 1, ![e].phase = phase]
      = [delivery EXCEPT ![e] = [phase |-> phase, tries |-> delivery[e].tries + 1, task |-> X(e)]]
  <2> DEFINE one == [delivery[e] EXCEPT !.tries = @ + 1]
             mid == [delivery EXCEPT ![e].tries = @ + 1]
             last == [phase |-> phase, tries |-> delivery[e].tries + 1, task |-> X(e)]
  <2>1. one = [phase |-> delivery[e].phase, tries |-> delivery[e].tries + 1, task |-> X(e)] BY <1>1
  <2>2. mid = [delivery EXCEPT ![e] = one] BY <1>1
  <2> HIDE DEF one
  <2>3. [one EXCEPT !.phase = phase] = last
    <3>1. one = [phase |-> one.phase, tries |-> one.tries, task |-> one.task]
          /\ one.tries = delivery[e].tries + 1 /\ one.task = X(e)
      BY <2>1
    <3> DEFINE two == [one EXCEPT !.phase = phase]
    <3>2. two = [phase |-> phase, tries |-> one.tries, task |-> one.task] BY <3>1
    <3> HIDE DEF two
    <3>3. two = last BY <3>1, <3>2
    <3>4. QED BY <3>3 DEF two
  <2>4. mid = [f \in Events |-> IF f = e THEN one ELSE delivery[f]] BY <1>1, <2>2
  <2> HIDE DEF mid, last
  <2>5. [mid EXCEPT ![e].phase = phase] = [delivery EXCEPT ![e] = last]
    <3>1. mid[e] = one BY <2>4
    <3>2. [mid EXCEPT ![e].phase = phase] = [mid EXCEPT ![e] = [one EXCEPT !.phase = phase]] BY <3>1
    <3>3. [mid EXCEPT ![e] = last] = [delivery EXCEPT ![e] = last] BY <1>1, <2>4
    <3>4. QED BY <2>3, <3>2, <3>3
  <2>6. QED BY <2>5 DEF mid, last
<1>4. QED BY <1>1, <1>2, <1>3

LEMMA MarkEffect ==
  ASSUME ExportsInv, NEW e \in Events, X(e) \in Exports, NEW status \in ExportStatuses, Mark(e, status)
  PROVE  /\ task' \in [Exports -> [status : ExportStatuses, asset : BOOLEAN]]
         /\ task'[X(e)].status = status
         /\ \A y \in Exports : y # X(e) => task'[y] = task[y]
<1>1. [task[X(e)] EXCEPT !.status = status] \in [status : ExportStatuses, asset : BOOLEAN]
      /\ [task[X(e)] EXCEPT !.status = status].status = status
  BY DEF ExportsInv, ExportsTyped
<1>2. task' = [task EXCEPT ![X(e)] = [task[X(e)] EXCEPT !.status = status]]
  BY DEF Mark, ExportsInv, ExportsTyped
<1> HIDE DEF X
<1>3. QED BY <1>1, <1>2 DEF ExportsInv, ExportsTyped

\* A request that is created, or one that is made again and takes the asset
\* and the expiry it has read away.
LEMMA Asking ==
  ASSUME ExportsInv, NEW x \in Exports, NEW e \in Events, Create(x, e) \/ WriteRetry(x, e)
  PROVE  /\ delivery' = [delivery EXCEPT ![e] = [phase |-> "waiting", tries |-> 0, task |-> x]]
         /\ At(e, "none") /\ UNCHANGED <<stored, lost, filed>>
         /\ task' \in [Exports -> [status : ExportStatuses, asset : BOOLEAN]]
         /\ task'[x].status = "queued" /\ \A y \in Exports : y # x => task'[y] = task[y]
         /\ overdue' = overdue \/ overdue' = overdue \ {x}
<1>1. CASE Create(x, e)
  <2>1. Queued \in [status : ExportStatuses, asset : BOOLEAN] /\ Queued.status = "queued"
    BY DEF Queued, ExportStatuses
  <2>2. QED BY <1>1, <2>1 DEF Create, Sent, At, ExportsInv, ExportsTyped
<1>2. CASE WriteRetry(x, e)
  <2>1. PICK had \in BOOLEAN :
          /\ task' = [task EXCEPT ![x] = [status |-> "queued", asset |-> ~had /\ task[x].asset]]
          /\ overdue' = IF had THEN overdue \ {x} ELSE overdue
    BY <1>2 DEF WriteRetry
  <2> DEFINE now == [status |-> "queued", asset |-> ~had /\ task[x].asset]
  <2>2. now \in [status : ExportStatuses, asset : BOOLEAN] /\ now.status = "queued" BY DEF ExportStatuses
  <2>3. task' = [task EXCEPT ![x] = now] BY <2>1
  <2> HIDE DEF now
  <2>4. QED BY <1>2, <2>1, <2>2, <2>3 DEF WriteRetry, Sent, At, ExportsInv, ExportsTyped
<1>3. QED BY <1>1, <1>2

LEMMA SendingKeeps ==
  ASSUME ExportsInv, NEW x \in Exports, NEW e \in Events, Create(x, e) \/ WriteRetry(x, e) PROVE ExportsInv'
<1> DEFINE r == [phase |-> "waiting", tries |-> 0, task |-> x]
<1>1. /\ delivery' = [delivery EXCEPT ![e] = r]
      /\ task' \in [Exports -> [status : ExportStatuses, asset : BOOLEAN]]
      /\ task'[x].status = "queued" /\ \A y \in Exports : y # x => task'[y] = task[y]
      /\ UNCHANGED stored /\ (overdue' = overdue \/ overdue' = overdue \ {x})
  BY Asking
<1>2. r.phase = "waiting" /\ r.task = x /\ r = [phase |-> r.phase, tries |-> r.tries, task |-> r.task]
      /\ ~Attempted("waiting") /\ "waiting" \in DeliveryPhases
  BY DEF Attempted, DeliveryPhases
<1> HIDE DEF r
<1>3. /\ delivery' = [f \in Events |-> delivery'[f]]
      /\ \A f \in Events : delivery'[f] = IF f = e THEN r ELSE delivery[f]
  BY <1>1 DEF ExportsInv, ExportsTyped
<1>4. ExportsTyped'
  <2>1. ASSUME NEW f \in Events
        PROVE  delivery'[f].phase \in DeliveryPhases /\ (~At(f, "none") => SentTo(f))'
    BY <1>2, <1>3 DEF ExportsInv, ExportsTyped, At, SentTo, X
  <2>2. QED BY <1>1, <1>3, <2>1 DEF ExportsTyped
<1>5. ASSUME NEW f \in Events, At(f, "commit")' PROVE X(f)' \in stored'
  BY <1>1, <1>2, <1>3, <1>5 DEF ExportsInv, At, X
<1>6. ASSUME NEW f \in Events, NEW y \in Exports,
             Attempted(delivery'[f].phase), task'[y].status = "succeeded", y \in overdue'
      PROVE  X(f)' # y
  BY <1>1, <1>2, <1>3, <1>6 DEF ExportsInv, X
<1>7. \A y \in Exports : task'[y].status = "succeeded" => task'[y].asset /\ (y \notin overdue' => y \in stored')
  BY <1>1 DEF ExportsInv
<1>8. QED BY <1>4, <1>5, <1>6, <1>7 DEF ExportsInv

\* A phase of an event, its export unchanged or marked with another status.
LEMMA ToKeeps ==
  ASSUME ExportsInv, NEW e \in Events, ~At(e, "none"), NEW phase \in DeliveryPhases \ {"none"},
         \/ To(e, phase)
         \/ delivery' = [delivery EXCEPT ![e].tries = @ + 1, ![e].phase = phase],
         \/ UNCHANGED task
         \/ \E status \in ExportStatuses \ {"succeeded"} : Mark(e, status),
         UNCHANGED overdue, stored \subseteq stored', phase = "commit" => X(e) \in stored',
         Attempted(phase) => Attempted(delivery[e].phase) \/ Mark(e, "running")
  PROVE  ExportsInv'
<1>1. X(e) \in Exports BY DeliveryFields
<1>2. PICK r : /\ r = [phase |-> r.phase, tries |-> r.tries, task |-> r.task] /\ r.phase = phase /\ r.task = X(e)
               /\ delivery' = [delivery EXCEPT ![e] = r]
  <2>1. ASSUME NEW n PROVE LET r == [phase |-> phase, tries |-> n, task |-> X(e)]
                           IN r = [phase |-> r.phase, tries |-> r.tries, task |-> r.task]
                              /\ r.phase = phase /\ r.task = X(e)
    OBVIOUS
  <2>2. CASE To(e, phase)
    <3>1. delivery' = [delivery EXCEPT ![e] = [phase |-> phase, tries |-> delivery[e].tries, task |-> X(e)]]
      BY <2>2, DeliveryFields, Zenon DEF To
    <3>2. QED BY <2>1, <3>1, Zenon
  <2>3. CASE delivery' = [delivery EXCEPT ![e].tries = @ + 1, ![e].phase = phase]
    <3>1. delivery' = [delivery EXCEPT ![e] = [phase |-> phase, tries |-> delivery[e].tries + 1, task |-> X(e)]]
      BY <2>3, DeliveryFields, Zenon
    <3>2. QED BY <2>1, <3>1, Zenon
  <2>4. QED BY <2>2, <2>3
<1>3. "running" \in ExportStatuses BY DEF ExportStatuses
<1>4. /\ task' \in [Exports -> [status : ExportStatuses, asset : BOOLEAN]]
      /\ \A y \in Exports : task'[y] = task[y] \/ task'[y].status # "succeeded"
      /\ Mark(e, "running") => task'[X(e)].status = "running"
  BY <1>1, <1>3, MarkEffect DEF ExportsInv, ExportsTyped
<1>5. Attempted(phase) => Attempted(delivery[e].phase) \/ task'[X(e)].status # "succeeded" BY <1>4
<1> DEFINE x == X(e)
<1>6. /\ x \in Exports /\ r.task = x
      /\ phase = "commit" => x \in stored'
      /\ Attempted(phase) => \/ Attempted(delivery[e].phase) /\ X(e) = x
                             \/ task'[x].status # "succeeded"
  BY <1>1, <1>2, <1>5
<1> HIDE DEF x
<1>7. /\ stored \subseteq stored' /\ overdue' = overdue /\ r.phase = phase
      /\ r = [phase |-> r.phase, tries |-> r.tries, task |-> r.task]
      /\ delivery' = [delivery EXCEPT ![e] = r]
  BY <1>2
<1>8. QED BY <1>4, <1>6, <1>7, GoingOnKeeps

LEMMA WorkingKeeps ==
  ASSUME ExportsInv, NEW e \in Events,
         \/ StartAttempt(e) \/ Render(e) \/ AssetRefused(e) \/ PrepareRetry(e) \/ ReadFailure(e)
         \/ FinalizeFailure(e) \/ CrashExport(e)
  PROVE  ExportsInv'
<1>0. /\ {"waiting", "render", "commit", "retry", "finalize", "write_failed", "done"} = DeliveryPhases \ {"none"}
      /\ {"running", "queued", "failed"} \subseteq ExportStatuses \ {"succeeded"}
      /\ ~Attempted("waiting") /\ ~Attempted("done")
      /\ \A p \in {"render", "commit", "retry", "finalize", "write_failed"} : Attempted(p)
  BY DEF DeliveryPhases, ExportStatuses, Attempted
<1>1. CASE StartAttempt(e)
  <2>1. At(e, "waiting") /\ ~At(e, "none") /\ UNCHANGED <<stored, overdue>> BY <1>1 DEF StartAttempt, At
  <2>2. CASE Mark(e, "running") /\ To(e, "render") BY <1>0, <2>1, <2>2, ToKeeps
  <2>3. CASE To(e, "done") /\ UNCHANGED task BY <1>0, <2>1, <2>3, ToKeeps
  <2>4. QED BY <1>1, <2>2, <2>3 DEF StartAttempt
<1>2. CASE Render(e)
  <2>1. ~At(e, "none") /\ Attempted(delivery[e].phase) /\ UNCHANGED <<task, overdue>>
    BY <1>0, <1>2 DEF Render, At
  <2>2. CASE stored' = stored \cup {X(e)} /\ To(e, "commit") BY <1>0, <2>1, <2>2, ToKeeps
  <2>3. CASE UNCHANGED stored /\ To(e, "retry") BY <1>0, <2>1, <2>3, ToKeeps
  <2>4. QED BY <1>2, <2>2, <2>3 DEF Render, OnFailure
<1>3. CASE PrepareRetry(e)
  <2>1. /\ ~At(e, "none") /\ Attempted(delivery[e].phase) /\ Mark(e, "queued")
        /\ UNCHANGED <<stored, overdue>>
    BY <1>0, <1>3 DEF PrepareRetry, At, RetryStatus
  <2>2. CASE delivery' = [delivery EXCEPT ![e].tries = @ + 1, ![e].phase = "waiting"]
    BY <1>0, <2>1, <2>2, ToKeeps
  <2>3. CASE To(e, "finalize") BY <1>0, <2>1, <2>3, ToKeeps
  <2>4. QED BY <1>3, <2>2, <2>3 DEF PrepareRetry, Rejected, To
<1>4. CASE ReadFailure(e)
  <2>1. ~At(e, "none") /\ Attempted(delivery[e].phase) /\ UNCHANGED <<task, stored, overdue>>
    BY <1>0, <1>4 DEF ReadFailure, At
  <2>2. To(e, "write_failed") \/ To(e, "done") BY <1>4 DEF ReadFailure
  <2>3. QED BY <1>0, <2>1, <2>2, ToKeeps
<1>5. CASE FinalizeFailure(e)
  <2>1. /\ ~At(e, "none") /\ Mark(e, "failed") /\ To(e, "done") /\ UNCHANGED <<stored, overdue>>
    BY <1>5 DEF FinalizeFailure, At
  <2>2. QED BY <1>0, <2>1, ToKeeps
<1>6. CASE CrashExport(e)
  <2>1. ~At(e, "none") /\ To(e, "waiting") /\ UNCHANGED <<task, stored, overdue>>
    BY <1>6 DEF CrashExport, At
  <2>2. QED BY <1>0, <2>1, ToKeeps
<1>7. CASE AssetRefused(e)
  <2>1. ~At(e, "none") /\ Attempted(delivery[e].phase) /\ UNCHANGED <<task, stored, overdue>>
    BY <1>0, <1>7 DEF AssetRefused, At
  <2>2. CASE delivery' = [delivery EXCEPT ![e].tries = @ + 1, ![e].phase = "waiting"]
    BY <1>0, <2>1, <2>2, ToKeeps
  <2>3. CASE To(e, "finalize") BY <1>0, <2>1, <2>3, ToKeeps
  <2>4. QED BY <1>7, <2>2, <2>3 DEF AssetRefused, Rejected, To
<1>8. QED BY <1>1, <1>2, <1>3, <1>4, <1>5, <1>6, <1>7

LEMMA CompleteExportKeeps == ASSUME ExportsInv, NEW e \in Events, CompleteExport(e) PROVE ExportsInv'
<1> DEFINE r == [phase |-> "done", tries |-> delivery[e].tries, task |-> X(e)]
           t == [status |-> "succeeded", asset |-> TRUE]
           x == X(e)
<1>1. At(e, "commit") /\ ~At(e, "none") /\ x \in stored BY DEF CompleteExport, At, ExportsInv
<1>2. /\ x \in Exports /\ delivery' = [delivery EXCEPT ![e] = r] /\ task' = [task EXCEPT ![x] = t]
      /\ overdue' = overdue \ {x} /\ UNCHANGED stored
  BY <1>1, DeliveryFields DEF CompleteExport, To
<1>3. r.phase = "done" /\ r.task = x /\ r = [phase |-> r.phase, tries |-> r.tries, task |-> r.task]
  OBVIOUS
<1>4. t \in [status : ExportStatuses, asset : BOOLEAN] /\ t.status = "succeeded" /\ t.asset
  BY DEF ExportStatuses
<1> HIDE DEF r, t, x
<1>5. /\ delivery' = [f \in Events |-> delivery'[f]]
      /\ \A f \in Events : delivery'[f] = IF f = e THEN r ELSE delivery[f]
      /\ task' \in [Exports -> [status : ExportStatuses, asset : BOOLEAN]]
      /\ \A y \in Exports : task'[y] = IF y = x THEN t ELSE task[y]
  BY <1>2, <1>4 DEF ExportsInv, ExportsTyped
<1>6. "done" \in DeliveryPhases /\ ~Attempted("done") BY DEF DeliveryPhases, Attempted
<1>7. ExportsTyped'
  <2>1. ASSUME NEW f \in Events
        PROVE  delivery'[f].phase \in DeliveryPhases /\ (~At(f, "none") => SentTo(f))'
    BY <1>2, <1>3, <1>5, <1>6 DEF ExportsInv, ExportsTyped, At, SentTo, X
  <2>2. QED BY <1>5, <2>1 DEF ExportsTyped
<1>8. ASSUME NEW f \in Events, At(f, "commit")' PROVE X(f)' \in stored'
  BY <1>2, <1>3, <1>5, <1>8 DEF ExportsInv, At, X
<1>9. ASSUME NEW f \in Events, NEW y \in Exports,
             Attempted(delivery'[f].phase), task'[y].status = "succeeded", y \in overdue'
      PROVE  X(f)' # y
  BY <1>2, <1>3, <1>5, <1>6, <1>9 DEF ExportsInv, X
<1>10. \A y \in Exports : task'[y].status = "succeeded" => task'[y].asset /\ (y \notin overdue' => y \in stored')
  BY <1>1, <1>2, <1>4, <1>5 DEF ExportsInv
<1>11. QED BY <1>7, <1>8, <1>9, <1>10 DEF ExportsInv

LEMMA ExportsStep == ExportsInv /\ [ExportsNext]_exportVars => ExportsInv'
<1> SUFFICES ASSUME ExportsInv, [ExportsNext]_exportVars PROVE ExportsInv' OBVIOUS
<1>1. CASE UNCHANGED exportVars BY <1>1, Standing DEF exportVars, ExportsInv, ExportsTyped
<1>2. CASE \E x \in Exports, e \in Events : Create(x, e) \/ WriteRetry(x, e) BY <1>2, SendingKeeps
<1>3. CASE \E e \in Events : RunExport(e) \/ CrashExport(e)
  BY <1>3, WorkingKeeps, CompleteExportKeeps DEF RunExport
<1>4. ASSUME NEW x \in Exports, LoadRetry(x) PROVE ExportsInv'
  BY <1>4, Standing DEF LoadRetry, ExportsInv, ExportsTyped
<1>5. ASSUME NEW x \in Exports, ExportExpires(x) PROVE ExportsInv'
  <2>1. /\ UNCHANGED <<task, stored, delivery>> /\ overdue' = overdue \cup {x}
        /\ \A e \in Events : Attempted(delivery[e].phase) => X(e) # x
    BY <1>5 DEF ExportExpires, Attempted
  <2>2. QED BY <2>1, Standing DEF ExportsInv, ExportsTyped
<1>6. CASE ExpireSucceeded
  <2> DEFINE late == {x \in overdue : task[x].status = "succeeded"}
             new(x) == IF x \in late THEN [task[x] EXCEPT !.status = "expired"] ELSE task[x]
  <2>1. PICK gone \in SUBSET late : stored' = stored \ gone BY <1>6 DEF ExpireSucceeded
  <2>2. task' = [x \in Exports |-> new(x)] /\ UNCHANGED <<overdue, delivery>> BY <1>6 DEF ExpireSucceeded
  <2>3. ASSUME NEW x \in Exports
        PROVE  /\ new(x) \in [status : ExportStatuses, asset : BOOLEAN]
               /\ IF x \in late THEN new(x).status = "expired" ELSE new(x) = task[x]
    <3>1. task[x] \in [status : ExportStatuses, asset : BOOLEAN] BY DEF ExportsInv, ExportsTyped
    <3>2. [task[x] EXCEPT !.status = "expired"] \in [status : ExportStatuses, asset : BOOLEAN]
          /\ [task[x] EXCEPT !.status = "expired"].status = "expired"
      BY <3>1 DEF ExportStatuses
    <3>3. QED BY <3>1, <3>2
  <2> HIDE DEF new
  <2>4. /\ task' \in [Exports -> [status : ExportStatuses, asset : BOOLEAN]]
        /\ \A x \in Exports : IF x \in late THEN task'[x].status = "expired" ELSE task'[x] = task[x]
    BY <2>2, <2>3
  <2>5. \A y \in Exports : task'[y].status = "succeeded" => task'[y] = task[y] BY <2>4
  <2>6. \A y \in Exports : y \notin stored' /\ y \in stored =>
          task[y].status = "succeeded" /\ y \in overdue /\ task'[y].status # "succeeded"
    BY <2>1, <2>4
  <2>7. QED BY <2>1, <2>2, <2>4, <2>5, <2>6, Standing
<1>7. QED BY <1>1, <1>2, <1>3, <1>4, <1>5, <1>6 DEF ExportsNext

LEMMA Leading == ExportsInv => LinksWork
BY DEF ExportsInv, LinksWork, Downloadable

\* However deliveries repeat, fail and lose their worker while documents
\* expire, a link that is given leads to a document that is stored.
THEOREM LinksLead == ExportsSpec => []LinksWork
<1>1. ExportsInit => ExportsInv BY ExportsStart
<1>2. QED BY <1>1, Leading, ExportsStep, PTL DEF ExportsSpec

\* The tries of a delivery are below the limit.
Limited ==
  /\ stored \subseteq Exports /\ overdue \subseteq Exports
  /\ lost \subseteq Exports /\ filed \subseteq Exports
  /\ retries \subseteq Exports \X BOOLEAN
  /\ \A e \in Events : delivery[e].tries \in 0..(MaxTries - 1)

LEMMA ExportsTypes == ASSUME ExportsInv, Limited PROVE ExportsTypeOK
BY DEF ExportsInv, ExportsTyped, Limited, ExportsTypeOK, SentTo, At, X

LEMMA LimitedStart == ASSUME ExportsInit PROVE Limited
<1>1. \A e \in Events : delivery[e].tries = 0 BY DEF ExportsInit
<1>2. QED BY <1>1, ExportsAssumption DEF ExportsInit, Limited

LEMMA LimitedKeeps == ASSUME ExportsInv, Limited, [ExportsNext]_exportVars PROVE Limited'
<1> DEFINE Tried == \A f \in Events : delivery'[f].tries \in 0..(MaxTries - 1)
<1>1. MaxTries \in Nat \ {0} BY ExportsAssumption
<1>2. CASE UNCHANGED exportVars BY <1>2 DEF exportVars, Limited
<1>3. ASSUME NEW e \in Events, NEW r, r.tries \in 0..(MaxTries - 1), delivery' = [delivery EXCEPT ![e] = r]
      PROVE  Tried
  BY <1>3 DEF Limited, ExportsInv, ExportsTyped
<1>4. ASSUME NEW e \in Events, ~At(e, "none"), NEW phase, To(e, phase) PROVE Tried
  <2>1. delivery' = [delivery EXCEPT ![e] = [phase |-> phase, tries |-> delivery[e].tries, task |-> X(e)]]
    BY <1>4, DeliveryFields DEF To
  <2> HIDE DEF Tried
  <2>2. QED BY <1>3, <2>1 DEF Limited
<1>5. ASSUME NEW e \in Events, RunExport(e) \/ CrashExport(e)
      PROVE  ~At(e, "none") /\ X(e) \in Exports
  <2>1. ~At(e, "none")
    BY <1>5 DEF RunExport, StartAttempt, Render, CompleteExport, AssetRefused, PrepareRetry, ReadFailure,
                FinalizeFailure, CrashExport, At
  <2>2. QED BY <2>1 DEF ExportsInv, ExportsTyped, SentTo
<1>6. ASSUME NEW x \in Exports, NEW e \in Events, Create(x, e) \/ WriteRetry(x, e) PROVE Limited'
  <2>1. Tried
    <3> DEFINE first == [phase |-> "waiting", tries |-> 0, task |-> x]
    <3>1. delivery' = [delivery EXCEPT ![e] = first] BY <1>6, Asking
    <3>2. first.tries = 0 OBVIOUS
    <3>3. first.tries \in 0..(MaxTries - 1) BY <1>1, <3>2
    <3> HIDE DEF Tried, first
    <3>4. QED BY <1>3, <3>1, <3>3
  <2>2. UNCHANGED <<stored, retries, lost, filed>> /\ overdue' \subseteq overdue
    BY <1>6, Asking DEF Create, WriteRetry
  <2>3. QED BY <1>1, <2>1, <2>2 DEF Limited
<1>7. ASSUME NEW e \in Events, StartAttempt(e) \/ Render(e) \/ CompleteExport(e) \/ ReadFailure(e) \/ FinalizeFailure(e)
      PROVE  Limited'
  <2>1. ~At(e, "none") /\ X(e) \in Exports BY <1>5, <1>7 DEF RunExport
  <2>2. \E phase : To(e, phase)
    BY <1>7 DEF StartAttempt, Render, CompleteExport, ReadFailure, FinalizeFailure
  <2>3. Tried BY <1>4, <2>1, <2>2
  <2>4. /\ stored' = stored \/ stored' = stored \cup {X(e)}
        /\ filed' = filed \/ filed' = filed \cup {X(e)}
        /\ overdue' = overdue \/ overdue' = overdue \ {X(e)}
        /\ UNCHANGED <<retries, lost>>
    BY <1>7 DEF StartAttempt, Render, CompleteExport, ReadFailure, FinalizeFailure
  <2>5. QED BY <2>1, <2>3, <2>4 DEF Limited
<1>8. ASSUME NEW e \in Events, PrepareRetry(e) \/ AssetRefused(e) PROVE Limited'
  <2>1. ~At(e, "none") BY <1>5, <1>8 DEF RunExport
  <2> DEFINE again == [phase |-> "waiting", tries |-> delivery[e].tries + 1, task |-> X(e)]
             finally == [phase |-> "finalize", tries |-> delivery[e].tries, task |-> X(e)]
  <2>2. \/ delivery[e].tries + 1 < MaxTries /\ delivery' = [delivery EXCEPT ![e] = again]
        \/ delivery' = [delivery EXCEPT ![e] = finally]
    BY <1>8, <2>1, DeliveryFields DEF PrepareRetry, AssetRefused, Rejected
  <2>3. delivery[e].tries \in 0..(MaxTries - 1) BY DEF Limited
  <2>4. Tried
    <3>1. again.tries = delivery[e].tries + 1 /\ finally.tries = delivery[e].tries OBVIOUS
    <3> HIDE DEF Tried, again, finally
    <3>2. QED BY <1>1, <1>3, <2>2, <2>3, <3>1
  <2>5. QED BY <1>8, <2>4 DEF PrepareRetry, AssetRefused, Limited
<1>9. ASSUME NEW e \in Events, CrashExport(e) PROVE Limited'
  <2>1. ~At(e, "none") /\ X(e) \in Exports BY <1>5, <1>9
  <2>2. Tried BY <1>4, <1>9, <2>1 DEF CrashExport
  <2>3. QED BY <1>9, <2>1, <2>2 DEF CrashExport, Limited
<1>10. ASSUME NEW x \in Exports, LoadRetry(x) PROVE Limited'
  BY <1>10 DEF LoadRetry, Limited, ExportsInv, ExportsTyped
<1>11. ASSUME NEW x \in Exports, ExportExpires(x) PROVE Limited'
  BY <1>11 DEF ExportExpires, Limited
<1>12. CASE ExpireSucceeded BY <1>12 DEF ExpireSucceeded, Limited
<1>13. QED BY <1>2, <1>6, <1>7, <1>8, <1>9, <1>10, <1>11, <1>12 DEF ExportsNext, RunExport

\* Export tasks, deliveries and their tries, and requests to retry keep their
\* types: no delivery is made more than MaxTries times.
THEOREM ExportsTypeCorrect == ExportsSpec => []ExportsTypeOK
<1>1. ExportsInit => ExportsInv /\ Limited BY ExportsStart, LimitedStart
<1>2. ExportsInv /\ Limited /\ [ExportsNext]_exportVars => (ExportsInv /\ Limited)'
  BY ExportsStep, LimitedKeeps
<1>3. ExportsInv /\ Limited => ExportsTypeOK BY ExportsTypes
<1>4. QED BY <1>1, <1>2, <1>3, PTL DEF ExportsSpec

----------------------------------------------------------------------------
(* Requests are in hand *)

\* A delivery of the event will still look at the export, or works on it.
InHand(e, x) == delivery[e].phase \notin {"none", "done"} /\ X(e) = x

AtWork(e, x) == delivery[e].phase \in {"render", "commit", "retry"} /\ X(e) = x

\* Its worker was lost, or its document was recorded once before.
Given(x) == x \in lost \/ x \in filed

Served(x) ==
  /\ task[x].status = "queued" => \E e \in Events : InHand(e, x)
  /\ task[x].status = "running" /\ ~Given(x) => \E e \in Events : AtWork(e, x)

RequestsAreInHand == \A x \in Exports : Served(x)

\* A step of one delivery leaves the exports of the others served.
LEMMA OthersServed ==
  ASSUME ExportsInv, RequestsAreInHand,
         NEW e \in Events, NEW r, delivery' = [delivery EXCEPT ![e] = r],
         NEW x \in Exports, ~InHand(e, x), task'[x] = task[x], lost \subseteq lost', filed \subseteq filed'
  PROVE  Served(x)'
<1>1. \A f \in Events : f # e => delivery'[f] = delivery[f] BY DEF ExportsInv, ExportsTyped
<1>2. ASSUME NEW f \in Events, InHand(f, x) PROVE InHand(f, x)' /\ (AtWork(f, x) => AtWork(f, x)')
  BY <1>1, <1>2 DEF InHand, AtWork, X
<1>3. \A f \in Events : AtWork(f, x) => InHand(f, x) BY DEF AtWork, InHand
<1>4. Served(x) BY DEF RequestsAreInHand
<1>5. Given(x) => Given(x)' BY DEF Given
<1>6. QED BY <1>2, <1>3, <1>4, <1>5 DEF Served

\* The delivery itself, after it has gone on.
LEMMA GoneOn ==
  ASSUME ExportsInv, NEW e \in Events, ~At(e, "none"), NEW phase, To(e, phase)
  PROVE  /\ delivery'[e].phase = phase /\ X(e)' = X(e) /\ X(e) \in Exports
         /\ \A f \in Events : f # e => delivery'[f] = delivery[f]
<1>1. delivery' = [delivery EXCEPT ![e] = [phase |-> phase, tries |-> delivery[e].tries, task |-> X(e)]]
  BY DeliveryFields DEF To
<1>2. X(e) \in Exports BY DEF ExportsInv, ExportsTyped, SentTo
<1> DEFINE now == [phase |-> phase, tries |-> delivery[e].tries, task |-> X(e)]
<1>3. now.phase = phase /\ now.task = X(e) OBVIOUS
<1> HIDE DEF now
<1>4. delivery'[e] = now /\ \A f \in Events : f # e => delivery'[f] = delivery[f]
  BY <1>1 DEF ExportsInv, ExportsTyped, now
<1>5. X(e)' = delivery'[e].task BY DEF X
<1>6. QED BY <1>2, <1>3, <1>4, <1>5

\* The same for a delivery that is under way and goes on.
LEMMA GoesOn ==
  ASSUME ExportsInv, RequestsAreInHand, NEW e \in Events, ~At(e, "none"), NEW phase, To(e, phase),
         lost \subseteq lost', filed \subseteq filed', Served(X(e))',
         \A y \in Exports : y # X(e) => task'[y] = task[y]
  PROVE  RequestsAreInHand'
<1> DEFINE now == [phase |-> phase, tries |-> delivery[e].tries, task |-> X(e)]
<1>1. delivery' = [delivery EXCEPT ![e] = now] BY DeliveryFields DEF To
<1> HIDE DEF now
<1>2. ASSUME NEW x \in Exports, x # X(e) PROVE Served(x)'
  <2>1. ~InHand(e, x) /\ task'[x] = task[x] BY <1>2 DEF InHand
  <2>2. QED BY <1>1, <2>1, OthersServed
<1>3. ASSUME NEW x \in Exports, x = X(e) PROVE Served(x)'
  <2>1. X(e)' = x BY <1>3, GoneOn
  <2>2. QED BY <2>1 DEF Served, InHand, AtWork, Given
<1>4. QED BY <1>2, <1>3 DEF RequestsAreInHand

\* A delivery that finds nothing to do leaves the export to whoever works on it.
LEMMA LeftAlone ==
  ASSUME ExportsInv, RequestsAreInHand, NEW e \in Events, ~At(e, "none"), ~AtWork(e, X(e)),
         To(e, "done"), task[X(e)].status # "queued", UNCHANGED <<task, lost, filed>>
  PROVE  RequestsAreInHand'
<1>1. X(e) \in Exports /\ X(e)' = X(e) /\ \A f \in Events : f # e => delivery'[f] = delivery[f] BY GoneOn
<1>2. ASSUME task[X(e)].status = "running", ~Given(X(e)) PROVE \E f \in Events : AtWork(f, X(e))'
  <2>1. PICK f \in Events : AtWork(f, X(e)) BY <1>1, <1>2 DEF RequestsAreInHand, Served
  <2>2. f # e BY <2>1
  <2>3. AtWork(f, X(e))' BY <1>1, <2>1, <2>2 DEF AtWork, X
  <2>4. QED BY <2>3
<1>3. Given(X(e))' = Given(X(e)) BY <1>1 DEF Given
<1>4. Served(X(e))' BY <1>1, <1>2, <1>3 DEF Served
<1>5. QED BY <1>4, GoesOn

\* A delivery that is rejected while its export is queued, or in the way of an
\* export whose document was recorded before.
LEMMA RejectedServed ==
  ASSUME ExportsInv, RequestsAreInHand, NEW e \in Events, ~At(e, "none"), Rejected(e),
         UNCHANGED <<lost, filed>>, task'[X(e)].status = "queued" \/ Given(X(e)),
         \A y \in Exports : y # X(e) => task'[y] = task[y]
  PROVE  RequestsAreInHand'
<1>1. PICK r : r.phase \in {"waiting", "finalize"} /\ r.task = X(e) /\ delivery' = [delivery EXCEPT ![e] = r]
  <2>1. CASE delivery' = [delivery EXCEPT ![e].tries = @ + 1, ![e].phase = "waiting"]
    <3>1. delivery' = [delivery EXCEPT ![e] = [phase |-> "waiting", tries |-> delivery[e].tries + 1, task |-> X(e)]]
      BY <2>1, DeliveryFields
    <3>2. QED BY <3>1
  <2>2. CASE delivery' = [delivery EXCEPT ![e].phase = "finalize"]
    <3>1. delivery' = [delivery EXCEPT ![e] = [phase |-> "finalize", tries |-> delivery[e].tries, task |-> X(e)]]
      BY <2>2, DeliveryFields
    <3>2. QED BY <3>1
  <2>3. QED BY <2>1, <2>2 DEF Rejected
<1>2. X(e) \in Exports /\ delivery'[e] = r BY <1>1 DEF ExportsInv, ExportsTyped, SentTo
<1>3. InHand(e, X(e))' /\ X(e)' = X(e) BY <1>1, <1>2 DEF InHand, X
<1>4. ASSUME NEW x \in Exports, x # X(e) PROVE Served(x)'
  <2>1. ~InHand(e, x) /\ task'[x] = task[x] BY <1>4 DEF InHand
  <2>2. QED BY <1>1, <2>1, OthersServed
<1>5. ASSUME NEW x \in Exports, x = X(e) PROVE Served(x)'
  <2>1. Given(x) => Given(x)' BY DEF Given
  <2>2. InHand(e, x)' BY <1>3, <1>5 DEF InHand
  <2>3. QED BY <1>5, <2>1, <2>2 DEF Served
<1>6. QED BY <1>4, <1>5 DEF RequestsAreInHand

LEMMA MarkedOnly ==
  ASSUME ExportsInv, NEW e \in Events, X(e) \in Exports, NEW status, Mark(e, status)
  PROVE  task'[X(e)].status = status /\ \A y \in Exports : y # X(e) => task'[y] = task[y]
BY DEF ExportsInv, ExportsTyped, Mark

LEMMA InHandStep ==
  ASSUME ExportsInv, RequestsAreInHand, [ExportsNext]_exportVars PROVE RequestsAreInHand'
<1>1. CASE UNCHANGED exportVars
  BY <1>1 DEF exportVars, RequestsAreInHand, Served, InHand, AtWork, Given, X
<1>2. ASSUME NEW x \in Exports, NEW e \in Events, Create(x, e) \/ WriteRetry(x, e) PROVE RequestsAreInHand'
  <2> DEFINE first == [phase |-> "waiting", tries |-> 0, task |-> x]
  <2>1. /\ At(e, "none") /\ delivery' = [delivery EXCEPT ![e] = first] /\ UNCHANGED <<lost, filed>>
        /\ task'[x].status = "queued" /\ \A y \in Exports : y # x => task'[y] = task[y]
    BY <1>2, Asking
  <2>2. delivery'[e] = first BY <2>1 DEF ExportsInv, ExportsTyped
  <2>3. Served(x)' BY <2>1, <2>2 DEF Served, InHand, X
  <2> HIDE DEF first
  <2>4. ASSUME NEW y \in Exports, y # x PROVE Served(y)'
    <3>1. ~InHand(e, y) /\ task'[y] = task[y] BY <2>1, <2>4 DEF InHand, At
    <3>2. QED BY <2>1, <3>1, OthersServed
  <2>5. QED BY <2>3, <2>4 DEF RequestsAreInHand
<1>3. ASSUME NEW e \in Events, StartAttempt(e) PROVE RequestsAreInHand'
  <2>1. At(e, "waiting") /\ ~At(e, "none") /\ ~AtWork(e, X(e)) /\ UNCHANGED <<lost, filed>>
    BY <1>3 DEF StartAttempt, At, AtWork
  <2>2. CASE Mark(e, "running") /\ To(e, "render")
    <3>1. delivery'[e].phase = "render" /\ X(e)' = X(e) /\ X(e) \in Exports BY <2>1, <2>2, GoneOn
    <3>2. task'[X(e)].status = "running" /\ \A y \in Exports : y # X(e) => task'[y] = task[y]
      BY <2>2, <3>1, MarkedOnly
    <3>3. Served(X(e))' BY <3>1, <3>2 DEF Served, AtWork
    <3>4. QED BY <2>1, <2>2, <3>2, <3>3, GoesOn
  <2>3. CASE task[X(e)].status # "queued" /\ To(e, "done") /\ UNCHANGED task BY <2>1, <2>3, LeftAlone
  <2>4. QED BY <1>3, <2>2, <2>3 DEF StartAttempt
<1>4. ASSUME NEW e \in Events, Render(e) PROVE RequestsAreInHand'
  <2>1. ~At(e, "none") /\ UNCHANGED <<task, lost, filed>> BY <1>4 DEF Render, At
  <2>2. PICK phase \in {"commit", "retry"} : To(e, phase) BY <1>4 DEF Render, OnFailure
  <2>3. delivery'[e].phase = phase /\ X(e)' = X(e) BY <2>1, <2>2, GoneOn
  <2>4. Served(X(e))' BY <2>3 DEF Served, InHand, AtWork
  <2>5. QED BY <2>1, <2>2, <2>4, GoesOn
<1>5. ASSUME NEW e \in Events, CompleteExport(e) PROVE RequestsAreInHand'
  <2>1. ~At(e, "none") /\ To(e, "done") /\ lost' = lost /\ filed' = filed \cup {X(e)}
    BY <1>5 DEF CompleteExport, At
  <2>2. X(e) \in Exports /\ X(e)' = X(e) BY <2>1, GoneOn
  <2>3. task'[X(e)].status = "succeeded" /\ \A y \in Exports : y # X(e) => task'[y] = task[y]
    BY <1>5, <2>2 DEF CompleteExport, ExportsInv, ExportsTyped
  <2>4. Served(X(e))' BY <2>2, <2>3 DEF Served
  <2>5. QED BY <2>1, <2>3, <2>4, GoesOn
<1>6. ASSUME NEW e \in Events, AssetRefused(e) PROVE RequestsAreInHand'
  <2>1. ~At(e, "none") /\ Rejected(e) /\ Given(X(e)) /\ UNCHANGED <<task, lost, filed>>
    BY <1>6 DEF AssetRefused, At, Given
  <2>2. QED BY <2>1, RejectedServed
<1>7. ASSUME NEW e \in Events, PrepareRetry(e) PROVE RequestsAreInHand'
  <2>1. ~At(e, "none") /\ Mark(e, "queued") /\ Rejected(e) /\ UNCHANGED <<lost, filed>>
    BY <1>7 DEF PrepareRetry, At, RetryStatus
  <2>2. X(e) \in Exports BY <2>1 DEF ExportsInv, ExportsTyped, SentTo
  <2>3. task'[X(e)].status = "queued" /\ \A y \in Exports : y # X(e) => task'[y] = task[y]
    BY <2>1, <2>2, MarkedOnly
  <2>4. QED BY <2>1, <2>3, RejectedServed
<1>8. ASSUME NEW e \in Events, ReadFailure(e) PROVE RequestsAreInHand'
  <2>1. ~At(e, "none") /\ ~AtWork(e, X(e)) /\ UNCHANGED <<task, lost, filed>>
    BY <1>8 DEF ReadFailure, At, AtWork
  <2>2. CASE task[X(e)].status = "queued" /\ To(e, "write_failed")
    <3>1. delivery'[e].phase = "write_failed" /\ X(e)' = X(e) BY <2>1, <2>2, GoneOn
    <3>2. Served(X(e))' BY <2>1, <2>2, <3>1 DEF Served, InHand
    <3>3. QED BY <2>1, <2>2, <3>2, GoesOn
  <2>3. CASE task[X(e)].status # "queued" /\ To(e, "done") BY <2>1, <2>3, LeftAlone
  <2>4. QED BY <1>8, <2>2, <2>3 DEF ReadFailure
<1>9. ASSUME NEW e \in Events, FinalizeFailure(e) PROVE RequestsAreInHand'
  <2>1. ~At(e, "none") /\ Mark(e, "failed") /\ To(e, "done") /\ UNCHANGED <<lost, filed>>
    BY <1>9 DEF FinalizeFailure, At
  <2>2. X(e) \in Exports /\ X(e)' = X(e) BY <2>1, GoneOn
  <2>3. task'[X(e)].status = "failed" /\ \A y \in Exports : y # X(e) => task'[y] = task[y]
    BY <2>1, <2>2, MarkedOnly
  <2>4. Served(X(e))' BY <2>2, <2>3 DEF Served
  <2>5. QED BY <2>1, <2>3, <2>4, GoesOn
<1>10. ASSUME NEW e \in Events, CrashExport(e) PROVE RequestsAreInHand'
  <2>1. ~At(e, "none") /\ To(e, "waiting") /\ UNCHANGED <<task, filed>> /\ lost' = lost \cup {X(e)}
    BY <1>10 DEF CrashExport, At
  <2>2. delivery'[e].phase = "waiting" /\ X(e)' = X(e) BY <2>1, GoneOn
  <2>3. Served(X(e))' BY <2>1, <2>2 DEF Served, InHand, Given
  <2>4. QED BY <2>1, <2>3, GoesOn
<1>11. ASSUME NEW x \in Exports, LoadRetry(x) \/ ExportExpires(x) PROVE RequestsAreInHand'
  BY <1>11 DEF LoadRetry, ExportExpires, RequestsAreInHand, Served, InHand, AtWork, Given, X
<1>12. CASE ExpireSucceeded
  <2>1. UNCHANGED <<delivery, lost, filed>> BY <1>12 DEF ExpireSucceeded
  <2>2. ASSUME NEW x \in Exports, task'[x].status \in {"queued", "running"} PROVE task'[x] = task[x]
    <3>1. task[x] \in [status : ExportStatuses, asset : BOOLEAN] BY DEF ExportsInv, ExportsTyped
    <3>2. [task[x] EXCEPT !.status = "expired"].status = "expired" BY <3>1
    <3>3. task'[x] = task[x] \/ task'[x] = [task[x] EXCEPT !.status = "expired"] BY <1>12 DEF ExpireSucceeded
    <3>4. QED BY <2>2, <3>2, <3>3
  <2>3. QED BY <2>1, <2>2 DEF RequestsAreInHand, Served, InHand, AtWork, Given, X
<1>13. QED
  BY <1>1, <1>2, <1>3, <1>4, <1>5, <1>6, <1>7, <1>8, <1>9, <1>10, <1>11, <1>12 DEF ExportsNext, RunExport

\* What ExportSettles rests on: a queued export always has a delivery that will
\* still look at it, and a running one an attempt that will report, unless its
\* worker was lost or its document was recorded before (the attempt is refused
\* then); nothing waits for an event that has been used up (start_attempt,
\* complete, prepare_retry, finalize_failure).
THEOREM ExportsInHand == ExportsSpec => []RequestsAreInHand
<1>1. ExportsInit => ExportsInv /\ RequestsAreInHand
  BY ExportsStart DEF ExportsInit, RequestsAreInHand, Served
<1>2. ExportsInv /\ RequestsAreInHand /\ [ExportsNext]_exportVars => (ExportsInv /\ RequestsAreInHand)'
  BY ExportsStep, InHandStep
<1>3. QED BY <1>1, <1>2, PTL DEF ExportsSpec

----------------------------------------------------------------------------
(***************************************************************************)
(* Planning.  Nothing that was checked of a draft changes before the       *)
(* preview: the pool, the citations and the draft are only written before  *)
(* the checks, and a draft that is revised passes all of them again.       *)
(***************************************************************************)

Checked == {"map_agent", "generation_review_agent", "save", "user_confirmation"}

Placed == {"generation_review_agent", "save", "user_confirmation"}

PassedReview == {"save", "user_confirmation"}

Drafted == {"validate_schema"} \cup Checked

\* What a review that passes leaves to know of the draft.
Fine ==
  InBudget /\ NoRepeats(draft.days) /\ \A p \in Visited(draft.days) : EvidenceOf(p) \subseteq SameCity(citations)

PlanningInv ==
  /\ \A c \in pool : c.source.poi = c.poi \/ c.source.type = "live_web"
  /\ stage \in Drafted /\ request.new => \A d \in DOMAIN draft.days : Len(draft.days[d]) \in Nat
  /\ stage \in Checked => ~Invalid
  /\ stage \in Placed => \A p \in Visited(draft.days) : InCity(p)
  /\ stage \in PassedReview => Fine
  /\ IF stage = "user_confirmation" THEN preview = draft ELSE preview = None

LEMMA CandidateFields ==
  ASSUME NEW p, NEW s
  PROVE  [poi |-> p, source |-> s].poi = p /\ [poi |-> p, source |-> s].source = s
OBVIOUS

LEMMA CiteFields ==
  ASSUME NEW type, NEW p, NEW city
  PROVE  Cite(type, p, city).type = type /\ Cite(type, p, city).poi = p /\ Cite(type, p, city).city = city
BY DEF Cite

\* A step at a node before the draft.
LEMMA Gathering ==
  ASSUME PlanningInv, stage \notin Drafted, stage' \notin Drafted, UNCHANGED preview,
         \A c \in pool' : c.source.poi = c.poi \/ c.source.type = "live_web"
  PROVE  PlanningInv'
BY DEF PlanningInv, Drafted, Checked, Placed, PassedReview

LEMMA GatherKeeps ==
  ASSUME PlanningInv, ValidateRequest \/ RetrieveEvidence \/ CountCandidates
  PROVE  PlanningInv'
<1>1. /\ stage \in {"validate_request", "retrieve", "count"}
      /\ stage' \in {"retrieve", "prepare", "planning_agent"} /\ UNCHANGED <<pool, preview>>
  BY DEF ValidateRequest, RetrieveEvidence, CountCandidates, Go
<1>2. QED BY <1>1, Gathering DEF PlanningInv, Drafted, Checked

LEMMA PrepareKeeps == ASSUME PlanningInv, PrepareCandidates PROVE PlanningInv'
<1>1. stage = "prepare" /\ stage' = "discover" /\ UNCHANGED preview BY DEF PrepareCandidates, Go
<1>2. ASSUME NEW c \in pool' PROVE c.source.poi = c.poi
  <2>1. PICK approved, reviewed :
          pool' = (Candidates("requested_poi", request.must) \union Candidates("approved_poi", approved))
                  \union {[poi |-> s.poi, source |-> s] : s \in reviewed}
    BY DEF PrepareCandidates
  <2>2. ASSUME NEW type, NEW ps, c \in Candidates(type, ps) PROVE c.source.poi = c.poi
    <3>1. PICK p \in ps : c = [poi |-> p, source |-> Cite(type, p, Requested)] BY <2>2 DEF Candidates
    <3>2. c.poi = p /\ c.source = Cite(type, p, Requested) BY <3>1, CandidateFields, Zenon
    <3>3. QED BY <3>2, CiteFields
  <2>3. ASSUME c \in {[poi |-> s.poi, source |-> s] : s \in reviewed} PROVE c.source.poi = c.poi
    <3>1. PICK s \in reviewed : c = [poi |-> s.poi, source |-> s] BY <2>3
    <3>2. c.poi = s.poi /\ c.source = s BY <3>1, CandidateFields, Zenon
    <3>3. QED BY <3>2
  <2>4. \/ c \in Candidates("requested_poi", request.must) \/ c \in Candidates("approved_poi", approved)
        \/ c \in {[poi |-> s.poi, source |-> s] : s \in reviewed}
    BY <1>2, <2>1
  <2>5. QED BY <2>2, <2>3, <2>4
<1>3. QED BY <1>1, <1>2, Gathering DEF Drafted, Checked

LEMMA DiscoverKeeps == ASSUME PlanningInv, DiscoverScenic PROVE PlanningInv'
<1>1. stage = "discover" /\ stage' = "search" /\ UNCHANGED preview BY DEF DiscoverScenic, Go
<1>2. PICK ps : pool' = pool \union Scenic(ps) BY DEF DiscoverScenic
<1>3. ASSUME NEW c \in Scenic(ps) PROVE c.source.poi = c.poi
  <2>1. PICK p \in ps : c = [poi |-> p, source |-> Cite("amap_scenic", p, Adcode[p])] BY <1>3 DEF Scenic
  <2>2. c.poi = p /\ c.source = Cite("amap_scenic", p, Adcode[p]) BY <2>1, CandidateFields, Zenon
  <2>3. QED BY <2>2, CiteFields
<1>4. QED BY <1>1, <1>2, <1>3, Gathering DEF PlanningInv, Drafted, Checked

LEMMA SearchKeeps == ASSUME PlanningInv, SearchLiveSources PROVE PlanningInv'
<1>1. stage = "search" /\ stage' = "count" /\ UNCHANGED preview BY DEF SearchLiveSources, Go
<1>2. PICK ps : pool' = pool \union Live(ps) BY DEF SearchLiveSources
<1>3. ASSUME NEW c \in Live(ps) PROVE c.source.type = "live_web"
  <2>1. PICK p \in ps : c = [poi |-> p, source |-> Cite("live_web", None, Requested)] BY <1>3 DEF Live
  <2>2. c.source = Cite("live_web", None, Requested) BY <2>1, CandidateFields, Zenon
  <2>3. QED BY <2>2, CiteFields
<1>4. QED BY <1>1, <1>2, <1>3, Gathering DEF PlanningInv, Drafted, Checked

LEMMA FailKeeps ==
  ASSUME PlanningInv,
         \/ RequestRefused \/ MustVisitRefused \/ SearchUnavailable \/ InsufficientCandidates
         \/ DependencyUnavailable \/ SchemaRefused \/ ReviewRefused
  PROVE  PlanningInv'
<1>1. stage # "user_confirmation" /\ stage' = "failed" /\ UNCHANGED <<pool, preview>>
  BY DEF RequestRefused, MustVisitRefused, SearchUnavailable, InsufficientCandidates,
         DependencyUnavailable, SchemaRefused, ReviewRefused, Fail
<1>2. QED BY <1>1 DEF PlanningInv, Drafted, Checked, Placed, PassedReview

LEMMA GenerateKeeps == ASSUME PlanningInv, Generate PROVE PlanningInv'
<1>1. /\ stage = "planning_agent" /\ stage' = "validate_schema" /\ UNCHANGED <<request, pool, preview>>
  BY DEF Generate, Go
<1>2. PICK days \in DraftDays, cost \in 0..MaxCost : draft' = [days |-> Merged(days), cost |-> cost] BY DEF Generate
<1>3. ASSUME request.new PROVE \A d \in DOMAIN draft'.days : Len(draft'.days[d]) \in Nat
  <2>1. draft'.days = days
    <3>1. Merged(days) = days BY <1>3 DEF Merged
    <3>2. QED BY <1>2, <3>1
  <2> DEFINE ps == IF pool = {} THEN Pois ELSE PoisOf(pool)
  <2>2. PICK ds : days \in [ds -> Lists(ps, 3)] BY DEF DraftDays
  <2>3. ASSUME NEW s \in Lists(ps, 3) PROVE Len(s) \in Nat
    <3>1. PICK k \in 0..3 : s \in [1..k -> ps] BY <2>3 DEF Lists
    <3> HIDE DEF ps
    <3>2. s \in Seq(ps) BY <3>1, SeqDef
    <3>3. QED BY <3>2, LenProperties
  <2> HIDE DEF ps
  <2>4. QED BY <2>1, <2>2, <2>3
<1>4. QED BY <1>1, <1>3 DEF PlanningInv, Drafted, Checked, Placed, PassedReview

\* A step that keeps what was gathered and drafted.
LEMMA DraftKept ==
  ASSUME UNCHANGED <<request, citations, pool, draft>>
  PROVE  Invalid' = Invalid /\ Fine' = Fine /\ Visited(draft.days)' = Visited(draft.days)
BY DEF Invalid, Fine, InBudget, EvidenceOf, MissesWish, SameCity, NoRepeats,
       Visited, Stops, PoiAt, PoisOf, SourcesOf

LEMMA PassesFine ==
  ASSUME NEW evidence \in Evidence, InBudget, ReviewPasses(evidence) PROVE Fine
<1>1. evidence \subseteq SameCity(citations) BY DEF Evidence
<1>2. QED BY <1>1 DEF Fine, ReviewPasses, HasEvidence

LEMMA CheckKeeps ==
  ASSUME PlanningInv, ValidateSchema \/ VerifyPois \/ Review \/ SavePreview
  PROVE  PlanningInv'
<1>1. UNCHANGED <<request, citations, pool, draft>>
  BY DEF ValidateSchema, VerifyPois, Review, SavePreview
<1>2. Invalid' = Invalid /\ Fine' = Fine /\ Visited(draft.days)' = Visited(draft.days)
  BY <1>1, DraftKept
<1>3. (\A p \in Visited(draft.days) : InCity(p))' <=> \A p \in Visited(draft.days) : InCity(p)
  BY <1>2 DEF InCity
<1>4. CASE ValidateSchema
  <2>1. stage = "validate_schema" /\ stage' = "map_agent" /\ ~Invalid /\ UNCHANGED preview
    BY <1>4 DEF ValidateSchema, Go
  <2>2. QED BY <1>1, <1>2, <2>1 DEF PlanningInv, Drafted, Checked, Placed, PassedReview
<1>5. CASE VerifyPois
  <2>1. /\ stage = "map_agent" /\ stage' = "generation_review_agent" /\ UNCHANGED preview
        /\ \A p \in Visited(draft.days) : InCity(p)
    BY <1>5 DEF VerifyPois, Go
  <2>2. QED BY <1>1, <1>2, <1>3, <2>1 DEF PlanningInv, Drafted, Checked, Placed, PassedReview
<1>6. CASE Review
  <2>1. /\ stage = "generation_review_agent" /\ UNCHANGED preview
        /\ \/ Fine /\ stage' = "save"
           \/ stage' = "planning_agent"
    <3>1. PICK evidence \in Evidence :
            stage' = IF InBudget /\ ReviewPasses(evidence) THEN "save" ELSE "planning_agent"
      BY <1>6 DEF Review
    <3>2. QED BY <1>6, <3>1, PassesFine DEF Review
  <2>2. QED BY <1>1, <1>2, <1>3, <2>1 DEF PlanningInv, Drafted, Checked, Placed, PassedReview
<1>7. CASE SavePreview
  <2>1. stage = "save" /\ stage' = "user_confirmation" /\ preview' = draft BY <1>7 DEF SavePreview, Go
  <2>2. QED BY <1>1, <1>2, <1>3, <2>1 DEF PlanningInv, Drafted, Checked, Placed, PassedReview
<1>8. QED BY <1>4, <1>5, <1>6, <1>7

LEMMA PlanningStep == PlanningInv /\ [PlanningNext]_planningVars => PlanningInv'
<1> SUFFICES ASSUME PlanningInv, [PlanningNext]_planningVars PROVE PlanningInv' OBVIOUS
<1>1. CASE UNCHANGED planningVars
  <2>1. UNCHANGED <<request, stage, citations, pool, draft, revisions, preview>> BY <1>1 DEF planningVars
  <2>2. Invalid' = Invalid /\ Fine' = Fine /\ Visited(draft.days)' = Visited(draft.days)
    BY <2>1, DraftKept
  <2>3. QED BY <2>1, <2>2 DEF PlanningInv, InCity
<1>2. CASE PlanningNext
  BY <1>2, GatherKeeps, PrepareKeeps, DiscoverKeeps, SearchKeeps, FailKeeps, GenerateKeeps, CheckKeeps
  DEF PlanningNext
<1>3. QED BY <1>1, <1>2

LEMMA PlanningStart == ASSUME PlanningInit PROVE PlanningInv /\ PlanningTypeOK
<1>1. stage = "validate_request" /\ pool = {} /\ preview = None BY DEF PlanningInit
<1>2. PlanningInv BY <1>1 DEF PlanningInv, Drafted, Checked, Placed, PassedReview
<1>3. QED BY <1>2 DEF PlanningInit, PlanningTypeOK, Stages, MaxRevisions

LEMMA Grounded == PlanningInv => PreviewIsGrounded
<1>1. SUFFICES ASSUME PlanningInv, preview # None
               PROVE  /\ DOMAIN preview.days = Days /\ preview.cost < MaxCost
                      /\ NoRepeats(preview.days)
                      /\ \A p \in Visited(preview.days) : Adcode[p] \in Areas
                      /\ request.new =>
                           /\ request.must \subseteq Visited(preview.days)
                           /\ \A d \in Days : Len(preview.days[d]) \in 2..3
                           /\ \A p \in Visited(preview.days) :
                                \E c \in citations : c.city = Requested /\ (c.poi = p \/ c.type = "live_web")
  BY DEF PreviewIsGrounded
<1>2. preview = draft /\ stage = "user_confirmation" BY <1>1 DEF PlanningInv
<1>3. ~Invalid /\ Fine /\ \A p \in Visited(draft.days) : InCity(p)
  BY <1>1, <1>2 DEF PlanningInv, Checked, Placed, PassedReview
<1>4. DOMAIN preview.days = Days BY <1>2, <1>3 DEF Invalid
<1>5. preview.cost < MaxCost /\ NoRepeats(preview.days) BY <1>2, <1>3 DEF Fine, InBudget
<1>6. \A p \in Visited(preview.days) : Adcode[p] \in Areas BY <1>2, <1>3 DEF InCity
<1>7. ASSUME request.new
      PROVE  request.must \subseteq Visited(preview.days) /\ \A d \in Days : Len(preview.days[d]) \in 2..3
  <2>1. request.must \subseteq Visited(preview.days) BY <1>2, <1>3, <1>7 DEF Invalid, MissesWish
  <2>2. \A d \in DOMAIN draft.days : Len(draft.days[d]) \in Nat
    BY <1>1, <1>2, <1>7 DEF PlanningInv, Drafted, Checked
  <2>3. \A d \in DOMAIN draft.days : ~(Len(draft.days[d]) > 3) /\ ~(Len(draft.days[d]) < 2)
    BY <1>3, <1>7 DEF Invalid
  <2>4. ASSUME NEW d \in Days PROVE Len(preview.days[d]) \in 2..3
    <3> DEFINE n == Len(draft.days[d])
    <3>1. d \in DOMAIN draft.days BY <1>2, <1>4
    <3>2. n \in Nat BY <2>2, <3>1
    <3>3. ~(n > 3) /\ ~(n < 2) BY <2>3, <3>1
    <3>4. Len(preview.days[d]) = n BY <1>2
    <3> HIDE DEF n
    <3>5. QED BY <3>2, <3>3, <3>4
  <2>5. QED BY <2>1, <2>4
<1>8. ASSUME request.new, NEW p \in Visited(draft.days)
      PROVE  \E c \in citations : c.city = Requested /\ (c.poi = p \/ c.type = "live_web")
  <2>1. Visited(draft.days) \subseteq PoisOf(pool) BY <1>3, <1>8 DEF Invalid
  <2>2. EvidenceOf(p) \subseteq SameCity(citations) BY <1>3, <1>8 DEF Fine
  <2> DEFINE own == {c \in pool : c.poi = p}
             scenic == {c \in own : c.source.type = "amap_scenic"}
             best == IF scenic = {} THEN own ELSE scenic
  <2>3. own # {} BY <1>8, <2>1 DEF PoisOf
  <2>4. PICK c \in best : c \in pool /\ c.poi = p BY <2>3
  <2>5. c.source \in EvidenceOf(p) BY <2>4 DEF EvidenceOf, SourcesOf
  <2>6. c.source \in citations /\ c.source.city = Requested BY <2>2, <2>5 DEF SameCity
  <2>7. c.source.poi = p \/ c.source.type = "live_web" BY <1>1, <2>4 DEF PlanningInv
  <2>8. QED BY <2>6, <2>7
<1>9. QED BY <1>2, <1>4, <1>5, <1>6, <1>7, <1>8

\* Whatever the model, the map and the indexes answer, a preview that is
\* saved passed every check in the form in which it is saved.
THEOREM PreviewsAreGrounded == PlanningSpec => []PreviewIsGrounded
BY PlanningStart, PlanningStep, Grounded, PTL DEF PlanningSpec

LEMMA CandidatesTyped ==
  ASSUME NEW type \in SourceTypes, NEW ps \in SUBSET Pois
  PROVE  /\ \A c \in Candidates(type, ps) : c.poi \in Pois /\ IsCitation(c.source)
         /\ \A s \in SourcesOf(Candidates(type, ps)) : IsCitation(s)
<1>1. ASSUME NEW c \in Candidates(type, ps) PROVE c.poi \in Pois /\ IsCitation(c.source)
  <2>1. PICK p \in ps : c = [poi |-> p, source |-> Cite(type, p, Requested)] BY <1>1 DEF Candidates
  <2>2. c.poi = p /\ c.source = Cite(type, p, Requested) BY <2>1, CandidateFields, Zenon
  <2>3. QED BY <2>2, CiteFields DEF IsCitation
<1>2. QED BY <1>1 DEF SourcesOf

LEMMA ScenicTyped ==
  ASSUME NEW ps \in SUBSET Pois
  PROVE  \A c \in Scenic(ps) : c.poi \in Pois /\ IsCitation(c.source)
<1>1. SUFFICES ASSUME NEW c \in Scenic(ps) PROVE c.poi \in Pois /\ IsCitation(c.source) OBVIOUS
<1>2. PICK p \in ps : c = [poi |-> p, source |-> Cite("amap_scenic", p, Adcode[p])] BY DEF Scenic
<1>3. c.poi = p /\ c.source = Cite("amap_scenic", p, Adcode[p]) BY <1>2, CandidateFields, Zenon
<1>4. QED BY <1>3, CiteFields DEF IsCitation, SourceTypes

LEMMA LiveTyped ==
  ASSUME NEW ps \in SUBSET Pois
  PROVE  \A c \in Live(ps) : c.poi \in Pois /\ IsCitation(c.source)
<1>1. SUFFICES ASSUME NEW c \in Live(ps) PROVE c.poi \in Pois /\ IsCitation(c.source) OBVIOUS
<1>2. PICK p \in ps : c = [poi |-> p, source |-> Cite("live_web", None, Requested)] BY DEF Live
<1>3. c.poi = p /\ c.source = Cite("live_web", None, Requested) BY <1>2, CandidateFields, Zenon
<1>4. QED BY <1>3, CiteFields DEF IsCitation, SourceTypes

\* A step that changes neither what was gathered nor the draft.
LEMMA GoingTyped ==
  ASSUME PlanningTypeOK, PlanningInv, PlanningInv', stage' \in Stages,
         UNCHANGED <<request, citations, pool, draft>>, revisions' \in 0..MaxRevisions
  PROVE  PlanningTypeOK'
BY DEF PlanningTypeOK, PlanningInv

LEMMA PlanningTypesKeep ==
  ASSUME PlanningTypeOK, PlanningInv, PlanningInv', [PlanningNext]_planningVars PROVE PlanningTypeOK'
<1> USE DEF Go
<1>1. CASE UNCHANGED planningVars BY <1>1 DEF planningVars, PlanningTypeOK
<1>2. CASE \/ ValidateRequest \/ RequestRefused \/ MustVisitRefused \/ SearchUnavailable \/ CountCandidates
           \/ InsufficientCandidates \/ DependencyUnavailable \/ ValidateSchema \/ SchemaRefused \/ VerifyPois
           \/ ReviewRefused \/ SavePreview
  <2>1. UNCHANGED <<request, citations, pool, draft, revisions>> /\ stage' \in Stages
    BY <1>2
    DEF ValidateRequest, RequestRefused, MustVisitRefused, SearchUnavailable, CountCandidates,
        InsufficientCandidates, DependencyUnavailable, ValidateSchema, SchemaRefused, VerifyPois,
        ReviewRefused, SavePreview, Fail, Stages
  <2>2. QED BY <2>1, GoingTyped DEF PlanningTypeOK
<1>3. CASE Review
  <2>1. UNCHANGED <<request, citations, pool, draft>> /\ stage' \in Stages
    BY <1>3 DEF Review, Stages
  <2>2. /\ revisions \in Nat
        /\ \E evidence \in Evidence : revisions' = AfterReview(evidence) /\ AfterReview(evidence) <= MaxRevisions
    BY <1>3 DEF Review, PlanningTypeOK, MaxRevisions
  <2>3. revisions' \in 0..MaxRevisions BY <2>2 DEF AfterReview, AfterCheck, MaxRevisions
  <2>4. QED BY <2>1, <2>3, GoingTyped
<1>4. CASE RetrieveEvidence
  <2>1. /\ UNCHANGED <<request, pool, draft, revisions, preview>> /\ stage' \in Stages
        /\ citations' \subseteq Reviewed
    BY <1>4 DEF RetrieveEvidence, SameCity, Answers, Stages
  <2>2. QED BY <2>1, PlanningAssumption DEF PlanningTypeOK
<1>5. CASE PrepareCandidates
  <2>1. PICK approved \in SUBSET {p \in Approved \ request.must : InCity(p)},
             reviewed \in SUBSET {c \in citations : c.poi # None /\ InCity(c.poi)} :
          LET first == Candidates("requested_poi", request.must) \union Candidates("approved_poi", approved)
              second == {[poi |-> c.poi, source |-> c] : c \in reviewed}
          IN pool' = first \union second /\ citations' = citations \union SourcesOf(first)
    BY <1>5 DEF PrepareCandidates
  <2> DEFINE own == Candidates("requested_poi", request.must)
             given == Candidates("approved_poi", approved)
             second == {[poi |-> c.poi, source |-> c] : c \in reviewed}
  <2>2. pool' = (own \union given) \union second /\ citations' = citations \union SourcesOf(own \union given)
    BY <2>1
  <2>3. request.must \in SUBSET Pois /\ approved \in SUBSET Pois
    BY PlanningAssumption DEF PlanningTypeOK
  <2>4. "requested_poi" \in SourceTypes /\ "approved_poi" \in SourceTypes BY DEF SourceTypes
  <2>5. /\ \A c \in own \union given : c.poi \in Pois /\ IsCitation(c.source)
        /\ \A s \in SourcesOf(own) \union SourcesOf(given) : IsCitation(s)
    BY <2>3, <2>4, CandidatesTyped
  <2>6. SourcesOf(own \union given) = SourcesOf(own) \union SourcesOf(given) BY DEF SourcesOf
  <2>7. ASSUME NEW c \in second PROVE c.poi \in Pois /\ IsCitation(c.source)
    <3>1. PICK s \in reviewed : c = [poi |-> s.poi, source |-> s] BY <2>7
    <3>2. c.poi = s.poi /\ c.source = s BY <3>1, CandidateFields, Zenon
    <3>3. s.poi # None /\ IsCitation(s) BY DEF PlanningTypeOK
    <3>4. QED BY <3>2, <3>3 DEF IsCitation
  <2>8. UNCHANGED <<request, draft, revisions, preview>> /\ stage' \in Stages
    BY <1>5 DEF PrepareCandidates, Stages
  <2> HIDE DEF own, given, second
  <2>9. QED BY <2>2, <2>5, <2>6, <2>7, <2>8 DEF PlanningTypeOK
<1>6. CASE DiscoverScenic
  <2>1. PICK ps \in SUBSET Pois :
          pool' = pool \union Scenic(ps) /\ citations' = citations \union SourcesOf(Scenic(ps))
    BY <1>6 DEF DiscoverScenic
  <2>2. UNCHANGED <<request, draft, revisions, preview>> /\ stage' \in Stages
    BY <1>6 DEF DiscoverScenic, Stages
  <2>3. QED BY <2>1, <2>2, ScenicTyped DEF PlanningTypeOK, SourcesOf
<1>7. CASE SearchLiveSources
  <2>1. PICK ps \in SUBSET Pois :
          pool' = pool \union Live(ps) /\ citations' = citations \union SourcesOf(Live(ps))
    BY <1>7 DEF SearchLiveSources
  <2>2. UNCHANGED <<request, draft, revisions, preview>> /\ stage' \in Stages
    BY <1>7 DEF SearchLiveSources, Stages
  <2>3. QED BY <2>1, <2>2, LiveTyped DEF PlanningTypeOK, SourcesOf
<1>8. CASE Generate
  <2>1. PICK days \in DraftDays, cost \in 0..MaxCost : draft' = [days |-> Merged(days), cost |-> cost]
    BY <1>8 DEF Generate
  <2>2. DOMAIN draft'.days \subseteq Days /\ draft'.cost \in 0..MaxCost
    <3>1. DOMAIN days \subseteq Days
      <4>1. PICK ds \in SUBSET Days : days \in [ds -> Lists(IF pool = {} THEN Pois ELSE PoisOf(pool), 3)]
        BY DEF DraftDays
      <4> HIDE DEF Days
      <4>2. QED BY <4>1
    <3>2. DOMAIN Merged(days) \subseteq Days BY <3>1 DEF Merged
    <3>3. draft'.days = Merged(days) /\ draft'.cost = cost BY <2>1
    <3>4. QED BY <3>2, <3>3
  <2>3. stage' = "validate_schema" /\ UNCHANGED <<request, citations, pool, revisions>> BY <1>8 DEF Generate
  <2>4. preview' \in {None, draft'} BY DEF PlanningInv
  <2>5. QED BY <2>2, <2>3, <2>4 DEF PlanningTypeOK, Stages
<1>9. QED BY <1>1, <1>2, <1>3, <1>4, <1>5, <1>6, <1>7, <1>8 DEF PlanningNext

\* The request, what was gathered, the draft and the revisions keep their
\* types: a draft only has days of the request, and is revised twice at most.
THEOREM PlanningTypeCorrect == PlanningSpec => []PlanningTypeOK
<1>1. PlanningInit => PlanningInv /\ PlanningTypeOK BY PlanningStart
<1>2. PlanningInv /\ PlanningTypeOK /\ [PlanningNext]_planningVars => (PlanningInv /\ PlanningTypeOK)'
  BY PlanningStep, PlanningTypesKeep
<1>3. QED BY <1>1, <1>2, PTL DEF PlanningSpec

\* The nodes from each node of the graph to its end, where no review sends the
\* draft back.
Ahead ==
  [s \in Stages |->
    CASE s = "validate_request" -> 11 [] s = "retrieve" -> 10 [] s = "prepare" -> 9
      [] s = "discover" -> 8 [] s = "search" -> 7 [] s = "count" -> 6
      [] s = "planning_agent" -> 5 [] s = "validate_schema" -> 4 [] s = "map_agent" -> 3
      [] s = "generation_review_agent" -> 2 [] s = "save" -> 1
      [] OTHER -> 0]

\* The nodes that are left: whoever is sent back by the review has used a revision.
NodesLeft == Ahead[stage] + 4 * (MaxRevisions - revisions)

LEMMA NodeComesNearer ==
  ASSUME PlanningTypeOK, PlanningNext PROVE NodesLeft \in Nat /\ NodesLeft' \in 0..(NodesLeft - 1)
<1> USE DEF NodesLeft, Ahead, Stages, MaxRevisions
<1>1. stage \in Stages /\ revisions \in 0..MaxRevisions BY DEF PlanningTypeOK
<1>2. CASE Review
  <2>1. PICK evidence \in Evidence :
          /\ revisions' = AfterReview(evidence) /\ AfterReview(evidence) <= MaxRevisions
          /\ stage' = IF InBudget /\ ReviewPasses(evidence) THEN "save" ELSE "planning_agent"
    BY <1>2 DEF Review
  <2> DEFINE after == AfterReview(evidence)
             passes == InBudget /\ ReviewPasses(evidence)
  <2>2. /\ stage = "generation_review_agent" /\ after \in Nat /\ after >= revisions
        /\ ~passes => after >= revisions + 1
        /\ revisions' = after /\ after <= MaxRevisions
        /\ stage' = IF passes THEN "save" ELSE "planning_agent"
    BY <1>1, <1>2, <2>1 DEF AfterReview, AfterCheck, Review
  <2> HIDE DEF MaxRevisions, after, passes
  <2>3. MaxRevisions \in Nat BY DEF MaxRevisions
  <2>4. CASE passes BY <1>1, <2>2, <2>3, <2>4
  <2>5. CASE ~passes BY <1>1, <2>2, <2>3, <2>5
  <2>6. QED BY <2>4, <2>5
<1>3. ASSUME ~Review
      PROVE  revisions' = revisions /\ stage \in Stages \ {"user_confirmation", "failed"}
             /\ (stage' = "failed" \/ (stage' \in Stages /\ Ahead[stage'] < Ahead[stage]))
  BY <1>1, <1>3
  DEF PlanningNext, Go, Fail, ValidateRequest, RequestRefused, RetrieveEvidence, PrepareCandidates, MustVisitRefused,
      DiscoverScenic, SearchLiveSources, SearchUnavailable, CountCandidates, InsufficientCandidates, Generate,
      DependencyUnavailable, ValidateSchema, SchemaRefused, VerifyPois, ReviewRefused, SavePreview
<1>4. CASE ~Review
  <2>1. Ahead[stage] \in 1..11 /\ Ahead["failed"] = 0 BY <1>1, <1>3, <1>4
  <2>2. stage' \in Stages => Ahead[stage'] \in Nat OBVIOUS
  <2>3. QED BY <1>1, <1>3, <1>4, <2>1, <2>2
<1>5. QED BY <1>2, <1>4

\* A run of the planning graph cannot go round for ever: every step leaves
\* fewer nodes ahead, since a review that sends the draft back uses up a revision
\* (_route_review, revision_count).
THEOREM PlanningComesNearer == PlanningSpec => [][NodesLeft' \in 0..(NodesLeft - 1)]_planningVars
<1>1. PlanningInit => PlanningInv /\ PlanningTypeOK BY PlanningStart
<1>2. PlanningInv /\ PlanningTypeOK /\ [PlanningNext]_planningVars => (PlanningInv /\ PlanningTypeOK)'
  BY PlanningStep, PlanningTypesKeep
<1>3. PlanningTypeOK /\ [PlanningNext]_planningVars => [NodesLeft' \in 0..(NodesLeft - 1)]_planningVars
  BY NodeComesNearer
<1>4. QED BY <1>1, <1>2, <1>3, PTL DEF PlanningSpec

----------------------------------------------------------------------------
(***************************************************************************)
(* Uploads, as MCServices bounds them.                                     *)
(***************************************************************************)

LEMMA UploadsStart == Up!UploadsInit => Up!UploadsTypeOK
BY DEF Up!UploadsInit, Up!UploadsTypeOK, Up!Quiet, Up!AssetStatuses

LEMMA UploadsKeep == Up!UploadsTypeOK /\ [Up!UploadsNext]_uploadVars => (Up!UploadsTypeOK)'
<1> SUFFICES ASSUME Up!UploadsTypeOK, [Up!UploadsNext]_uploadVars PROVE (Up!UploadsTypeOK)' OBVIOUS
<1> USE DEF Up!UploadsTypeOK, Up!AssetStatuses
<1>1. ASSUME NEW a \in {a1, a2},
             Up!CreateUploadRequest(a) \/ Up!PutObject(a) \/ Up!TimePasses(a) \/ Up!HeadObject(a) \/ Up!WriteCompleted(a)
      PROVE  (Up!UploadsTypeOK)'
  BY <1>1 DEF Up!CreateUploadRequest, Up!PutObject, Up!TimePasses, Up!HeadObject, Up!WriteCompleted
<1>2. ASSUME NEW a \in {a1, a2}, Up!CompleteUpload(a) PROVE (Up!UploadsTypeOK)'
  BY <1>2 DEF Up!CompleteUpload, Up!Removed
<1>3. ASSUME Up!RequestCleanup \/ Up!SelectOverdue \/ Up!FlushExpired PROVE (Up!UploadsTypeOK)'
  BY <1>3 DEF Up!RequestCleanup, Up!SelectOverdue, Up!FlushExpired, Up!Quiet
<1>4. ASSUME NEW a \in {a1, a2}, Up!RemoveObject(a) PROVE (Up!UploadsTypeOK)'
  BY <1>4 DEF Up!RemoveObject, Up!Removed, Up!OnStorageFailure
<1>5. ASSUME Up!CommitExpired PROVE (Up!UploadsTypeOK)'
  BY <1>5 DEF Up!CommitExpired, Up!Quiet
<1>6. ASSUME Up!CrashCleanup PROVE (Up!UploadsTypeOK)'
  <2>1. cleanup.tries \in 0..3 OBVIOUS
  <2>2. cleanup' = [phase |-> "queued", ids |-> {}, left |-> {}, tries |-> cleanup.tries]
    BY <1>6 DEF Up!CrashCleanup, Up!Quiet
  <2>3. UNCHANGED <<asset, due, objects, complete>> /\ uploadCrashes < 1 /\ uploadCrashes' = uploadCrashes + 1
    BY <1>6 DEF Up!CrashCleanup
  <2>4. QED BY <2>1, <2>2, <2>3
<1>7. CASE UNCHANGED uploadVars BY <1>7 DEF uploadVars
<1>8. QED BY <1>1, <1>2, <1>3, <1>4, <1>5, <1>6, <1>7 DEF Up!UploadsNext, Up!Sweep

----------------------------------------------------------------------------
(***************************************************************************)
(* The composition that is checked.  The components share no state: each   *)
(* moves as it does alone, or rests, and keeps what it keeps alone.        *)
(***************************************************************************)

\* What holds of the components, whichever runs.
ServicesInv ==
  /\ part \in Parts
  /\ IInv
  /\ MemoryInv /\ TasksTyped
  /\ part = "memory" => Counted(MaxFaults, MaxSlow)
  /\ part = "slow" => Counted(0, 1)
  /\ Up!UploadsTypeOK
  /\ ExportsInv /\ Limited
  /\ PlanningInv /\ PlanningTypeOK
  /\ AdminInv /\ SessionsTyped

\* Each component moves as it does alone, or rests.
Alone ==
  /\ part' = part
  /\ [Next]_vars
  /\ MemoryMoves \/ UNCHANGED memoryVars
  /\ part = "memory" => [Counting(MaxFaults, MaxSlow)]_<<faults, slow>>
  /\ part = "slow" => [Counting(0, 1)]_<<faults, slow>>
  /\ [Up!UploadsNext]_uploadVars
  /\ [ExportsNext]_exportVars
  /\ [PlanningNext]_planningVars
  /\ [AccountsNext]_accountVars

LEMMA EachAlone == [Step]_everything => Alone
<1>1. CASE UNCHANGED everything
  <2>1. /\ part' = part
        /\ UNCHANGED vars /\ UNCHANGED memoryVars /\ UNCHANGED uploadVars
        /\ UNCHANGED exportVars /\ UNCHANGED planningVars /\ UNCHANGED accountVars
    BY <1>1 DEF everything, paymentVars
  <2>2. UNCHANGED <<faults, slow>> BY <2>1 DEF memoryVars
  <2>3. QED BY <2>1, <2>2 DEF Alone
<1>2. ASSUME NEW p, Rest(p), p # "memory", p # "slow"
      PROVE  /\ UNCHANGED memoryVars
             /\ part = "memory" => [Counting(MaxFaults, MaxSlow)]_<<faults, slow>>
             /\ part = "slow" => [Counting(0, 1)]_<<faults, slow>>
  BY <1>2 DEF Rest
<1>3. CASE Rest("payment") /\ Next BY <1>2, <1>3 DEF Rest, Alone, paymentVars
<1>4. CASE Rest("memory") /\ MemoryNext BY <1>4, NextMoves, NextCounts DEF Rest, Alone, paymentVars
<1>5. CASE Rest("slow") /\ Slow!MemoryNext BY <1>5, SlowMoves DEF Rest, Alone, paymentVars
<1>6. CASE Rest("uploads") /\ Up!UploadsNext BY <1>2, <1>6 DEF Rest, Alone, paymentVars
<1>7. CASE Rest("exports") /\ ExportsNext BY <1>2, <1>7 DEF Rest, Alone, paymentVars
<1>8. CASE Rest("planning") /\ PlanningNext BY <1>2, <1>8 DEF Rest, Alone, paymentVars
<1>9. CASE Rest("accounts") /\ AccountsNext BY <1>2, <1>9 DEF Rest, Alone, paymentVars
<1>10. QED BY <1>1, <1>3, <1>4, <1>5, <1>6, <1>7, <1>8, <1>9 DEF Step

LEMMA ServicesBegin == Begins => ServicesInv
<1> SUFFICES ASSUME Begins PROVE ServicesInv OBVIOUS
<1>1. IInv BY InitTyped, InitSettlement DEF Begins, IInv
<1>2. MemoryInv /\ TasksTyped /\ Counted(MaxFaults, MaxSlow) /\ Counted(0, 1)
  BY MemoryBegins, SlowBegins DEF Begins
<1>3. QED BY <1>1, <1>2, UploadsStart, ExportsStart, LimitedStart, PlanningStart, AccountsStart DEF Begins, ServicesInv

LEMMA ServicesStep == ServicesInv /\ [Step]_everything => ServicesInv'
<1> SUFFICES ASSUME ServicesInv, [Step]_everything PROVE ServicesInv' OBVIOUS
<1>1. Alone BY EachAlone
<1>2. IInv' BY <1>1, StepTyped, StepSettlement DEF Alone, ServicesInv, IInv
<1>3. MemoryInv' /\ TasksTyped' BY <1>1, MovesKeep, TasksKeep DEF Alone, ServicesInv
<1>4. (part = "memory" => Counted(MaxFaults, MaxSlow))'
  <2>1. CASE part = "memory"
    <3>1. Counted(MaxFaults, MaxSlow) /\ MaxFaults \in Nat /\ MaxSlow \in Nat BY <2>1, MemoryAssumption DEF ServicesInv
    <3>2. CASE Counting(MaxFaults, MaxSlow) BY <3>1, <3>2, CountingKeeps
    <3>3. CASE UNCHANGED <<faults, slow>> BY <3>1, <3>3 DEF Counted
    <3>4. QED BY <1>1, <2>1, <3>2, <3>3 DEF Alone
  <2>2. CASE part # "memory" BY <1>1, <2>2 DEF Alone
  <2>3. QED BY <2>1, <2>2
<1>5. (part = "slow" => Counted(0, 1))'
  <2>1. CASE part = "slow"
    <3>1. Counted(0, 1) BY <2>1 DEF ServicesInv
    <3>2. CASE Counting(0, 1) BY <3>1, <3>2, CountingKeeps
    <3>3. CASE UNCHANGED <<faults, slow>> BY <3>1, <3>3 DEF Counted
    <3>4. QED BY <1>1, <2>1, <3>2, <3>3 DEF Alone
  <2>2. CASE part # "slow" BY <1>1, <2>2 DEF Alone
  <2>3. QED BY <2>1, <2>2
<1>6. (Up!UploadsTypeOK)' BY <1>1, UploadsKeep DEF Alone, ServicesInv
<1>7. ExportsInv' /\ Limited' BY <1>1, ExportsStep, LimitedKeeps DEF Alone, ServicesInv
<1>8. PlanningInv' /\ PlanningTypeOK' BY <1>1, PlanningStep, PlanningTypesKeep DEF Alone, ServicesInv
<1>9. AdminInv' /\ SessionsTyped' BY <1>1, AccountsKeep DEF Alone, ServicesInv
<1>10. QED BY <1>1, <1>2, <1>3, <1>4, <1>5, <1>6, <1>7, <1>8, <1>9 DEF Alone, ServicesInv

LEMMA ServicesAlways == Services => []ServicesInv
BY ServicesBegin, ServicesStep, PTL DEF Services

\* Whichever component runs, every variable of it keeps its type.
THEOREM ServicesTyped == Services => []ServicesTypeOK
<1>1. ServicesInv => ServicesTypeOK
  <2> SUFFICES ASSUME ServicesInv PROVE ServicesTypeOK OBVIOUS
  <2>1. TypeOK BY DEF ServicesInv, IInv, Typed
  <2>2. memory \in [Mems -> [version : 0..MaxVersion, deleted : BOOLEAN, kind : Kinds]]
    BY DEF ServicesInv, MemoryInv, MemoryTyped
  <2>3. (part = "memory" => MemoryTypeOK) /\ (part = "slow" => Slow!MemoryTypeOK)
    BY <2>2, MemoryTypes, MemTypes, SlowTypes DEF ServicesInv
  <2>4. Up!UploadsTypeOK /\ ExportsTypeOK /\ PlanningTypeOK /\ AccountsTypeOK
    BY ExportsTypes, AccountsTypes DEF ServicesInv, AdminInv
  <2>5. part \in {"payment", "memory", "slow", "uploads", "exports", "planning", "accounts"}
    BY ServicesAssumption DEF ServicesInv
  <2>6. QED BY <2>1, <2>3, <2>4, <2>5 DEF ServicesTypeOK
<1>2. QED BY <1>1, ServicesAlways, PTL

\* Whichever component runs: a payment is made once and is real, a deleted
\* memory is forgotten, a link leads to a document, a preview is what was
\* checked, and one active administrator remains.
THEOREM ServicesSound ==
  Services => [](PaymentIsSound /\ DeletedIsForgotten /\ LinksWork /\ PreviewIsGrounded /\ AlwaysAnAdmin)
<1>1. ServicesInv => PaymentIsSound /\ AlwaysAnAdmin
  BY DEF ServicesInv, IInv, Settlement, PaymentIsSound, AdminInv
<1>2. ServicesInv => DeletedIsForgotten /\ LinksWork /\ PreviewIsGrounded
  BY Forgotten, Leading, Grounded DEF ServicesInv
<1>3. QED BY <1>1, <1>2, ServicesAlways, PTL
=============================================================================
