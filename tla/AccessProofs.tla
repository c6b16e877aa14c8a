----------------------------- MODULE AccessProofs -----------------------------
(***************************************************************************)
(* Proofs about Accounts, SignIn and JoinLimit.                            *)
(*                                                                         *)
(* ActiveAdminRemains is not inductive: an administrator's change is       *)
(* decided in UpdateCheck and done in UpdateCommit, so what UpdateCheck    *)
(* found has to last until then. It does because one such change at a time *)
(* is between the two steps (the advisory lock), and no other request      *)
(* takes the role or the activity of an account away.                      *)
(*                                                                         *)
(* The throttle: that no client fails more often than its limit allows is  *)
(* seen only by counting what its entry stands for, so the invariant       *)
(* bounds the entry from both sides by the failures and the attempts in    *)
(* progress. The lockout: the invariant ties the account's count to the    *)
(* places of the history it counts. The limit on joining: the invariant is *)
(* a budget, how many attempts a stretch of time has let through against   *)
(* what the row and the attempts in progress leave room for.               *)
(***************************************************************************)
EXTENDS Accounts, SignIn, JoinLimit, TLAPS, FiniteSetTheorems, WellFoundedInduction

\* The rows are well formed.
Rows ==
    /\ users \in [Users -> Account]
    /\ sessions \in Seq(Session) /\ Len(sessions) <= MaxSessions
    /\ requests \in [Requests -> AccountRequest \union {Idle}]

\* The advisory lock: one change of another account is past its checks.
OneChange ==
    \A q1, q2 \in Requests : Is(q1, "ADMIN", "row") /\ Is(q2, "ADMIN", "row") => q1 = q2

\* What that change was allowed on still holds.
ChangeIsAllowed == \A q \in Requests : Is(q, "ADMIN", "row") => Keeps(q)

AdminInv == Rows /\ OneChange /\ ChangeIsAllowed /\ ActiveAdminRemains

-------------------------------------------------------------------------------
(* What a request carries.                                                 *)

\* The fields of a request, by the operation it is of.
LEMMA RequestFields ==
    ASSUME Rows, NEW q \in Requests, requests[q] # Idle
    PROVE  /\ requests[q].user \in Users
           /\ requests[q].op \in {"LOGIN", "PROFILE", "PASSWORD", "ADMIN"}
           /\ requests[q].op # "LOGIN" => requests[q].seen \in 1..MaxRevision
           /\ requests[q].op = "PASSWORD" => requests[q].password \in Passwords
           /\ requests[q].op = "ADMIN" => /\ requests[q].admin \in BOOLEAN
                                          /\ requests[q].status \in {"ACTIVE", "LOCKED"}
<1>1. requests[q] \in AccountRequest
  BY DEF Rows
<1> QED
  BY <1>1 DEF AccountRequest

\* The administrators are the same while neither role nor status changes.
LEMMA SameAdmins ==
    ASSUME \A u \in Users : /\ users'[u].admin = users[u].admin
                            /\ users'[u].status = users[u].status
    PROVE  ActiveAdmins' = ActiveAdmins
BY DEF ActiveAdmins

-------------------------------------------------------------------------------
(* The rows stay well formed.                                              *)

LEMMA RowsInit ==
    ASSUME AccountsInit
    PROVE  Rows
<1>1. PICK p \in Passwords :
         users = [u \in Users |->
                    NewAccount(IF u = Founder THEN "ACTIVE" ELSE "NONE", u = Founder, p)]
  BY DEF AccountsInit
<1>2. 1 \in 1..MaxRevision
  BY AccountsAssumption
<1>3. users \in [Users -> Account]
  BY <1>1, <1>2 DEF NewAccount, Account
<1>4. sessions \in Seq(Session) /\ Len(sessions) <= MaxSessions
  BY AccountsAssumption DEF AccountsInit
<1> QED
  BY <1>3, <1>4 DEF AccountsInit, Rows

\* Ending or starting a request leaves the requests well formed.
LEMMA EndKeepsRequests ==
    ASSUME Rows, NEW q \in Requests, End(q)
    PROVE  requests' \in [Requests -> AccountRequest \union {Idle}]
BY DEF End, Rows

LEMMA StartKeepsRequests ==
    ASSUME Rows, NEW q \in Requests, NEW r \in AccountRequest, Start(q, r)
    PROVE  requests' \in [Requests -> AccountRequest \union {Idle}]
BY DEF Start, Rows

\* A session belongs to an account, whose row has a revision.
LEMMA SessionFields ==
    ASSUME Rows, NEW s \in DOMAIN sessions
    PROVE  /\ s \in Nat \ {0}
           /\ sessions[s].user \in Users
           /\ users[sessions[s].user].revision \in 1..MaxRevision
<1>1. sessions[s] \in Session /\ s \in Nat \ {0}
  BY DEF Rows
<1>2. sessions[s].user \in Users
  BY <1>1 DEF Session
<1> QED
  BY <1>1, <1>2 DEF Rows, Account

LEMMA RowsBegin ==
    ASSUME Rows, NEW q \in Requests, NEW s \in DOMAIN sessions,
           BeginBySession(q, s)
    PROVE  Rows'
<1>0. /\ s \in 1..MaxSessions
      /\ sessions[s].user \in Users
      /\ users[sessions[s].user].revision \in 1..MaxRevision
  BY SessionFields, AccountsAssumption DEF Rows
<1>1. CASE ProfileBegin(q, s)
  <2>1. [op |-> "PROFILE", user |-> sessions[s].user,
         seen |-> users[sessions[s].user].revision, phase |-> "begun"] \in AccountRequest
    BY <1>0 DEF AccountRequest
  <2> QED
    BY <1>1, <2>1, StartKeepsRequests DEF ProfileBegin, Rows
<1>2. CASE PasswordBegin(q, s)
  <2>1. PICK p \in Passwords :
           Start(q, [op |-> "PASSWORD", user |-> sessions[s].user, session |-> s,
                     seen |-> users[sessions[s].user].revision, password |-> p,
                     phase |-> "begun"])
    BY <1>2 DEF PasswordBegin
  <2>2. [op |-> "PASSWORD", user |-> sessions[s].user, session |-> s,
         seen |-> users[sessions[s].user].revision, password |-> p,
         phase |-> "begun"] \in AccountRequest
    BY <1>0 DEF AccountRequest
  <2> QED
    BY <1>2, <2>1, <2>2, StartKeepsRequests DEF PasswordBegin, Rows
<1>3. CASE UpdateBegin(q, s)
  <2>1. PICK u \in Users, admin \in BOOLEAN, status \in {"ACTIVE", "LOCKED"} :
           Start(q, [op |-> "ADMIN", actor |-> sessions[s].user, user |-> u,
                     seen |-> users[u].revision, admin |-> admin, status |-> status,
                     phase |-> "begun"])
    BY <1>3 DEF UpdateBegin
  <2>2. users[u].revision \in 1..MaxRevision
    BY DEF Rows, Account
  <2>3. [op |-> "ADMIN", actor |-> sessions[s].user, user |-> u,
         seen |-> users[u].revision, admin |-> admin, status |-> status,
         phase |-> "begun"] \in AccountRequest
    BY <1>0, <2>2 DEF AccountRequest
  <2> QED
    BY <1>3, <2>1, <2>3, StartKeepsRequests DEF UpdateBegin, Rows
<1> QED
  BY <1>1, <1>2, <1>3 DEF BeginBySession

LEMMA RowsUpdate ==
    ASSUME Rows, NEW q \in Requests, UpdateMe(q) \/ ChangePassword(q) \/ UpdateCommit(q)
    PROVE  Rows'
<1> DEFINE u == requests[q].user
<1>1. /\ requests[q] # Idle
      /\ requests[q].seen < MaxRevision
      /\ End(q)
  BY DEF UpdateMe, ChangePassword, UpdateCommit, Is
<1>2. /\ u \in Users
      /\ requests[q].op # "LOGIN" => requests[q].seen + 1 \in 1..MaxRevision
      /\ users[u] \in Account
  BY <1>1, RequestFields, AccountsAssumption DEF Rows
<1>3. requests' \in [Requests -> AccountRequest \union {Idle}]
  BY <1>1, EndKeepsRequests
<1>4. CASE UpdateMe(q)
  <2>1. users' = [users EXCEPT ![u].revision = requests[q].seen + 1]
    BY <1>4 DEF UpdateMe
  <2>2. users' \in [Users -> Account]
    BY <1>2, <1>4, <2>1 DEF Rows, Account, UpdateMe, Is
  <2> QED
    BY <1>3, <1>4, <2>2 DEF UpdateMe, Rows
<1>5. CASE ChangePassword(q)
  <2>1. /\ users' = [users EXCEPT ![u].password = requests[q].password,
                                  ![u].revision = requests[q].seen + 1]
        /\ requests[q].password \in Passwords
    BY <1>1, <1>5, RequestFields DEF ChangePassword, Is
  <2>2. [[users[u] EXCEPT !.password = requests[q].password]
           EXCEPT !.revision = requests[q].seen + 1] \in Account
    <3>1. requests[q].seen + 1 \in 1..MaxRevision
      BY <1>2, <1>5 DEF ChangePassword, Is
    <3> QED
      BY <1>2, <2>1, <3>1 DEF Account
  <2>3. users' \in [Users -> Account]
    BY <1>2, <2>1, <2>2 DEF Rows
  <2>4. /\ sessions' \in Seq(Session)
        /\ Len(sessions') = Len(sessions)
    <3>1. sessions' = [s \in 1..Len(sessions) |->
                          IF s \in OthersOf(q) THEN [sessions[s] EXCEPT !.ended = TRUE]
                          ELSE sessions[s]]
      BY <1>5 DEF ChangePassword, Rows
    <3>2. ASSUME NEW s \in 1..Len(sessions)
          PROVE  sessions'[s] \in Session
      <4>1. sessions[s] \in Session
        BY DEF Rows
      <4>2. [sessions[s] EXCEPT !.ended = TRUE] \in Session
        BY <4>1 DEF Session
      <4> QED
        BY <3>1, <4>1, <4>2
    <3> QED
      BY <3>1, <3>2 DEF Rows
  <2> QED
    BY <1>3, <2>3, <2>4 DEF Rows
<1>6. CASE UpdateCommit(q)
  <2>1. /\ users' = [users EXCEPT ![u] =
                       [@ EXCEPT !.admin = requests[q].admin, !.status = requests[q].status,
                                 !.revision = requests[q].seen + 1]]
        /\ requests[q].admin \in BOOLEAN
        /\ requests[q].status \in {"ACTIVE", "LOCKED"}
    BY <1>1, <1>6, RequestFields DEF UpdateCommit, Is
  <2>2. [users[u] EXCEPT !.admin = requests[q].admin, !.status = requests[q].status,
                          !.revision = requests[q].seen + 1] \in Account
    <3>1. requests[q].seen + 1 \in 1..MaxRevision
      BY <1>2, <1>6 DEF UpdateCommit, Is
    <3> QED
      BY <1>2, <2>1, <3>1 DEF Account
  <2>3. users' \in [Users -> Account]
    BY <1>2, <2>1, <2>2 DEF Rows
  <2> QED
    BY <1>3, <1>6, <2>3 DEF UpdateCommit, Rows
<1> QED
  BY <1>4, <1>5, <1>6

\* A request that passes its checks keeps all it carries.
LEMMA RowsPhase ==
    ASSUME Rows, NEW q \in Requests, LoginVerify(q) \/ UpdateCheck(q)
    PROVE  Rows'
<1>1. /\ requests[q] \in AccountRequest
      /\ requests[q].op \in {"LOGIN", "ADMIN"}
      /\ requests' = [requests EXCEPT ![q].phase = "row"]
      /\ UNCHANGED <<users, sessions>>
  BY DEF LoginVerify, UpdateCheck, Is, Rows
<1>2. [requests[q] EXCEPT !.phase = "row"] \in AccountRequest
  BY <1>1 DEF AccountRequest
<1> QED
  BY <1>1, <1>2 DEF Rows

LEMMA RowsSessions ==
    ASSUME Rows, NEW s \in DOMAIN sessions, Logout(s) \/ Expire(s)
    PROVE  Rows'
<1>1. /\ sessions' = [sessions EXCEPT ![s].ended = TRUE]
      /\ UNCHANGED <<users, requests>>
  BY DEF Logout, Expire
<1>2. /\ sessions[s] \in Session
      /\ s \in 1..Len(sessions)
  BY DEF Rows
<1>3. [sessions[s] EXCEPT !.ended = TRUE] \in Session
  BY <1>2 DEF Session
<1>4. sessions' \in Seq(Session) /\ Len(sessions') = Len(sessions)
  BY <1>1, <1>2, <1>3 DEF Rows
<1> QED
  BY <1>1, <1>4 DEF Rows

LEMMA RowsStep ==
    ASSUME Rows, [AccountsNext]_accountVars
    PROVE  Rows'
<1>1. CASE UNCHANGED accountVars
  BY <1>1 DEF accountVars, Rows
<1>2. ASSUME NEW s \in DOMAIN sessions, Logout(s) \/ Expire(s)
      PROVE  Rows'
  BY <1>2, RowsSessions
<1>3. ASSUME NEW s \in DOMAIN sessions, CreateUser(s)
      PROVE  Rows'
  <2>1. PICK u \in Users, p \in Passwords, admin \in BOOLEAN :
           users' = [users EXCEPT ![u] = NewAccount("ACTIVE", admin, p)]
    BY <1>3 DEF CreateUser
  <2>2. NewAccount("ACTIVE", admin, p) \in Account
    BY AccountsAssumption DEF NewAccount, Account
  <2> QED
    BY <1>3, <2>1, <2>2 DEF CreateUser, Rows
<1>4. ASSUME NEW q \in Requests, NEW s \in DOMAIN sessions, BeginBySession(q, s)
      PROVE  Rows'
  BY <1>4, RowsBegin
<1>5. ASSUME NEW q \in Requests, LoginBegin(q)
      PROVE  Rows'
  <2>1. PICK u \in Users : Start(q, [op |-> "LOGIN", user |-> u, phase |-> "begun"])
    BY <1>5 DEF LoginBegin
  <2>2. [op |-> "LOGIN", user |-> u, phase |-> "begun"] \in AccountRequest
    BY DEF AccountRequest
  <2> QED
    BY <1>5, <2>1, <2>2, StartKeepsRequests DEF LoginBegin, Rows
<1>6. ASSUME NEW q \in Requests, LoginVerify(q) \/ UpdateCheck(q)
      PROVE  Rows'
  BY <1>6, RowsPhase
<1>7. ASSUME NEW q \in Requests, LoginCommit(q)
      PROVE  Rows'
  <2>1. [user |-> requests[q].user, ended |-> FALSE] \in Session
    BY <1>7, RequestFields DEF LoginCommit, Is, Session
  <2>2. sessions' \in Seq(Session) /\ Len(sessions') <= MaxSessions
    BY <1>7, <2>1, AccountsAssumption DEF LoginCommit, Rows
  <2> QED
    BY <1>7, <2>2, EndKeepsRequests DEF LoginCommit, Rows
<1>8. ASSUME NEW q \in Requests, UpdateMe(q) \/ ChangePassword(q) \/ UpdateCommit(q)
      PROVE  Rows'
  BY <1>8, RowsUpdate
<1>9. ASSUME NEW q \in Requests, Abandon(q)
      PROVE  Rows'
  BY <1>9, EndKeepsRequests DEF Abandon, Rows
<1> QED
  BY <1>1, <1>2, <1>3, <1>4, <1>5, <1>6, <1>7, <1>8, <1>9 DEF AccountsNext

-------------------------------------------------------------------------------
(* An active administrator remains.                                        *)

\* A step that lets no change of another account past its checks, and leaves the
\* administrators as they are, disturbs no change that is past them.
LEMMA ChangesUndisturbed ==
    ASSUME OneChange, ChangeIsAllowed,
           ActiveAdmins' = ActiveAdmins,
           \A q \in Requests : Is(q, "ADMIN", "row")' => /\ Is(q, "ADMIN", "row")
                                                         /\ requests'[q] = requests[q]
    PROVE  OneChange' /\ ChangeIsAllowed'
<1>1. OneChange'
  BY DEF OneChange
<1>2. ASSUME NEW q \in Requests, Is(q, "ADMIN", "row")'
      PROVE  Keeps(q)'
  <2>1. Keeps(q) /\ requests'[q] = requests[q]
    BY <1>2 DEF ChangeIsAllowed
  <2> QED
    BY <2>1 DEF Keeps
<1> QED
  BY <1>1, <1>2 DEF ChangeIsAllowed

LEMMA AdminStep ==
    ASSUME AdminInv, [AccountsNext]_accountVars
    PROVE  OneChange' /\ ChangeIsAllowed' /\ ActiveAdminRemains'
<1> USE DEF AdminInv
<1>1. CASE UNCHANGED accountVars
  BY <1>1 DEF accountVars, OneChange, ChangeIsAllowed, Is, Keeps, ActiveAdmins, ActiveAdminRemains
<1>2. ASSUME NEW s \in DOMAIN sessions, Logout(s) \/ Expire(s)
      PROVE  OneChange' /\ ChangeIsAllowed' /\ ActiveAdminRemains'
  <2>1. UNCHANGED <<users, requests>>
    BY <1>2 DEF Logout, Expire
  <2> QED
    BY <2>1 DEF OneChange, ChangeIsAllowed, Is, Keeps, ActiveAdmins, ActiveAdminRemains
<1>3. ASSUME NEW s \in DOMAIN sessions, CreateUser(s)
      PROVE  OneChange' /\ ChangeIsAllowed' /\ ActiveAdminRemains'
  <2>1. \A q \in Requests : ~ Is(q, "ADMIN", "row")'
    BY <1>3 DEF CreateUser, AdminLockFree, Is
  <2>2. PICK u \in Users, p \in Passwords, admin \in BOOLEAN :
           /\ users[u].status = "NONE"
           /\ users' = [users EXCEPT ![u] = NewAccount("ACTIVE", admin, p)]
    BY <1>3 DEF CreateUser
  <2>3. ActiveAdmins \subseteq ActiveAdmins'
    BY <2>2 DEF ActiveAdmins, Rows
  <2> QED
    BY <2>1, <2>3 DEF OneChange, ChangeIsAllowed, ActiveAdminRemains
<1>4. ASSUME NEW q \in Requests,
             \/ \E s \in DOMAIN sessions : BeginBySession(q, s)
             \/ LoginBegin(q)
      PROVE  OneChange' /\ ChangeIsAllowed' /\ ActiveAdminRemains'
  <2>1. /\ UNCHANGED users
        /\ \A r \in Requests \ {q} : requests'[r] = requests[r]
        /\ ~ Is(q, "ADMIN", "row")'
    BY <1>4 DEF BeginBySession, ProfileBegin, PasswordBegin, UpdateBegin, LoginBegin,
                Start, Is, Rows
  <2>2. \A r \in Requests : Is(r, "ADMIN", "row")' => /\ Is(r, "ADMIN", "row")
                                                      /\ requests'[r] = requests[r]
    BY <2>1 DEF Is
  <2>3. ActiveAdmins' = ActiveAdmins
    BY <2>1 DEF ActiveAdmins
  <2> QED
    BY <2>2, <2>3, ChangesUndisturbed DEF ActiveAdminRemains
<1>5. ASSUME NEW q \in Requests, LoginVerify(q)
      PROVE  OneChange' /\ ChangeIsAllowed' /\ ActiveAdminRemains'
  <2>1. /\ UNCHANGED users
        /\ \A r \in Requests \ {q} : requests'[r] = requests[r]
        /\ requests'[q].op = "LOGIN"
    BY <1>5 DEF LoginVerify, Is, Rows
  <2>2. \A r \in Requests : Is(r, "ADMIN", "row")' => /\ Is(r, "ADMIN", "row")
                                                      /\ requests'[r] = requests[r]
    BY <2>1 DEF Is
  <2>3. ActiveAdmins' = ActiveAdmins
    BY <2>1 DEF ActiveAdmins
  <2> QED
    BY <2>2, <2>3, ChangesUndisturbed DEF ActiveAdminRemains
<1>6. ASSUME NEW q \in Requests,
             LoginCommit(q) \/ Abandon(q) \/ UpdateMe(q) \/ ChangePassword(q)
      PROVE  OneChange' /\ ChangeIsAllowed' /\ ActiveAdminRemains'
  <2>1. End(q)
    BY <1>6 DEF LoginCommit, Abandon, UpdateMe, ChangePassword
  <2>2. \A r \in Requests : Is(r, "ADMIN", "row")' => /\ Is(r, "ADMIN", "row")
                                                      /\ requests'[r] = requests[r]
    BY <2>1 DEF End, Is, Rows
  <2>3. \A u \in Users : /\ users'[u].admin = users[u].admin
                         /\ users'[u].status = users[u].status
    <3>1. CASE LoginCommit(q) \/ Abandon(q)
      BY <3>1 DEF LoginCommit, Abandon
    <3>2. CASE UpdateMe(q) \/ ChangePassword(q)
      <4>1. PICK u \in Users : \/ users' = [users EXCEPT ![u].revision = requests[q].seen + 1]
                              \/ users' = [users EXCEPT ![u].password = requests[q].password,
                                                        ![u].revision = requests[q].seen + 1]
        BY <3>2, RequestFields DEF UpdateMe, ChangePassword, Is
      <4>2. users[u] \in Account
        BY DEF Rows
      <4>3. /\ \A v \in Users \ {u} : users'[v] = users[v]
            /\ users'[u].admin = users[u].admin
            /\ users'[u].status = users[u].status
        BY <4>1, <4>2 DEF Rows, Account
      <4> QED
        BY <4>3
    <3> QED
      BY <1>6, <3>1, <3>2
  <2>4. ActiveAdmins' = ActiveAdmins
    BY <2>3, SameAdmins
  <2> QED
    BY <2>2, <2>4, ChangesUndisturbed DEF ActiveAdminRemains
<1>7. ASSUME NEW q \in Requests, UpdateCheck(q)
      PROVE  OneChange' /\ ChangeIsAllowed' /\ ActiveAdminRemains'
  <2>1. /\ UNCHANGED users
        /\ requests' = [requests EXCEPT ![q].phase = "row"]
        /\ requests[q] \in AccountRequest
        /\ Keeps(q)
        /\ \A r \in Requests : ~ Is(r, "ADMIN", "row")
    BY <1>7 DEF UpdateCheck, AdminLockFree, Is, Rows
  <2>2. \A r \in Requests : Is(r, "ADMIN", "row")' => r = q
    BY <2>1 DEF Is, Rows
  <2>3. Keeps(q)'
    <3>1. /\ requests'[q].user = requests[q].user
          /\ requests'[q].admin = requests[q].admin
          /\ requests'[q].status = requests[q].status
      BY <2>1 DEF Rows, AccountRequest
    <3> QED
      BY <2>1, <3>1 DEF Keeps, ActiveAdmins
  <2> QED
    BY <2>1, <2>2, <2>3 DEF OneChange, ChangeIsAllowed, ActiveAdminRemains, ActiveAdmins
<1>8. ASSUME NEW q \in Requests, UpdateCommit(q)
      PROVE  OneChange' /\ ChangeIsAllowed' /\ ActiveAdminRemains'
  <2>1. Is(q, "ADMIN", "row") /\ Keeps(q) /\ End(q)
    BY <1>8 DEF UpdateCommit, ChangeIsAllowed
  <2>2. \A r \in Requests : ~ Is(r, "ADMIN", "row")'
    BY <2>1 DEF End, Is, OneChange, Rows
  <2>3. ActiveAdminRemains'
    <3> DEFINE u == requests[q].user
    <3>1. /\ u \in Users
          /\ \A v \in Users \ {u} : users'[v] = users[v]
          /\ users'[u].admin = requests[q].admin
          /\ users'[u].status = requests[q].status
      BY <1>8, <2>1, RequestFields DEF UpdateCommit, Is, Rows, Account
    <3>2. CASE requests[q].admin /\ requests[q].status = "ACTIVE"
      BY <3>1, <3>2 DEF ActiveAdmins, ActiveAdminRemains
    <3>3. CASE ~ (requests[q].admin /\ requests[q].status = "ACTIVE")
      <4>1. PICK v \in ActiveAdmins : v # u
        BY <2>1, <3>3 DEF Keeps, ActiveAdminRemains
      <4> QED
        BY <3>1, <4>1 DEF ActiveAdmins, ActiveAdminRemains
    <3> QED
      BY <3>2, <3>3
  <2> QED
    BY <2>2, <2>3 DEF OneChange, ChangeIsAllowed
<1> QED
  BY <1>1, <1>2, <1>3, <1>4, <1>5, <1>6, <1>7, <1>8 DEF AccountsNext

\* Whatever administrators do to each other at once, an active one remains: the
\* count that update_user makes under the advisory lock is still right when it
\* writes (operations.py:399).
THEOREM AnAdministratorRemains == AccountsSpec => []ActiveAdminRemains
<1>1. AccountsInit => AdminInv
  <2> SUFFICES ASSUME AccountsInit
               PROVE  AdminInv
    OBVIOUS
  <2>1. Rows
    BY RowsInit
  <2>2. OneChange /\ ChangeIsAllowed
    BY DEF AccountsInit, OneChange, ChangeIsAllowed, Is
  <2>3. Founder \in ActiveAdmins
    <3>1. users[Founder].admin /\ users[Founder].status = "ACTIVE"
      <4>1. PICK p \in Passwords :
               users = [u \in Users |->
                          NewAccount(IF u = Founder THEN "ACTIVE" ELSE "NONE", u = Founder, p)]
        BY DEF AccountsInit
      <4>2. users[Founder] = NewAccount("ACTIVE", TRUE, p)
        BY <4>1, AccountsAssumption
      <4> QED
        BY <4>2 DEF NewAccount
    <3> QED
      BY <3>1, AccountsAssumption DEF ActiveAdmins
  <2> QED
    BY <2>1, <2>2, <2>3 DEF AdminInv, ActiveAdminRemains
<1>2. AdminInv /\ [AccountsNext]_accountVars => AdminInv'
  BY RowsStep, AdminStep DEF AdminInv
<1>3. AdminInv => ActiveAdminRemains
  BY DEF AdminInv
<1> QED
  BY <1>1, <1>2, <1>3, PTL DEF AccountsSpec

-------------------------------------------------------------------------------
(* Sessions follow the account: who is past the check of a password holds  *)
(* the row, so the account stays active until the session is there; and a  *)
(* change of the password finds every session there is.                    *)

HoldsRow(q) == requests[q] # Idle /\ requests[q].phase = "row"

RowHeldOnce ==
    \A q1, q2 \in Requests :
        HoldsRow(q1) /\ HoldsRow(q2) /\ requests[q1].user = requests[q2].user => q1 = q2

LoginIsActive ==
    \A q \in Requests : Is(q, "LOGIN", "row") => users[requests[q].user].status = "ACTIVE"

LoginInv == Rows /\ RowHeldOnce /\ LoginIsActive

RenewalsKnown ==
    /\ renewed \in [Users -> [by : Nat, found : SUBSET Nat]]
    /\ \A u \in Users : renewed[u].found \subseteq DOMAIN sessions

FoundSessionsEnded ==
    \A s \in DOMAIN sessions :
        s \in renewed[sessions[s].user].found /\ ~ sessions[s].ended
        => s = renewed[sessions[s].user].by

RenewalInv == Rows /\ RenewalsKnown /\ FoundSessionsEnded

LEMMA LoginStep ==
    ASSUME LoginInv, [AccountsNext]_accountVars
    PROVE  RowHeldOnce' /\ LoginIsActive'
<1> USE DEF LoginInv
<1>1. CASE UNCHANGED <<users, requests>>
  BY <1>1 DEF RowHeldOnce, LoginIsActive, HoldsRow, Is
<1>2. ASSUME NEW s \in DOMAIN sessions, CreateUser(s)
      PROVE  RowHeldOnce' /\ LoginIsActive'
  <2>1. PICK u \in Users, p \in Passwords, admin \in BOOLEAN :
           /\ users[u].status = "NONE"
           /\ users' = [users EXCEPT ![u] = NewAccount("ACTIVE", admin, p)]
    BY <1>2 DEF CreateUser
  <2>2. /\ \A v \in Users \ {u} : users'[v] = users[v]
        /\ UNCHANGED requests
    BY <1>2, <2>1 DEF CreateUser, Rows
  <2>3. \A q \in Requests : Is(q, "LOGIN", "row") => requests[q].user \in Users \ {u}
    BY <2>1, RequestFields DEF LoginIsActive, Is
  <2> QED
    BY <2>2, <2>3 DEF RowHeldOnce, LoginIsActive, HoldsRow, Is
<1>3. ASSUME NEW q \in Requests,
             \/ \E s \in DOMAIN sessions : BeginBySession(q, s)
             \/ LoginBegin(q)
      PROVE  RowHeldOnce' /\ LoginIsActive'
  <2>1. /\ UNCHANGED users
        /\ \A r \in Requests \ {q} : requests'[r] = requests[r]
        /\ ~ HoldsRow(q)'
    BY <1>3 DEF BeginBySession, ProfileBegin, PasswordBegin, UpdateBegin, LoginBegin,
                Start, HoldsRow, Rows
  <2> QED
    BY <2>1 DEF RowHeldOnce, LoginIsActive, HoldsRow, Is
<1>4. ASSUME NEW q \in Requests, LoginVerify(q) \/ UpdateCheck(q)
      PROVE  RowHeldOnce' /\ LoginIsActive'
  <2>1. /\ UNCHANGED users
        /\ requests' = [requests EXCEPT ![q].phase = "row"]
        /\ requests[q] \in AccountRequest
        /\ RowFree(requests[q].user)
        /\ requests[q].op = "LOGIN" => users[requests[q].user].status = "ACTIVE"
    BY <1>4 DEF LoginVerify, UpdateCheck, Is, Rows
  <2>2. /\ \A r \in Requests \ {q} : requests'[r] = requests[r]
        /\ requests'[q].user = requests[q].user
        /\ requests'[q].op = requests[q].op
    BY <2>1 DEF Rows, AccountRequest
  <2>3. RowHeldOnce'
    BY <2>1, <2>2 DEF RowHeldOnce, HoldsRow, RowFree
  <2>4. LoginIsActive'
    BY <2>1, <2>2 DEF LoginIsActive, Is
  <2> QED
    BY <2>3, <2>4
<1>5. ASSUME NEW q \in Requests,
             \/ LoginCommit(q) \/ Abandon(q)
             \/ UpdateMe(q) \/ ChangePassword(q) \/ UpdateCommit(q)
      PROVE  RowHeldOnce' /\ LoginIsActive'
  <2>1. requests' = [requests EXCEPT ![q] = Idle]
    BY <1>5 DEF LoginCommit, Abandon, UpdateMe, ChangePassword, UpdateCommit, End
  <2>2. /\ \A r \in Requests \ {q} : requests'[r] = requests[r]
        /\ requests'[q] = Idle
    BY <2>1 DEF Rows
  <2>3. RowHeldOnce'
    BY <2>2 DEF RowHeldOnce, HoldsRow
  <2>4. ASSUME NEW r \in Requests \ {q}, Is(r, "LOGIN", "row")
        PROVE  users'[requests[r].user].status = "ACTIVE"
    <3> DEFINE v == requests[r].user
    <3>1. v \in Users /\ users[v] \in Account /\ users[v].status = "ACTIVE"
      BY <2>4, RequestFields DEF LoginIsActive, Is, Rows
    <3>2. CASE LoginCommit(q) \/ Abandon(q)
      BY <3>1, <3>2 DEF LoginCommit, Abandon
    <3>3. CASE UpdateMe(q)
      BY <3>1, <3>3 DEF UpdateMe, Rows, Account
    <3>4. CASE ChangePassword(q)
      <4>1. users' = [users EXCEPT ![requests[q].user].password = requests[q].password,
                                   ![requests[q].user].revision = requests[q].seen + 1]
        BY <3>4 DEF ChangePassword
      <4> QED
        BY <3>1, <4>1 DEF Rows, Account
    <3>5. CASE UpdateCommit(q)
      <4>1. HoldsRow(q) /\ HoldsRow(r) /\ r # q
        BY <2>4, <3>5 DEF UpdateCommit, Is, HoldsRow
      <4>2. requests[q].user # v
        BY <4>1 DEF RowHeldOnce
      <4>3. users'[v] = users[v]
        BY <3>1, <3>5, <4>2 DEF UpdateCommit, Rows
      <4> QED
        BY <3>1, <4>3
    <3> QED
      BY <1>5, <3>2, <3>3, <3>4, <3>5
  <2>5. LoginIsActive'
    BY <2>2, <2>4 DEF LoginIsActive, Is
  <2> QED
    BY <2>3, <2>5
<1> QED
  BY <1>1, <1>2, <1>3, <1>4, <1>5 DEF AccountsNext, accountVars, Logout, Expire

LEMMA RenewalStep ==
    ASSUME RenewalInv, [AccountsNext]_accountVars
    PROVE  RenewalsKnown' /\ FoundSessionsEnded'
<1> USE DEF RenewalInv
<1>1. CASE UNCHANGED <<sessions, renewed>>
  BY <1>1 DEF RenewalsKnown, FoundSessionsEnded
<1>2. ASSUME NEW s \in DOMAIN sessions, Logout(s) \/ Expire(s)
      PROVE  RenewalsKnown' /\ FoundSessionsEnded'
  <2>1. /\ sessions' = [sessions EXCEPT ![s].ended = TRUE]
        /\ UNCHANGED renewed
    BY <1>2 DEF Logout, Expire
  <2>2. /\ DOMAIN sessions' = DOMAIN sessions
        /\ \A t \in DOMAIN sessions \ {s} : sessions'[t] = sessions[t]
        /\ sessions[s] \in Session
    BY <2>1 DEF Rows
  <2>3. sessions'[s].ended
    BY <2>1, <2>2 DEF Session
  <2> QED
    BY <2>1, <2>2, <2>3 DEF RenewalsKnown, FoundSessionsEnded
<1>3. ASSUME NEW q \in Requests, LoginCommit(q)
      PROVE  RenewalsKnown' /\ FoundSessionsEnded'
  <2> DEFINE n == Len(sessions) + 1
  <2>1. /\ sessions' = Append(sessions, [user |-> requests[q].user, ended |-> FALSE])
        /\ UNCHANGED renewed
        /\ requests[q].user \in Users
    BY <1>3, RequestFields DEF LoginCommit, Is
  <2>2. /\ DOMAIN sessions = 1..Len(sessions)
        /\ DOMAIN sessions' = 1..n
        /\ \A t \in DOMAIN sessions : sessions'[t] = sessions[t]
        /\ sessions'[n] = [user |-> requests[q].user, ended |-> FALSE]
        /\ n \notin DOMAIN sessions
        /\ DOMAIN sessions' = DOMAIN sessions \union {n}
    BY <2>1 DEF Rows
  <2>3. RenewalsKnown'
    BY <2>1, <2>2 DEF RenewalsKnown
  <2>4. n \notin renewed[requests[q].user].found
    BY <2>1, <2>2 DEF RenewalsKnown
  <2> QED
    BY <2>1, <2>2, <2>3, <2>4 DEF FoundSessionsEnded
<1>4. ASSUME NEW q \in Requests, ChangePassword(q)
      PROVE  RenewalsKnown' /\ FoundSessionsEnded'
  <2> DEFINE u == requests[q].user
  <2>1. /\ renewed' = [renewed EXCEPT ![u] = [by |-> requests[q].session,
                                              found |-> DOMAIN sessions]]
        /\ sessions' = [s \in DOMAIN sessions |->
                           IF s \in OthersOf(q) THEN [sessions[s] EXCEPT !.ended = TRUE]
                           ELSE sessions[s]]
    BY <1>4 DEF ChangePassword
  <2>2. /\ u \in Users
        /\ requests[q].session \in Nat
    <3>1. requests[q] \in AccountRequest /\ requests[q].op = "PASSWORD"
      BY <1>4 DEF ChangePassword, Is, Rows
    <3>2. requests[q].user \in Users /\ requests[q].session \in 1..MaxSessions
      BY <3>1 DEF AccountRequest
    <3> QED
      BY <3>2
  <2>3. DOMAIN sessions \in SUBSET Nat
    BY DEF Rows
  <2>4. /\ DOMAIN sessions' = DOMAIN sessions
        /\ renewed'[u] = [by |-> requests[q].session, found |-> DOMAIN sessions]
        /\ \A v \in Users \ {u} : renewed'[v] = renewed[v]
    BY <2>1, <2>2 DEF RenewalsKnown
  <2>5. RenewalsKnown'
    BY <2>1, <2>2, <2>3, <2>4 DEF RenewalsKnown
  <2>6. ASSUME NEW s \in DOMAIN sessions, ~ sessions'[s].ended,
               s \in renewed'[sessions'[s].user].found
        PROVE  s = renewed'[sessions'[s].user].by
    <3>1. sessions[s] \in Session /\ sessions[s].user \in Users
      BY SessionFields DEF Rows
    <3>2. s \notin OthersOf(q)
      <4>1. ASSUME s \in OthersOf(q)
            PROVE  sessions'[s].ended
        BY <2>1, <3>1, <4>1 DEF Session
      <4> QED
        BY <2>6, <4>1
    <3>3. sessions'[s] = sessions[s]
      BY <2>1, <3>2
    <3>4. CASE sessions[s].user = u
      <4>1. s = requests[q].session
        BY <2>6, <3>2, <3>3, <3>4 DEF OthersOf
      <4> QED
        BY <2>4, <3>3, <3>4, <4>1
    <3>5. CASE sessions[s].user # u
      BY <2>4, <2>6, <3>1, <3>3, <3>5 DEF FoundSessionsEnded
    <3> QED
      BY <3>4, <3>5
  <2> QED
    BY <2>4, <2>5, <2>6 DEF FoundSessionsEnded
<1> QED
  BY <1>1, <1>2, <1>3, <1>4
  DEF AccountsNext, accountVars, CreateUser, BeginBySession, ProfileBegin, PasswordBegin,
      UpdateBegin, LoginBegin, LoginVerify, Abandon, UpdateMe, UpdateCheck, UpdateCommit

\* Sessions follow their account: a change of password ends those it finds, and
\* none is opened for an account an administrator has locked by then (auth.py:258,
\* auth.py:163).
THEOREM SessionsFollow == AccountsSpec => SessionsFollowTheAccount
<1>1. AccountsInit => LoginInv /\ RenewalInv
  <2> SUFFICES ASSUME AccountsInit
               PROVE  LoginInv /\ RenewalInv
    OBVIOUS
  <2>1. Rows
    BY RowsInit
  <2>2. RowHeldOnce /\ LoginIsActive
    BY DEF AccountsInit, RowHeldOnce, LoginIsActive, HoldsRow, Is
  <2>3. RenewalsKnown /\ FoundSessionsEnded
    BY DEF AccountsInit, RenewalsKnown, FoundSessionsEnded
  <2> QED
    BY <2>1, <2>2, <2>3 DEF LoginInv, RenewalInv
<1>2. LoginInv /\ RenewalInv /\ [AccountsNext]_accountVars => (LoginInv /\ RenewalInv)'
  BY RowsStep, LoginStep, RenewalStep DEF LoginInv, RenewalInv
<1>3. RenewalInv => OldSessionsEnd
  BY DEF RenewalInv, FoundSessionsEnded, OldSessionsEnd, Valid
<1>4. LoginInv /\ [AccountsNext]_accountVars =>
        [\A s \in DOMAIN sessions' :
            s \notin DOMAIN sessions => users[sessions'[s].user].status = "ACTIVE"]_accountVars
  <2> SUFFICES ASSUME LoginInv, AccountsNext,
                      NEW s \in DOMAIN sessions', s \notin DOMAIN sessions
               PROVE  users[sessions'[s].user].status = "ACTIVE"
    BY DEF accountVars
  <2>1. PICK q \in Requests : LoginCommit(q)
    BY DEF AccountsNext, CreateUser, BeginBySession, ProfileBegin, PasswordBegin, UpdateBegin,
           LoginBegin, LoginVerify, Abandon, UpdateMe, ChangePassword, UpdateCheck,
           UpdateCommit, Logout, Expire
  <2>2. /\ sessions' = Append(sessions, [user |-> requests[q].user, ended |-> FALSE])
        /\ users[requests[q].user].status = "ACTIVE"
    BY <2>1 DEF LoginCommit, LoginInv, LoginIsActive
  <2>3. sessions'[s] = [user |-> requests[q].user, ended |-> FALSE]
    BY <2>2 DEF LoginInv, Rows
  <2> QED
    BY <2>2, <2>3
<1>5. AccountsSpec => []OldSessionsEnd
  BY <1>1, <1>2, <1>3, PTL DEF AccountsSpec
<1>6. AccountsSpec => NoSessionForLockedAccount
  BY <1>1, <1>2, <1>4, PTL DEF AccountsSpec, NoSessionForLockedAccount
<1> QED
  BY <1>5, <1>6 DEF SessionsFollowTheAccount

\* Of some numbers there is a k-th, for every k up to how many they are.
LEMMA Ranked ==
    ASSUME NEW n \in Nat, NEW P \in SUBSET (1..n), NEW k \in 1..Cardinality(P)
    PROVE  \E i \in P : Cardinality({j \in P : j <= i}) = k
<1> DEFINE Upto(m) == {j \in P : j <= m}
           T == {m \in Nat : k <= Cardinality(Upto(m))}
<1>0. \A j \in P : j \in Nat /\ 1 <= j /\ j <= n
  OBVIOUS
<1>1. IsFiniteSet(P)
  <2>1. IsFiniteSet(1..n)
    BY FS_Interval
  <2> QED BY <2>1, FS_Subset
<1>2. \A m \in Nat : IsFiniteSet(Upto(m)) /\ Cardinality(Upto(m)) \in Nat
  BY <1>1, FS_Subset, FS_CardinalityType
<1>3. Upto(n) = P
  BY <1>0
<1>4. Cardinality(P) \in Nat /\ k \in Nat /\ k >= 1
  BY <1>1, FS_CardinalityType
<1>5. n \in T
  <2> HIDE DEF Upto
  <2> QED BY <1>3, <1>4
<1>6. PICK m \in T : \A l \in T : ~(<<l, m>> \in OpToRel(<, Nat))
  <2>1. T \subseteq Nat /\ T # {}
    BY <1>5
  <2> HIDE DEF T
  <2> QED BY <2>1, WFMin, NatLessThanWellFounded
<1>7. m \in Nat /\ k <= Cardinality(Upto(m))
  BY <1>6
<1>8. m # 0
  <2>0. \A j \in P : ~(j <= 0)
    BY <1>0
  <2>1. Upto(0) = {}
    BY <2>0
  <2>2. Cardinality(Upto(0)) = 0
    BY <2>1, FS_EmptySet
  <2> HIDE DEF Upto
  <2> QED BY <1>4, <1>7, <2>2
<1>9. m - 1 \in Nat /\ m - 1 \notin T
  <2>1. m - 1 \in Nat /\ m - 1 < m
    BY <1>7, <1>8
  <2>2. <<m - 1, m>> \in OpToRel(<, Nat)
    BY <1>7, <2>1 DEF OpToRel
  <2> QED BY <1>6, <2>1, <2>2
<1>10. Cardinality(Upto(m - 1)) < k
  <2>1. ~(k <= Cardinality(Upto(m - 1)))
    BY <1>9
  <2> HIDE DEF Upto
  <2> QED BY <1>2, <1>4, <1>9, <2>1
<1>11. Upto(m) = Upto(m - 1) \union (IF m \in P THEN {m} ELSE {})
  <2>1. \A j \in P : j <= m <=> j <= m - 1 \/ j = m
    BY <1>0, <1>7
  <2>2. m \in P => m \in Upto(m)
    BY <1>7
  <2> QED BY <1>0, <1>7, <2>1, <2>2
<1>12. m \notin Upto(m - 1)
  BY <1>7
<1> HIDE DEF Upto, T
<1>13. m \in P
  <2> SUFFICES ASSUME m \notin P PROVE FALSE
    OBVIOUS
  <2>1. Upto(m) = Upto(m - 1)
    BY <1>11
  <2> QED BY <1>2, <1>4, <1>7, <1>9, <1>10, <2>1
<1>14. Cardinality(Upto(m)) = Cardinality(Upto(m - 1)) + 1
  <2>1. Upto(m) = Upto(m - 1) \union {m}
    BY <1>11, <1>13
  <2>2. IsFiniteSet(Upto(m - 1))
    BY <1>2, <1>9
  <2> QED BY <1>12, <2>1, <2>2, FS_AddElement
<1>15. Cardinality(Upto(m)) = k
  BY <1>2, <1>4, <1>7, <1>9, <1>10, <1>14
<1> QED BY <1>13, <1>15 DEF Upto

\* The entries at some places are entries of the table, each at most once.
LEMMA AtFacts ==
    ASSUME table \in Seq(Entry), NEW places \in SUBSET (DOMAIN table)
    PROVE  /\ At(places) \in Seq(Entry) /\ Len(At(places)) <= Len(table)
           /\ \A k \in DOMAIN At(places) : \E i \in places : At(places)[k] = table[i]
           /\ \A k, l \in DOMAIN At(places) :
                 (\A i, j \in DOMAIN table : table[i].client = table[j].client => i = j)
                 /\ At(places)[k].client = At(places)[l].client => k = l
<1> DEFINE place(k) == CHOOSE i \in places : Cardinality({j \in places : j <= i}) = k
           n == Cardinality(places)
<1>1. Len(table) \in Nat /\ places \subseteq 1..Len(table)
  OBVIOUS
<1>2. IsFiniteSet(places) /\ n \in Nat /\ n <= Len(table)
  <2>1. IsFiniteSet(1..Len(table)) /\ Cardinality(1..Len(table)) = Len(table)
    <3>1. /\ IsFiniteSet(1..Len(table))
          /\ Cardinality(1..Len(table)) = IF 1 > Len(table) THEN 0 ELSE Len(table) - 1 + 1
      BY <1>1, FS_Interval
    <3> QED BY <1>1, <3>1
  <2>2. IsFiniteSet(places) /\ n <= Len(table)
    BY <1>1, <2>1, FS_Subset
  <2> QED BY <2>2, FS_CardinalityType
<1>3. ASSUME NEW k \in 1..n
      PROVE  /\ place(k) \in places /\ Cardinality({j \in places : j <= place(k)}) = k
  <2>1. Len(table) \in Nat /\ places \in SUBSET (1..Len(table))
    BY <1>1
  <2>2. k \in 1..Cardinality(places)
    OBVIOUS
  <2> HIDE DEF n
  <2>3. \E i \in places : Cardinality({j \in places : j <= i}) = k
    BY <2>1, <2>2, Ranked
  <2> QED BY <2>3
<1>4. At(places) = [k \in 1..n |-> table[place(k)]]
  BY DEF At
<1> HIDE DEF place, n
<1>5. \A k \in 1..n : table[place(k)] \in Entry
  <2> SUFFICES ASSUME NEW k \in 1..n PROVE table[place(k)] \in Entry
    OBVIOUS
  <2>1. place(k) \in 1..Len(table)
    BY <1>1, <1>3
  <2> QED BY <2>1
<1>6. At(places) \in Seq(Entry) /\ Len(At(places)) = n /\ DOMAIN At(places) = 1..n
  BY <1>2, <1>4, <1>5
<1>7. ASSUME \A i, j \in DOMAIN table : table[i].client = table[j].client => i = j,
             NEW k \in 1..n, NEW l \in 1..n, At(places)[k].client = At(places)[l].client
      PROVE  k = l
  <2>1. place(k) = place(l)
    BY <1>3, <1>4, <1>7
  <2> QED BY <1>3, <2>1
<1> QED BY <1>2, <1>3, <1>4, <1>6, <1>7

-------------------------------------------------------------------------------
(* The table of clients.                                                   *)

\* Every client has one entry at most.
OneEntryEach == \A i, j \in DOMAIN table : table[i].client = table[j].client => i = j

\* Some entries of the table, among them those that are looked for: what a
\* reservation works on.
RoomOf(room, c) ==
    /\ room \in Seq(Entry)
    /\ \A k \in DOMAIN room : \E i \in DOMAIN table : room[k] = table[i]
    /\ \A k, l \in DOMAIN room : room[k].client = room[l].client => k = l
    /\ Len(room) <= MaxTracked
    /\ Places(c) = {} => Len(room) < MaxTracked
    /\ Places(c) # {} => room = table

\* Whether the table has room, its expired entries make room or its oldest does.
LEMMA RoomFacts ==
    ASSUME table \in Seq(Entry), Len(table) <= MaxTracked, OneEntryEach, NEW c \in Clients
    PROVE  RoomOf(WithRoom(c), c)
<1> DEFINE alive == At({i \in DOMAIN table : ~ Expired(table[i])})
<1>1. /\ alive \in Seq(Entry) /\ Len(alive) <= Len(table)
      /\ \A k \in DOMAIN alive : \E i \in DOMAIN table : alive[k] = table[i]
      /\ \A k, l \in DOMAIN alive : alive[k].client = alive[l].client => k = l
  <2> DEFINE places == {i \in DOMAIN table : ~ Expired(table[i])}
  <2>1. places \in SUBSET (DOMAIN table)
    OBVIOUS
  <2>2. alive = At(places)
    OBVIOUS
  <2> HIDE DEF places, alive
  <2> QED BY <2>1, <2>2, AtFacts DEF OneEntryEach
<1>2. MaxTracked \in Nat /\ MaxTracked > 0 /\ Len(table) \in Nat
  BY SignInConstants
<1>3. WithRoom(c) = IF Places(c) # {} \/ Len(table) < MaxTracked THEN table
                    ELSE IF Len(alive) < MaxTracked THEN alive ELSE Tail(alive)
  BY DEF WithRoom
<1> HIDE DEF alive
<1>4. CASE Places(c) # {} \/ Len(table) < MaxTracked
  BY <1>3, <1>4 DEF RoomOf, OneEntryEach
<1>5. CASE Places(c) = {} /\ ~(Len(table) < MaxTracked) /\ Len(alive) < MaxTracked
  BY <1>1, <1>2, <1>3, <1>5 DEF RoomOf
<1>6. CASE Places(c) = {} /\ ~(Len(table) < MaxTracked) /\ ~(Len(alive) < MaxTracked)
  <2> DEFINE rest == Tail(alive)
  <2>1. Len(alive) \in Nat /\ Len(alive) > 0 /\ Len(alive) <= MaxTracked
    BY <1>1, <1>2, <1>6
  <2>2. /\ rest \in Seq(Entry) /\ Len(rest) = Len(alive) - 1
        /\ \A k \in 1..Len(alive) - 1 : rest[k] = alive[k + 1]
    BY <1>1, <2>1
  <2>3. WithRoom(c) = rest
    BY <1>3, <1>6
  <2> HIDE DEF rest
  <2>4. \A k \in DOMAIN rest : k \in Nat /\ k + 1 \in DOMAIN alive /\ rest[k] = alive[k + 1]
    BY <1>1, <2>1, <2>2
  <2>5. \A k, l \in DOMAIN rest : rest[k].client = rest[l].client => k = l
    <3> SUFFICES ASSUME NEW k \in DOMAIN rest, NEW l \in DOMAIN rest,
                        rest[k].client = rest[l].client
                 PROVE  k = l
      OBVIOUS
    <3>1. k + 1 = l + 1
      BY <1>1, <2>4
    <3> QED BY <2>4, <3>1
  <2>6. \A k \in DOMAIN rest : \E i \in DOMAIN table : rest[k] = table[i]
    BY <1>1, <2>4
  <2>7. Len(rest) < MaxTracked
    BY <1>2, <2>1, <2>2
  <2> QED BY <1>2, <1>6, <2>2, <2>3, <2>5, <2>6, <2>7 DEF RoomOf
<1> QED BY <1>4, <1>5, <1>6

\* Storing an entry of a client changes no other client's.
LEMMA StoredFacts ==
    ASSUME NEW room \in Seq(Entry), NEW entry \in Entry,
           \A k, l \in DOMAIN room : room[k].client = room[l].client => k = l
    PROVE  LET new == Stored(entry, room) IN
           /\ new \in Seq(Entry)
           /\ \A k, l \in DOMAIN new : new[k].client = new[l].client => k = l
           /\ \E k \in DOMAIN new : new[k] = entry
           /\ \A k \in DOMAIN new :
                 \/ new[k] = entry
                 \/ /\ new[k].client # entry.client
                    /\ \E l \in DOMAIN room : new[k] = room[l]
           /\ \A l \in DOMAIN room : room[l].client # entry.client =>
                 \E k \in DOMAIN new : new[k] = room[l]
           /\ Len(new) <= Len(room) + 1
           /\ (\E l \in DOMAIN room : room[l].client = entry.client) => Len(new) = Len(room)
<1> DEFINE new == Stored(entry, room)
<1>1. CASE \E l \in DOMAIN room : room[l].client = entry.client
  <2>1. PICK m \in DOMAIN room : room[m].client = entry.client
    BY <1>1
  <2>2. new = [i \in DOMAIN room |-> IF room[i].client = entry.client THEN entry ELSE room[i]]
    BY <1>1 DEF Stored
  <2>3. \A i \in DOMAIN room : new[i] = IF i = m THEN entry ELSE room[i]
    BY <2>1, <2>2
  <2>4. DOMAIN new = DOMAIN room /\ new \in Seq(Entry) /\ Len(new) = Len(room)
    BY <2>2
  <2> HIDE DEF new
  <2>5. \A k, l \in DOMAIN new : new[k].client = new[l].client => k = l
    BY <2>1, <2>3, <2>4
  <2>6. \A k \in DOMAIN new :
           \/ new[k] = entry
           \/ /\ new[k].client # entry.client
              /\ \E l \in DOMAIN room : new[k] = room[l]
    BY <2>1, <2>3, <2>4
  <2>7. \A l \in DOMAIN room : room[l].client # entry.client =>
           \E k \in DOMAIN new : new[k] = room[l]
    BY <2>1, <2>3, <2>4
  <2>8. \E k \in DOMAIN new : new[k] = entry
    BY <2>1, <2>3, <2>4
  <2>9. Len(new) <= Len(room) + 1
    BY <2>4
  <2> QED BY <2>4, <2>5, <2>6, <2>7, <2>8, <2>9 DEF new
<1>2. CASE ~ \E l \in DOMAIN room : room[l].client = entry.client
  <2>1. new = Append(room, entry)
    BY <1>2 DEF Stored
  <2>2. /\ new \in Seq(Entry) /\ Len(new) = Len(room) + 1 /\ Len(room) \in Nat
        /\ \A k \in DOMAIN room : k \in DOMAIN new /\ new[k] = room[k]
        /\ new[Len(room) + 1] = entry
        /\ DOMAIN new = DOMAIN room \union {Len(room) + 1}
    BY <2>1
  <2> HIDE DEF new
  <2>3. \A k, l \in DOMAIN new : new[k].client = new[l].client => k = l
    BY <1>2, <2>2
  <2>4. \A k \in DOMAIN new :
           \/ new[k] = entry
           \/ /\ new[k].client # entry.client
              /\ \E l \in DOMAIN room : new[k] = room[l]
    BY <1>2, <2>2
  <2>5. Len(new) <= Len(room) + 1
    BY <2>2
  <2> QED BY <1>2, <2>2, <2>3, <2>4, <2>5 DEF new
<1> QED BY <1>1, <1>2
-------------------------------------------------------------------------------
(* The throttle.                                                           *)

Charges(c) == charged[c].failures + Cardinality(Pending(c))

SignInRows ==
    /\ table \in Seq(Entry) /\ Len(table) <= MaxTracked
    /\ attempts \in [Attempts -> Attempt \union {NoAttempt}]
    /\ charged \in [Clients -> [failures : Nat, late : Nat]]
    /\ clock \in 1..MaxClock
    /\ free \in Int

\* What was charged to a client in its window is in its entry, but for what late
\* releases took from it; a client without an entry has nothing to count.
ChargesAreCounted ==
    \A c \in Clients :
        /\ \A i \in Places(c) : Charges(c) <= table[i].count + charged[c].late
        /\ Places(c) = {} => Charges(c) <= charged[c].late

ThrottleInv ==
    /\ SignInRows
    /\ OneEntryEach
    /\ OnlyFailuresAreCharged
    /\ ChargesAreCounted
    /\ SlotsAreNeverLost

LEMMA EntryFacts ==
    ASSUME SignInRows, NEW i \in DOMAIN table
    PROVE  /\ table[i] \in Entry /\ table[i].client \in Clients
           /\ table[i].start \in 1..MaxClock
           /\ table[i].count \in Nat /\ table[i].count <= ClientLimit
<1>1. table[i] \in Entry
  BY DEF SignInRows
<1>2. ClientLimit \in Nat
  BY SignInConstants
<1> QED BY <1>1, <1>2 DEF Entry

LEMMA PendingIsFinite ==
    ASSUME NEW c
    PROVE  IsFiniteSet(Pending(c)) /\ Cardinality(Pending(c)) \in Nat
BY SignInConstants, FS_Subset, FS_CardinalityType DEF Pending

\* Who leaves is pending no more.
LEMMA LeavePending ==
    ASSUME SignInRows, NEW a \in Attempts, attempts[a] # NoAttempt, Leave(a), NEW c \in Clients
    PROVE  /\ Cardinality(Pending(c)') =
                 IF a \in Pending(c) THEN Cardinality(Pending(c)) - 1
                 ELSE Cardinality(Pending(c))
           /\ Cardinality(Pending(c)') \in Nat
<1>1. attempts' = [attempts EXCEPT ![a] = NoAttempt]
  BY DEF Leave
<1>2. Pending(c)' = Pending(c) \ {a}
  BY <1>1 DEF Pending, SignInRows
<1>3. Cardinality(Pending(c)') = IF a \in Pending(c) THEN Cardinality(Pending(c)) - 1
                                 ELSE Cardinality(Pending(c))
  BY <1>2, PendingIsFinite, FS_RemoveElement
<1>4. IsFiniteSet(Pending(c)')
  BY <1>2, PendingIsFinite, FS_RemoveElement
<1> QED BY <1>3, <1>4, FS_CardinalityType

\* Who leaves gives its slot back.
LEMMA LeaveSlots ==
    ASSUME SignInRows, SlotsAreNeverLost, NEW a \in Attempts, attempts[a] # NoAttempt, Leave(a)
    PROVE  SlotsAreNeverLost' /\ free' \in Int
<1> DEFINE held == {b \in Attempts : Checks(b)}
<1>1. IsFiniteSet(held) /\ Cardinality(held) \in Nat
  BY SignInConstants, FS_Subset, FS_CardinalityType
<1>2. held' = held \ {a}
  BY DEF Leave, Checks, SignInRows
<1>3. Cardinality(held') = IF a \in held THEN Cardinality(held) - 1 ELSE Cardinality(held)
  BY <1>1, <1>2, FS_RemoveElement
<1>4. a \in held <=> attempts[a].phase = "checking"
  BY DEF Checks
<1>5. free' = IF attempts[a].phase = "checking" THEN free + 1 ELSE free
  BY DEF Leave
<1>6. free + Cardinality(held) = Slots
  BY DEF SlotsAreNeverLost
<1> HIDE DEF held
<1>7. free' + Cardinality(held') = Slots /\ free' \in Int
  BY <1>1, <1>3, <1>4, <1>5, <1>6, SignInConstants DEF SignInRows
<1> QED BY <1>7 DEF held, SlotsAreNeverLost

\* The end of an attempt that stays counted.
LEMMA ChargeStep ==
    ASSUME ThrottleInv, NEW a \in Attempts, attempts[a] # NoAttempt, Charge(a), Leave(a),
           UNCHANGED clock
    PROVE  ThrottleInv'
<1> USE DEF ThrottleInv
<1>1. attempts[a] \in Attempt /\ attempts[a].client \in Clients
  BY DEF SignInRows, Attempt
<1> DEFINE c == attempts[a].client
<1>2. charged' = IF attempts[a].present THEN [charged EXCEPT ![c].failures = @ + 1] ELSE charged
  BY DEF Charge
<1>3. UNCHANGED table
  BY DEF Charge
<1>4. a \in Pending(c) <=> attempts[a].present
  BY DEF Pending
<1>5. \A d \in Clients : d # c => a \notin Pending(d)
  BY DEF Pending
<1>6. charged[c] \in [failures : Nat, late : Nat]
  BY <1>1 DEF SignInRows
<1>7. charged' \in [Clients -> [failures : Nat, late : Nat]]
  BY <1>1, <1>2, <1>6 DEF SignInRows
<1>8. ASSUME NEW d \in Clients PROVE Charges(d)' = Charges(d) /\ charged'[d].late = charged[d].late
  <2>1. charged[d] \in [failures : Nat, late : Nat]
    BY DEF SignInRows
  <2>2. CASE d = c /\ attempts[a].present
    <3>1. charged'[d].failures = charged[d].failures + 1 /\ charged'[d].late = charged[d].late
      BY <1>1, <1>2, <2>1, <2>2 DEF SignInRows
    <3>2. Cardinality(Pending(d)') = Cardinality(Pending(d)) - 1
      BY <1>4, <2>2, LeavePending
    <3>3. Cardinality(Pending(d)) \in Nat
      BY PendingIsFinite
    <3> QED BY <2>1, <3>1, <3>2, <3>3 DEF Charges
  <2>3. CASE ~(d = c /\ attempts[a].present)
    <3>1. charged'[d] = charged[d]
      BY <1>1, <1>2, <2>3 DEF SignInRows
    <3>2. Cardinality(Pending(d)') = Cardinality(Pending(d))
      BY <1>4, <1>5, <2>3, LeavePending
    <3> QED BY <3>1, <3>2 DEF Charges
  <2> QED BY <2>2, <2>3
<1>9. attempts' \in [Attempts -> Attempt \union {NoAttempt}]
  BY DEF Leave, SignInRows
<1>10. SignInRows' /\ OneEntryEach'
  BY <1>3, <1>7, <1>9, LeaveSlots DEF SignInRows, OneEntryEach
<1>11. OnlyFailuresAreCharged'
  <2>1. \A i \in DOMAIN table : table[i].client \in Clients
    BY EntryFacts
  <2> QED BY <1>3, <1>8, <2>1 DEF OnlyFailuresAreCharged, Charges
<1>12. ChargesAreCounted'
  BY <1>3, <1>8 DEF ChargesAreCounted, Places
<1> QED BY <1>10, <1>11, <1>12, LeaveSlots

\* The end of an attempt that costs nothing.
LEMMA ReleaseStep ==
    ASSUME ThrottleInv, NEW a \in Attempts, attempts[a] # NoAttempt, Release(a), Leave(a),
           UNCHANGED clock
    PROVE  ThrottleInv'
<1> USE DEF ThrottleInv
<1>1. attempts[a] \in Attempt /\ attempts[a].client \in Clients
  BY DEF SignInRows, Attempt
<1> DEFINE c == attempts[a].client
           counted == {i \in Places(c) : table[i].count > 0}
           lower(i) == [table[i] EXCEPT !.count = @ - 1]
<1>2. /\ table' = [i \in DOMAIN table |-> IF i \in counted THEN lower(i) ELSE table[i]]
      /\ charged' = IF counted # {} /\ ~ attempts[a].present
                    THEN [charged EXCEPT ![c].late = @ + 1] ELSE charged
  BY DEF Release
<1>3. counted \subseteq DOMAIN table /\ \A i \in counted : table[i].client = c
  BY DEF Places
<1>4. ASSUME NEW i \in counted
      PROVE  /\ lower(i) \in Entry
             /\ lower(i).client = table[i].client
             /\ lower(i).count = table[i].count - 1
  <2>1. table[i] \in Entry /\ table[i].count \in Nat /\ table[i].count <= ClientLimit
    BY <1>3, EntryFacts
  <2>2. table[i].count - 1 \in 0..ClientLimit
    BY <2>1, SignInConstants
  <2> QED BY <2>1, <2>2 DEF Entry
<1>5. \A i \in DOMAIN table : table[i] \in Entry
  BY EntryFacts
<1> HIDE DEF lower, counted
<1>6. /\ DOMAIN table' = DOMAIN table /\ Len(table') = Len(table) /\ table' \in Seq(Entry)
      /\ \A i \in DOMAIN table : table'[i] = IF i \in counted THEN lower(i) ELSE table[i]
  <2>1. DOMAIN table = 1..Len(table) /\ Len(table) \in Nat
    BY DEF SignInRows
  <2>2. \A i \in DOMAIN table : (IF i \in counted THEN lower(i) ELSE table[i]) \in Entry
    BY <1>4, <1>5
  <2> QED BY <1>2, <2>1, <2>2
<1>7. \A i \in DOMAIN table : table'[i].client = table[i].client
  BY <1>3, <1>4, <1>6
<1>8. \A d \in Clients : Places(d)' = Places(d)
  BY <1>6, <1>7 DEF Places
<1>9. \A i \in DOMAIN table :
         table'[i].count = IF i \in counted THEN table[i].count - 1 ELSE table[i].count
  BY <1>4, <1>6
<1>10. charged' \in [Clients -> [failures : Nat, late : Nat]]
  <2>1. charged[c] \in [failures : Nat, late : Nat]
    BY <1>1 DEF SignInRows
  <2> QED BY <1>1, <1>2, <2>1 DEF SignInRows
<1>11. ASSUME NEW d \in Clients
       PROVE  /\ Charges(d) \in Nat /\ Charges(d)' \in Nat
              /\ charged[d].late \in Nat /\ charged'[d].late \in Nat
              /\ Charges(d)' = IF d = c /\ attempts[a].present THEN Charges(d) - 1 ELSE Charges(d)
              /\ charged'[d].late = IF d = c /\ counted # {} /\ ~ attempts[a].present
                                    THEN charged[d].late + 1 ELSE charged[d].late
  <2>1. charged[d] \in [failures : Nat, late : Nat] /\ charged'[d] \in [failures : Nat, late : Nat]
    BY <1>10 DEF SignInRows
  <2>2. /\ charged'[d].failures = charged[d].failures
        /\ charged'[d].late = IF d = c /\ counted # {} /\ ~ attempts[a].present
                              THEN charged[d].late + 1 ELSE charged[d].late
    BY <1>1, <1>2, <2>1 DEF SignInRows
  <2>3. a \in Pending(d) <=> d = c /\ attempts[a].present
    BY DEF Pending
  <2>4. /\ Cardinality(Pending(d)') = IF d = c /\ attempts[a].present
                                      THEN Cardinality(Pending(d)) - 1
                                      ELSE Cardinality(Pending(d))
        /\ Cardinality(Pending(d)) \in Nat /\ Cardinality(Pending(d)') \in Nat
    BY <2>3, LeavePending, PendingIsFinite
  <2> QED BY <2>1, <2>2, <2>4 DEF Charges
<1>12. OneEntryEach'
  BY <1>6, <1>7 DEF OneEntryEach
<1>13. \A i \in DOMAIN table : i \in counted <=> table[i].client = c /\ table[i].count > 0
  BY DEF counted, Places
<1>14. counted # {} => \A i \in Places(c) : i \in counted
  <2>1. \A i \in Places(c) : \A j \in counted : i = j
    BY <1>3 DEF Places, OneEntryEach
  <2> QED BY <2>1
<1>15. OnlyFailuresAreCharged'
  <2>1. ASSUME NEW i \in DOMAIN table, NEW d \in Clients, d = table[i].client
        PROVE  table'[i].count <= Charges(d)'
    <3>1. table[i].count \in Nat
      BY EntryFacts
    <3>2. table[i].count <= Charges(d)
      BY <2>1 DEF OnlyFailuresAreCharged, Charges
    <3>3. CASE i \in counted
      <4>1. table'[i].count = table[i].count - 1
        BY <1>9, <3>3
      <4> QED BY <1>11, <3>1, <3>2, <4>1
    <3>4. CASE i \notin counted
      <4>1. table'[i].count = table[i].count
        BY <1>9, <3>4
      <4>2. d = c => table[i].count = 0
        <5>1. i \in counted <=> table[i].client = c /\ table[i].count > 0
          BY <1>13
        <5>2. d = c => ~(table[i].count > 0)
          BY <2>1, <3>4, <5>1
        <5> QED BY <3>1, <5>2
      <4> QED BY <1>11, <3>1, <3>2, <4>1, <4>2
    <3> QED BY <3>3, <3>4
  <2>2. \A i \in DOMAIN table : table[i].client \in Clients
    BY EntryFacts
  <2> QED BY <1>6, <1>7, <2>1, <2>2 DEF OnlyFailuresAreCharged, Charges
<1>16. ChargesAreCounted'
  <2> SUFFICES ASSUME NEW d \in Clients
               PROVE  /\ \A i \in Places(d) : Charges(d)' <= table'[i].count + charged'[d].late
                      /\ Places(d) = {} => Charges(d)' <= charged'[d].late
    BY <1>8 DEF ChargesAreCounted
  <2>1. ASSUME NEW i \in Places(d)
        PROVE  Charges(d)' <= table'[i].count + charged'[d].late
    <3>1. i \in DOMAIN table /\ table[i].client = d /\ table[i].count \in Nat
      BY EntryFacts DEF Places
    <3>2. Charges(d) <= table[i].count + charged[d].late
      BY DEF ChargesAreCounted
    <3>3. CASE i \in counted
      BY <1>3, <1>9, <1>11, <3>1, <3>2, <3>3
    <3>4. CASE i \notin counted
      <4>1. table'[i].count = table[i].count
        BY <1>9, <3>1, <3>4
      <4>2. ~(d = c /\ counted # {})
        BY <1>14, <3>4
      <4> QED BY <1>11, <3>1, <3>2, <4>1, <4>2
    <3> QED BY <3>3, <3>4
  <2>2. ASSUME Places(d) = {} PROVE Charges(d)' <= charged'[d].late
    <3>1. Charges(d) <= charged[d].late
      BY <2>2 DEF ChargesAreCounted
    <3> QED BY <1>11, <3>1
  <2> QED BY <2>1, <2>2
<1>17. attempts' \in [Attempts -> Attempt \union {NoAttempt}]
  BY DEF Leave, SignInRows
<1>18. SignInRows'
  BY <1>6, <1>10, <1>17, LeaveSlots DEF SignInRows
<1> QED BY <1>12, <1>15, <1>16, <1>18, LeaveSlots

\* A reserved attempt gets a slot.
LEMMA AcquireStep ==
    ASSUME ThrottleInv, NEW a \in Attempts, Acquire(a)
    PROVE  ThrottleInv'
<1> USE DEF ThrottleInv
<1> DEFINE held == {b \in Attempts : Checks(b)}
<1>1. /\ attempts[a] \in Attempt /\ attempts[a].phase = "waiting"
      /\ attempts' = [attempts EXCEPT ![a].phase = "checking"]
      /\ free' = free - 1
      /\ UNCHANGED <<table, clock, charged>>
  BY DEF Acquire, SignInRows
<1>2. /\ attempts'[a] \in Attempt /\ attempts'[a].phase = "checking"
      /\ attempts'[a].client = attempts[a].client /\ attempts'[a].present = attempts[a].present
      /\ \A b \in Attempts : b # a => attempts'[b] = attempts[b]
  BY <1>1 DEF SignInRows, Attempt
<1>3. attempts' \in [Attempts -> Attempt \union {NoAttempt}]
  BY <1>1, <1>2 DEF SignInRows
<1>4. attempts[a] # NoAttempt /\ attempts'[a] # NoAttempt
  BY <1>1, <1>2, SignInConstants
<1>5. \A d : Pending(d)' = Pending(d)
  BY <1>2, <1>4 DEF Pending
<1>6. held' = held \union {a} /\ a \notin held
  BY <1>1, <1>2, <1>4 DEF Checks
<1>7. IsFiniteSet(held) /\ Cardinality(held) \in Nat
  BY SignInConstants, FS_Subset, FS_CardinalityType
<1>8. Cardinality(held') = Cardinality(held) + 1
  BY <1>6, <1>7, FS_AddElement
<1>9. free + Cardinality(held) = Slots
  BY DEF SlotsAreNeverLost
<1> HIDE DEF held
<1>10. free' + Cardinality(held') = Slots /\ free' \in Int
  <2>1. free' = free - 1 /\ free \in Int
    BY <1>1 DEF SignInRows
  <2> QED BY <1>7, <1>8, <1>9, <2>1
<1>11. SlotsAreNeverLost'
  BY <1>10 DEF held, SlotsAreNeverLost
<1>12. SignInRows' /\ OneEntryEach'
  BY <1>1, <1>3, <1>10 DEF SignInRows, OneEntryEach
<1>13. OnlyFailuresAreCharged' /\ ChargesAreCounted'
  BY <1>1, <1>5 DEF OnlyFailuresAreCharged, ChargesAreCounted, Charges, Places
<1> QED BY <1>11, <1>12, <1>13

\* The entry a reservation counts in: the client's own, or one that begins now.
LEMMA CurrentFacts ==
    ASSUME SignInRows, OneEntryEach, NEW c \in Clients, Current(c).count < ClientLimit
    PROVE  LET entry == [Current(c) EXCEPT !.count = @ + 1]
               fresh == \A i \in Places(c) : Expired(table[i])
           IN /\ entry \in Entry /\ entry.client = c
              /\ fresh => entry.count = 1
              /\ ~ fresh => \E i \in Places(c) : entry.count = table[i].count + 1
<1> DEFINE entry == [Current(c) EXCEPT !.count = @ + 1]
           fresh == \A i \in Places(c) : Expired(table[i])
<1>1. /\ Current(c) \in Entry /\ Current(c).client = c
      /\ fresh => Current(c).count = 0
      /\ ~ fresh => \E i \in Places(c) : Current(c) = table[i]
  <2>1. CASE fresh
    <3>1. Current(c) = [client |-> c, start |-> clock, count |-> 0]
      BY <2>1 DEF Current
    <3>2. clock \in 1..MaxClock /\ 0 \in 0..ClientLimit
      BY SignInConstants DEF SignInRows
    <3> QED BY <2>1, <3>1, <3>2 DEF Entry
  <2>2. CASE ~ fresh
    <3>1. PICK i \in Places(c) : ~ Expired(table[i])
      BY <2>2
    <3>2. Current(c) = table[CHOOSE j \in Places(c) : TRUE]
      BY <3>1 DEF Current
    <3>3. (CHOOSE j \in Places(c) : TRUE) \in Places(c)
      BY <3>1
    <3>4. PICK j \in Places(c) : Current(c) = table[j]
      BY <3>2, <3>3
    <3>5. j \in DOMAIN table /\ table[j].client = c
      BY DEF Places
    <3> QED BY <2>2, <3>4, <3>5, EntryFacts
  <2> QED BY <2>1, <2>2
<1> HIDE DEF fresh
<1>2. Current(c).count \in Nat /\ Current(c).count + 1 \in 0..ClientLimit
  BY <1>1, SignInConstants DEF Entry
<1>3. entry \in Entry /\ entry.client = c /\ entry.count = Current(c).count + 1
  BY <1>1, <1>2 DEF Entry
<1> HIDE DEF entry
<1>4. fresh => entry.count = 1
  BY <1>1, <1>3
<1>5. ~ fresh => \E i \in Places(c) : entry.count = table[i].count + 1
  BY <1>1, <1>3
<1> QED BY <1>3, <1>4, <1>5 DEF entry, fresh

\* A reservation: the client's entry counts one more, and who has no entry any more
\* is charged with nothing.
LEMMA ReserveStep ==
    ASSUME ThrottleInv, NEW a \in Attempts, Reserve(a)
    PROVE  ThrottleInv'
<1> USE DEF ThrottleInv
<1>1. PICK c \in Clients, known \in BOOLEAN, right \in BOOLEAN :
         /\ Current(c).count < ClientLimit
         /\ table' = Stored([Current(c) EXCEPT !.count = @ + 1], WithRoom(c))
         /\ attempts' =
               [b \in Attempts |->
                   IF b = a THEN [client |-> c, known |-> known, right |-> right,
                                  phase |-> "waiting", present |-> TRUE]
                   ELSE IF attempts[b] # NoAttempt /\ attempts[b].client \in Restarted(c)
                        THEN [attempts[b] EXCEPT !.present = FALSE]
                        ELSE attempts[b]]
         /\ charged' = [d \in Clients |-> IF d \in Restarted(c) THEN Uncharged ELSE charged[d]]
  BY DEF Reserve
<1>2. attempts[a] = NoAttempt /\ UNCHANGED <<free, clock>>
  BY DEF Reserve
<1> DEFINE entry == [Current(c) EXCEPT !.count = @ + 1]
           room == WithRoom(c)
           fresh == \A i \in Places(c) : Expired(table[i])
<1>3. /\ entry \in Entry /\ entry.client = c
      /\ fresh => entry.count = 1
      /\ ~ fresh => \E i \in Places(c) : entry.count = table[i].count + 1
  <2>1. Current(c).count < ClientLimit
    BY <1>1
  <2> HIDE DEF entry, fresh
  <2> QED BY <2>1, CurrentFacts DEF entry, fresh
<1>4. RoomOf(room, c)
  BY RoomFacts DEF SignInRows
<1>5. table' = Stored(entry, room)
  BY <1>1
<1>6. \A d \in Clients : d \in Restarted(c) <=> IF d = c THEN fresh
                                               ELSE \A l \in DOMAIN room : room[l].client # d
  BY DEF Restarted
<1> HIDE DEF entry, room, fresh
<1>7. /\ table' \in Seq(Entry)
      /\ \A k, l \in DOMAIN table' : table'[k].client = table'[l].client => k = l
      /\ \E k \in DOMAIN table' : table'[k] = entry
      /\ \A k \in DOMAIN table' :
            \/ table'[k] = entry
            \/ /\ table'[k].client # c
               /\ \E l \in DOMAIN room : table'[k] = room[l]
      /\ \A l \in DOMAIN room : room[l].client # c => \E k \in DOMAIN table' : table'[k] = room[l]
      /\ Len(table') <= Len(room) + 1
      /\ (\E l \in DOMAIN room : room[l].client = c) => Len(table') = Len(room)
  <2>1. /\ room \in Seq(Entry)
        /\ \A k, l \in DOMAIN room : room[k].client = room[l].client => k = l
    BY <1>4 DEF RoomOf
  <2>2. entry \in Entry /\ entry.client = c
    BY <1>3
  <2> DEFINE new == Stored(entry, room)
  <2>3. /\ new \in Seq(Entry)
        /\ \A k, l \in DOMAIN new : new[k].client = new[l].client => k = l
        /\ \E k \in DOMAIN new : new[k] = entry
        /\ \A k \in DOMAIN new :
              \/ new[k] = entry
              \/ /\ new[k].client # entry.client
                 /\ \E l \in DOMAIN room : new[k] = room[l]
        /\ \A l \in DOMAIN room : room[l].client # entry.client =>
              \E k \in DOMAIN new : new[k] = room[l]
        /\ Len(new) <= Len(room) + 1
        /\ (\E l \in DOMAIN room : room[l].client = entry.client) => Len(new) = Len(room)
    BY <2>1, <2>2, StoredFacts
  <2>4. table' = new
    BY <1>5
  <2> HIDE DEF new
  <2> QED BY <2>2, <2>3, <2>4
<1>8. Len(table') <= MaxTracked
  <2>1. Len(room) \in Nat /\ Len(room) <= MaxTracked /\ Len(table') \in Nat /\ MaxTracked \in Nat
    BY <1>4, <1>7, SignInConstants DEF RoomOf
  <2>2. CASE Places(c) = {}
    <3>1. Len(room) < MaxTracked
      BY <1>4, <2>2 DEF RoomOf
    <3> QED BY <1>7, <2>1, <3>1
  <2>3. CASE Places(c) # {}
    <3>1. \E l \in DOMAIN room : room[l].client = c
      BY <1>4, <2>3 DEF RoomOf, Places
    <3> QED BY <1>7, <2>1, <3>1
  <2> QED BY <2>2, <2>3
<1>9. OneEntryEach'
  BY <1>7 DEF OneEntryEach
<1>10. /\ attempts'[a] \in Attempt /\ attempts'[a].client = c /\ attempts'[a].present
       /\ attempts'[a].phase = "waiting" /\ attempts'[a] # NoAttempt
  <2>1. attempts'[a] = [client |-> c, known |-> known, right |-> right,
                        phase |-> "waiting", present |-> TRUE]
    BY <1>1
  <2>2. attempts'[a] \in Attempt
    BY <2>1 DEF Attempt
  <2>3. attempts'[a] # NoAttempt
    BY <2>2, SignInConstants
  <2>4. attempts'[a].present
    BY <2>1
  <2> QED BY <2>1, <2>2, <2>3, <2>4
<1>11. ASSUME NEW b \in Attempts, b # a
       PROVE  /\ attempts'[b] \in Attempt \union {NoAttempt}
              /\ attempts'[b] = NoAttempt <=> attempts[b] = NoAttempt
              /\ attempts[b] # NoAttempt =>
                    /\ attempts'[b].client = attempts[b].client
                    /\ attempts'[b].phase = attempts[b].phase
                    /\ attempts'[b].present <=>
                          attempts[b].present /\ attempts[b].client \notin Restarted(c)
  <2>1. attempts[b] \in Attempt \union {NoAttempt}
    BY DEF SignInRows
  <2>2. CASE attempts[b] # NoAttempt /\ attempts[b].client \in Restarted(c)
    <3>1. attempts'[b] = [attempts[b] EXCEPT !.present = FALSE]
      BY <1>1, <1>11, <2>2
    <3>2. attempts[b] \in Attempt
      BY <2>1, <2>2
    <3>3. /\ attempts'[b] \in Attempt /\ attempts'[b].present = FALSE
          /\ attempts'[b].client = attempts[b].client
          /\ attempts'[b].phase = attempts[b].phase
      BY <3>1, <3>2 DEF Attempt
    <3> QED BY <2>2, <3>3, SignInConstants
  <2>3. CASE ~(attempts[b] # NoAttempt /\ attempts[b].client \in Restarted(c))
    <3>1. attempts'[b] = attempts[b]
      BY <1>1, <1>11, <2>3
    <3> QED BY <2>1, <2>3, <3>1
  <2> QED BY <2>2, <2>3
<1>12. attempts' \in [Attempts -> Attempt \union {NoAttempt}]
  <2>1. \A b \in Attempts : attempts'[b] \in Attempt \union {NoAttempt}
    BY <1>10, <1>11
  <2> QED BY <1>1, <2>1
<1>13. charged' \in [Clients -> [failures : Nat, late : Nat]]
  BY <1>1 DEF SignInRows, Uncharged
<1>14. SignInRows'
  BY <1>2, <1>7, <1>8, <1>12, <1>13 DEF SignInRows
<1>15. \A d \in Clients :
          Pending(d)' = (IF d \in Restarted(c) THEN {} ELSE Pending(d))
                        \union (IF d = c THEN {a} ELSE {})
  <2> SUFFICES ASSUME NEW d \in Clients, NEW b \in Attempts
               PROVE  b \in Pending(d)' <=> \/ d \notin Restarted(c) /\ b \in Pending(d)
                                            \/ d = c /\ b = a
    BY DEF Pending
  <2>1. CASE b = a
    BY <1>2, <1>10, <2>1 DEF Pending
  <2>2. CASE b # a
    BY <1>11, <2>2 DEF Pending
  <2> QED BY <2>1, <2>2
<1>16. SlotsAreNeverLost'
  <2>1. \A b \in Attempts : Checks(b)' <=> Checks(b)
    BY <1>2, <1>10, <1>11 DEF Checks
  <2> DEFINE held == {b \in Attempts : Checks(b)}
  <2>2. held' = held
    BY <2>1
  <2>3. free + Cardinality(held) = Slots
    BY DEF SlotsAreNeverLost
  <2> HIDE DEF held
  <2>4. free' + Cardinality(held') = Slots
    BY <1>2, <2>2, <2>3
  <2> QED BY <2>4 DEF held, SlotsAreNeverLost
<1>17. ASSUME NEW d \in Clients
       PROVE  /\ Charges(d) \in Nat /\ charged[d].late \in Nat
              /\ charged'[d].late = IF d \in Restarted(c) THEN 0 ELSE charged[d].late
              /\ Charges(d)' = (IF d \in Restarted(c) THEN 0 ELSE Charges(d))
                               + (IF d = c THEN 1 ELSE 0)
  <2>1. /\ charged[d] \in [failures : Nat, late : Nat]
        /\ charged'[d] = IF d \in Restarted(c) THEN [failures |-> 0, late |-> 0] ELSE charged[d]
    BY <1>1 DEF SignInRows, Uncharged
  <2>2. charged'[d].failures = IF d \in Restarted(c) THEN 0 ELSE charged[d].failures
    BY <2>1
  <2>3. charged'[d].late = IF d \in Restarted(c) THEN 0 ELSE charged[d].late
    BY <2>1
  <2>4. IsFiniteSet(Pending(d)) /\ Cardinality(Pending(d)) \in Nat /\ a \notin Pending(d)
    BY <1>2, PendingIsFinite DEF Pending
  <2>5. Cardinality(Pending(d)') =
           (IF d \in Restarted(c) THEN 0 ELSE Cardinality(Pending(d))) + (IF d = c THEN 1 ELSE 0)
    <3> DEFINE kept == IF d \in Restarted(c) THEN {} ELSE Pending(d)
    <3>1. /\ IsFiniteSet(kept) /\ a \notin kept
          /\ Cardinality(kept) = IF d \in Restarted(c) THEN 0 ELSE Cardinality(Pending(d))
      BY <2>4, FS_EmptySet
    <3>2. Pending(d)' = kept \union (IF d = c THEN {a} ELSE {})
      BY <1>15
    <3> HIDE DEF kept
    <3>3. CASE d = c
      <4>1. Pending(d)' = kept \union {a}
        BY <3>2, <3>3
      <4>2. Cardinality(Pending(d)') = Cardinality(kept) + 1
        BY <3>1, <4>1, FS_AddElement
      <4> QED BY <3>1, <3>3, <4>2
    <3>4. CASE d # c
      <4>1. Pending(d)' = kept
        BY <3>2, <3>4
      <4> QED BY <2>4, <3>1, <3>4, <4>1
    <3> QED BY <3>3, <3>4
  <2> QED BY <2>1, <2>2, <2>3, <2>4, <2>5 DEF Charges
<1>18. ASSUME NEW k \in DOMAIN table', NEW d \in Clients, table'[k].client = d, d # c
       PROVE  d \notin Restarted(c) /\ \E i \in Places(d) : table'[k] = table[i]
  <2>1. PICK l \in DOMAIN room : table'[k] = room[l]
    BY <1>3, <1>7, <1>18
  <2>2. PICK i \in DOMAIN table : room[l] = table[i]
    BY <1>4 DEF RoomOf
  <2> QED BY <1>6, <1>18, <2>1, <2>2 DEF Places
<1>19. \A k \in DOMAIN table' : table'[k].client = c => table'[k] = entry
  BY <1>7
<1>20. \A i \in DOMAIN table : table[i].count \in Nat
  BY EntryFacts
<1>21. OnlyFailuresAreCharged'
  <2>1. ASSUME NEW k \in DOMAIN table', NEW d \in Clients, table'[k].client = d
        PROVE  table'[k].count <= Charges(d)'
    <3>1. CASE d # c
      <4>1. PICK i \in Places(d) : table'[k] = table[i]
        BY <1>18, <2>1, <3>1
      <4>2. d \notin Restarted(c)
        BY <1>18, <2>1, <3>1
      <4>3. table[i].count <= Charges(d)
        BY DEF OnlyFailuresAreCharged, Charges, Places
      <4> QED BY <1>17, <3>1, <4>1, <4>2, <4>3
    <3>2. CASE d = c /\ fresh
      <4>1. table'[k].count = 1
        BY <1>3, <1>19, <2>1, <3>2
      <4>2. d \in Restarted(c)
        BY <1>6, <3>2
      <4> QED BY <1>17, <3>2, <4>1, <4>2
    <3>3. CASE d = c /\ ~ fresh
      <4>1. PICK i \in Places(c) : table'[k].count = table[i].count + 1
        BY <1>3, <1>19, <2>1, <3>3
      <4>2. d \notin Restarted(c)
        BY <1>6, <3>3
      <4>3. table[i].count <= Charges(d) /\ table[i].count \in Nat
        BY <1>20, <3>3 DEF OnlyFailuresAreCharged, Charges, Places
      <4> QED BY <1>17, <3>3, <4>1, <4>2, <4>3
    <3> QED BY <3>1, <3>2, <3>3
  <2>2. \A k \in DOMAIN table' : table'[k].client \in Clients
    <3>1. \A k \in DOMAIN table' : table'[k] \in Entry
      BY <1>7
    <3> QED BY <3>1 DEF Entry
  <2> QED BY <2>1, <2>2 DEF OnlyFailuresAreCharged, Charges
<1>22. ChargesAreCounted'
  <2>1. ASSUME NEW d \in Clients, NEW k \in Places(d)'
        PROVE  Charges(d)' <= table'[k].count + charged'[d].late
    <3>0. k \in DOMAIN table' /\ table'[k].client = d
      BY DEF Places
    <3>1. CASE d # c
      <4>1. PICK i \in Places(d) : table'[k] = table[i]
        BY <1>18, <3>0, <3>1
      <4>2. d \notin Restarted(c)
        BY <1>18, <3>0, <3>1
      <4>3. Charges(d) <= table[i].count + charged[d].late
        BY DEF ChargesAreCounted
      <4> QED BY <1>17, <3>1, <4>1, <4>2, <4>3
    <3>2. CASE d = c /\ fresh
      <4>1. table'[k].count = 1
        BY <1>3, <1>19, <3>0, <3>2
      <4>2. d \in Restarted(c)
        BY <1>6, <3>2
      <4> QED BY <1>17, <3>2, <4>1, <4>2
    <3>3. CASE d = c /\ ~ fresh
      <4>1. PICK i \in Places(c) : table'[k].count = table[i].count + 1
        BY <1>3, <1>19, <3>0, <3>3
      <4>2. d \notin Restarted(c)
        BY <1>6, <3>3
      <4>3. Charges(d) <= table[i].count + charged[d].late /\ table[i].count \in Nat
        BY <1>20, <3>3 DEF ChargesAreCounted, Places
      <4> QED BY <1>17, <3>3, <4>1, <4>2, <4>3
    <3> QED BY <3>1, <3>2, <3>3
  <2>2. ASSUME NEW d \in Clients, Places(d)' = {}
        PROVE  Charges(d)' <= charged'[d].late
    <3>1. \A k \in DOMAIN table' : table'[k].client # d
      BY <2>2 DEF Places
    <3>2. d # c
      BY <1>3, <1>7, <3>1
    <3>3. \A l \in DOMAIN room : room[l].client # d
      BY <1>7, <3>1, <3>2
    <3>4. d \in Restarted(c)
      BY <1>6, <3>2, <3>3
    <3> QED BY <1>17, <3>2, <3>4
  <2> QED BY <2>1, <2>2 DEF ChargesAreCounted
<1> QED BY <1>9, <1>14, <1>16, <1>21, <1>22

LEMMA ThrottleInvHolds == SignInSpec => []ThrottleInv
<1>1. SignInInit => ThrottleInv
  <2> SUFFICES ASSUME SignInInit PROVE ThrottleInv
    OBVIOUS
  <2>1. SignInRows
    BY SignInConstants DEF SignInInit, SignInRows, Uncharged
  <2>2. DOMAIN table = {}
    BY DEF SignInInit
  <2>3. \A c : Pending(c) = {}
    BY DEF SignInInit, Pending
  <2>4. {b \in Attempts : Checks(b)} = {}
    BY DEF SignInInit, Checks
  <2>5. SlotsAreNeverLost
    <3>1. Cardinality({b \in Attempts : Checks(b)}) = 0
      BY <2>4, FS_EmptySet
    <3>2. free = Slots /\ Slots \in Nat
      BY SignInConstants DEF SignInInit
    <3> QED BY <3>1, <3>2 DEF SlotsAreNeverLost
  <2>6. ChargesAreCounted
    <3>1. \A c : Cardinality(Pending(c)) = 0
      BY <2>3, FS_EmptySet
    <3>2. \A c \in Clients : charged[c].failures = 0 /\ charged[c].late = 0
      BY DEF SignInInit, Uncharged
    <3>3. \A c \in Clients : Charges(c) = 0 /\ Places(c) = {}
      BY <2>2, <3>1, <3>2 DEF Charges, Places
    <3> QED BY <3>2, <3>3 DEF ChargesAreCounted
  <2> QED BY <2>1, <2>2, <2>5, <2>6 DEF ThrottleInv, OneEntryEach, OnlyFailuresAreCharged
<1>2. ThrottleInv /\ [SignInNext]_signInVars => ThrottleInv'
  <2> SUFFICES ASSUME ThrottleInv, [SignInNext]_signInVars PROVE ThrottleInv'
    OBVIOUS
  <2>1. ASSUME UNCHANGED <<table, free, attempts, charged>>, clock' \in 1..MaxClock
        PROVE  ThrottleInv'
    <3>1. SignInRows' /\ OneEntryEach'
      BY <2>1 DEF ThrottleInv, SignInRows, OneEntryEach
    <3>2. \A c : Pending(c)' = Pending(c) /\ Charges(c)' = Charges(c) /\ Places(c)' = Places(c)
      BY <2>1 DEF Charges, Pending, Places
    <3>3. OnlyFailuresAreCharged' /\ ChargesAreCounted'
      BY <2>1, <3>2 DEF ThrottleInv, OnlyFailuresAreCharged, ChargesAreCounted
    <3>4. SlotsAreNeverLost'
      BY <2>1 DEF ThrottleInv, SlotsAreNeverLost, Checks
    <3> QED BY <3>1, <3>3, <3>4 DEF ThrottleInv
  <2>2. CASE Tick
    BY <2>1, <2>2, SignInConstants DEF Tick, ThrottleInv, SignInRows
  <2>3. CASE AdministratorTurns
    BY <2>1, <2>3 DEF AdministratorTurns, ThrottleInv, SignInRows
  <2>4. CASE UNCHANGED signInVars
    BY <2>1, <2>4 DEF signInVars, ThrottleInv, SignInRows
  <2>5. ASSUME NEW a \in Attempts, Reserve(a) PROVE ThrottleInv'
    BY <2>5, ReserveStep
  <2>6. ASSUME NEW a \in Attempts, Acquire(a) PROVE ThrottleInv'
    BY <2>6, AcquireStep
  <2>7. ASSUME NEW a \in Attempts, Fail(a) PROVE ThrottleInv'
    BY <2>7, ReleaseStep DEF Fail
  <2>8. ASSUME NEW a \in Attempts, Refuse(a) PROVE ThrottleInv'
    BY <2>8, ChargeStep DEF Refuse, Checks
  <2>9. ASSUME NEW a \in Attempts, Wrong(a) PROVE ThrottleInv'
    BY <2>9, ChargeStep DEF Wrong, Checks
  <2>10. ASSUME NEW a \in Attempts, Right(a) PROVE ThrottleInv'
    BY <2>10, ReleaseStep DEF Right, Checks
  <2> QED BY <2>2, <2>3, <2>4, <2>5, <2>6, <2>7, <2>8, <2>9, <2>10 DEF SignInNext
<1> QED BY <1>1, <1>2, PTL DEF SignInSpec

\* A client never fails more often in its window than the limit and the late
\* releases allow, is charged with failures and attempts in progress alone, and
\* every slot is free or held by an attempt that checks a password.
THEOREM ThrottleStaysFair == SignInSpec => []ThrottleIsFair
<1>1. ASSUME ThrottleInv PROVE FailuresAreLimited
  <2> SUFFICES ASSUME NEW c \in Clients
               PROVE  charged[c].failures <= ClientLimit + charged[c].late
    BY DEF FailuresAreLimited
  <2>1. /\ charged[c].failures \in Nat /\ charged[c].late \in Nat
        /\ Cardinality(Pending(c)) \in Nat /\ ClientLimit \in Nat
    BY <1>1, PendingIsFinite, SignInConstants DEF ThrottleInv, SignInRows
  <2>2. charged[c].failures <= Charges(c)
    BY <2>1 DEF Charges
  <2>3. Charges(c) \in Nat
    BY <2>1 DEF Charges
  <2>4. CASE Places(c) = {}
    <3>1. Charges(c) <= charged[c].late
      BY <1>1, <2>4 DEF ThrottleInv, ChargesAreCounted
    <3> QED BY <2>1, <2>2, <2>3, <3>1
  <2>5. CASE Places(c) # {}
    <3>1. PICK i \in Places(c) : TRUE
      BY <2>5
    <3>2. Charges(c) <= table[i].count + charged[c].late
      BY <1>1, <3>1 DEF ThrottleInv, ChargesAreCounted
    <3>3. table[i].count \in Nat /\ table[i].count <= ClientLimit
      BY <1>1, <3>1, EntryFacts DEF ThrottleInv, Places
    <3> QED BY <2>1, <2>2, <2>3, <3>2, <3>3
  <2> QED BY <2>4, <2>5
<1>2. ThrottleInv => ThrottleIsFair
  BY <1>1 DEF ThrottleInv, ThrottleIsFair
<1> QED BY <1>2, ThrottleInvHolds, PTL

-------------------------------------------------------------------------------
(* The lockout of the account.                                             *)

\* The place of the first wrong password of the window the account counts.
First == Len(guesses) - account.failed + 1

GuessRows ==
    /\ guesses \in Seq(Nat)
    /\ account \in [active : BOOLEAN, failed : Nat, windowStart : Nat, lockedUntil : Nat]
    /\ clock \in Nat \ {0}

\* The history is in the order of time, the account counts its last entries, and
\* it is locked exactly when they reach the limit.
AccountCountsItsWindow ==
    /\ \A i, j \in DOMAIN guesses : i <= j => guesses[i] <= guesses[j]
    /\ \A i \in DOMAIN guesses : guesses[i] <= clock
    /\ account.failed <= Len(guesses)
    /\ Len(guesses) > 0 => account.failed > 0
    /\ account.failed = 0 <=> account.windowStart = None
    /\ account.failed > 0 => guesses[First] = account.windowStart
    /\ account.lockedUntil = None => account.failed < FailureLimit
    /\ account.lockedUntil # None =>
          /\ account.failed = FailureLimit
          /\ account.lockedUntil = guesses[Len(guesses)] + Lockout

\* Before the window began, all but FailureLimit - 2 passwords are a stretch away.
EarlierWindowsAreAway ==
    account.failed > 0 =>
        \A i \in DOMAIN guesses :
            i < First /\ i <= First - (FailureLimit - 1) => guesses[i] + Stretch <= guesses[First]

GuessesAreApart ==
    \A i, j \in DOMAIN guesses : j - i >= TwoWindows => guesses[i] + Stretch <= guesses[j]

GuessInv == GuessRows /\ AccountCountsItsWindow /\ EarlierWindowsAreAway /\ GuessesAreApart

LEMMA LockoutNumbers ==
    /\ FailureLimit \in Nat /\ FailureLimit >= 1
    /\ Window \in Nat /\ Window >= 1 /\ Lockout \in Nat /\ Lockout >= 1
    /\ TwoWindows \in Nat /\ TwoWindows >= 1
    /\ FailureLimit = 1 => TwoWindows = 1
    /\ FailureLimit > 1 => TwoWindows = 2 * FailureLimit - 2
    /\ Stretch \in Nat /\ Stretch >= 1 /\ Stretch <= Window /\ Stretch <= Lockout
<1>1. /\ FailureLimit \in Nat /\ FailureLimit >= 1
      /\ Window \in Nat /\ Window >= 1 /\ Lockout \in Nat /\ Lockout >= 1
  BY SignInConstants
<1> QED BY <1>1 DEF TwoWindows, Stretch

\* What a wrong password leaves in the account: one failure more in the window, or
\* the first of a new window, before which almost all passwords are a stretch away.
LEMMA WrongedFacts ==
    ASSUME GuessInv, ~ LockedOut
    PROVE  /\ Wronged \in [active : BOOLEAN, failed : Nat, windowStart : Nat, lockedUntil : Nat]
           /\ Wronged.failed >= 1 /\ Wronged.failed <= FailureLimit
           /\ Wronged.lockedUntil = IF Wronged.failed >= FailureLimit THEN clock + Lockout ELSE None
           /\ \/ /\ account.failed > 0 /\ account.lockedUntil = None
                 /\ Wronged.failed = account.failed + 1
                 /\ Wronged.windowStart = account.windowStart
              \/ /\ Wronged.failed = 1 /\ Wronged.windowStart = clock
                 /\ \A i \in DOMAIN guesses :
                       i <= Len(guesses) + 1 - (FailureLimit - 1) => guesses[i] + Stretch <= clock
<1> DEFINE open == Unlocked.windowStart # None /\ Unlocked.windowStart + Window > clock
           n == IF open THEN Unlocked.failed + 1 ELSE 1
<1>1. /\ account \in [active : BOOLEAN, failed : Nat, windowStart : Nat, lockedUntil : Nat]
      /\ clock \in Nat /\ clock >= 1 /\ Len(guesses) \in Nat
      /\ DOMAIN guesses = 1..Len(guesses) /\ \A i \in DOMAIN guesses : guesses[i] \in Nat
  BY DEF GuessInv, GuessRows
<1>2. /\ Unlocked \in [active : BOOLEAN, failed : Nat, windowStart : Nat, lockedUntil : Nat]
      /\ Unlocked.lockedUntil = None
      /\ account.lockedUntil = None => Unlocked = account
      /\ account.lockedUntil # None => Unlocked.failed = 0 /\ Unlocked.windowStart = None
  BY <1>1 DEF Unlocked, None
<1>3. /\ Wronged = [Unlocked EXCEPT !.failed = n,
                                    !.windowStart = IF open THEN @ ELSE clock,
                                    !.lockedUntil = IF n >= FailureLimit THEN clock + Lockout ELSE @]
      /\ n \in Nat /\ n >= 1
  BY <1>2 DEF Wronged
<1> HIDE DEF open, n
<1>4. /\ Wronged \in [active : BOOLEAN, failed : Nat, windowStart : Nat, lockedUntil : Nat]
      /\ Wronged.failed = n
      /\ Wronged.windowStart = IF open THEN Unlocked.windowStart ELSE clock
      /\ Wronged.lockedUntil = IF n >= FailureLimit THEN clock + Lockout ELSE None
  <2>1. clock + Lockout \in Nat
    BY <1>1, LockoutNumbers
  <2> QED BY <1>1, <1>2, <1>3, <2>1
<1>5. CASE open
  <2>1. account.lockedUntil = None /\ Unlocked = account /\ account.windowStart # None
    BY <1>2, <1>5 DEF open
  <2>2. account.failed > 0 /\ account.failed < FailureLimit
    BY <1>1, <2>1 DEF GuessInv, AccountCountsItsWindow
  <2>3. n = account.failed + 1
    BY <1>5, <2>1 DEF n
  <2> QED BY <1>1, <1>4, <1>5, <2>1, <2>2, <2>3, LockoutNumbers
<1>6. CASE ~ open
  <2>1. n = 1
    BY <1>6 DEF n
  <2>2. ASSUME NEW i \in DOMAIN guesses, i <= Len(guesses) + 1 - (FailureLimit - 1)
        PROVE  guesses[i] + Stretch <= clock
    <3>1. i \in Nat /\ i <= Len(guesses) /\ Len(guesses) \in DOMAIN guesses
      BY <1>1
    <3>2. CASE account.lockedUntil # None
      <4>1. account.lockedUntil = guesses[Len(guesses)] + Lockout /\ account.lockedUntil <= clock
        BY <1>1, <3>2 DEF GuessInv, AccountCountsItsWindow, LockedOut
      <4>2. guesses[i] <= guesses[Len(guesses)]
        BY <3>1 DEF GuessInv, AccountCountsItsWindow
      <4> QED BY <1>1, <3>1, <4>1, <4>2, LockoutNumbers
    <3>3. CASE account.lockedUntil = None
      <4>1. account.failed < FailureLimit /\ account.failed > 0 /\ account.failed <= Len(guesses)
        BY <1>1, <3>1, <3>3 DEF GuessInv, AccountCountsItsWindow
      <4>2. First \in DOMAIN guesses /\ i <= First
        BY <1>1, <2>2, <3>1, <4>1, LockoutNumbers DEF First
      <4>3. guesses[First] = account.windowStart /\ account.windowStart # None
        BY <1>1, <4>1 DEF GuessInv, AccountCountsItsWindow
      <4>4. account.windowStart + Window <= clock
        BY <1>1, <1>2, <1>6, <3>3, <4>3, LockoutNumbers DEF open
      <4>5. guesses[i] <= guesses[First]
        BY <4>2 DEF GuessInv, AccountCountsItsWindow
      <4> QED BY <1>1, <4>2, <4>3, <4>4, <4>5, LockoutNumbers
    <3> QED BY <3>2, <3>3
  <2> QED BY <1>4, <1>6, <2>1, <2>2, LockoutNumbers
<1> QED BY <1>5, <1>6

LEMMA WrongStep ==
    ASSUME GuessInv, NEW a \in Attempts, Wrong(a)
    PROVE  GuessInv'
<1> DEFINE n == Len(guesses)
<1>1. /\ n \in Nat /\ Len(guesses') = n + 1 /\ guesses' \in Seq(Nat)
      /\ DOMAIN guesses = 1..n /\ DOMAIN guesses' = 1..n + 1
      /\ \A i \in 1..n : guesses'[i] = guesses[i] /\ guesses[i] \in Nat
      /\ guesses'[n + 1] = clock /\ clock' = clock /\ clock \in Nat
  BY DEF GuessInv, GuessRows, Wrong
<1>2. /\ account' \in [active : BOOLEAN, failed : Nat, windowStart : Nat, lockedUntil : Nat]
      /\ account'.failed >= 1 /\ account'.failed <= FailureLimit
      /\ account'.lockedUntil = IF account'.failed >= FailureLimit THEN clock + Lockout ELSE None
      /\ \/ /\ account.failed > 0 /\ account.lockedUntil = None
            /\ account'.failed = account.failed + 1
            /\ account'.windowStart = account.windowStart
         \/ /\ account'.failed = 1 /\ account'.windowStart = clock
            /\ \A i \in 1..n : i <= n + 1 - (FailureLimit - 1) => guesses[i] + Stretch <= clock
  BY <1>1, WrongedFacts DEF Wrong
<1>3. account.failed \in Nat /\ account.failed <= n /\ account'.failed \in Nat
  BY <1>2 DEF GuessInv, GuessRows, AccountCountsItsWindow
<1>4. PICK first \in Int : first = n + 1 - account'.failed + 1 /\ First' = first
  <2>1. First' = n + 1 - account'.failed + 1
    <3>1. First' = Len(guesses') - account'.failed + 1
      BY DEF First
    <3> QED BY <1>1, <1>3, <3>1
  <2>2. n + 1 - account'.failed + 1 \in Int
    BY <1>1, <1>3
  <2> QED BY <2>1, <2>2
<1>5. \A i \in 1..n : guesses[i] <= clock
  BY <1>1 DEF GuessInv, AccountCountsItsWindow
<1>6. \A i, j \in 1..n + 1 : i <= j => guesses'[i] <= guesses'[j]
  <2>1. \A i, j \in 1..n : i <= j => guesses[i] <= guesses[j]
    BY <1>1 DEF GuessInv, AccountCountsItsWindow
  <2>2. \A i \in 1..n + 1 : i = n + 1 \/ i \in 1..n
    BY <1>1
  <2> QED BY <1>1, <1>5, <2>1, <2>2
<1>7. /\ first \in 1..n + 1 /\ guesses'[first] = account'.windowStart
      /\ \A i \in 1..n :
            i < first /\ i <= first - (FailureLimit - 1) => guesses'[i] + Stretch <= guesses'[first]
  <2>1. CASE /\ account.failed > 0
             /\ account'.failed = account.failed + 1
             /\ account'.windowStart = account.windowStart
    <3>1. first = First /\ First \in 1..n
      <4>1. First = n - account.failed + 1
        BY DEF First
      <4> HIDE DEF n
      <4>2. n \in Nat /\ account'.failed = account.failed + 1 /\ account.failed > 0
        BY <1>1, <2>1
      <4> QED BY <1>3, <1>4, <4>1, <4>2
    <3>2. guesses[First] = account.windowStart
      BY <2>1 DEF GuessInv, AccountCountsItsWindow
    <3>3. \A i \in 1..n :
             i < First /\ i <= First - (FailureLimit - 1) => guesses[i] + Stretch <= guesses[First]
      BY <1>1, <2>1 DEF GuessInv, EarlierWindowsAreAway
    <3> QED BY <1>1, <2>1, <3>1, <3>2, <3>3
  <2>2. CASE /\ account'.failed = 1 /\ account'.windowStart = clock
             /\ \A i \in 1..n : i <= n + 1 - (FailureLimit - 1) => guesses[i] + Stretch <= clock
    <3>1. first = n + 1
      BY <1>1, <1>4, <2>2
    <3>2. guesses'[first] = clock /\ first \in 1..n + 1
      BY <1>1, <3>1
    <3>3. \A i \in 1..n : i <= n + 1 - (FailureLimit - 1) => guesses'[i] + Stretch <= clock
      BY <1>1, <2>2
    <3>4. \A i \in 1..n : i <= first - (FailureLimit - 1) => guesses'[i] + Stretch <= guesses'[first]
      <4> SUFFICES ASSUME NEW i \in 1..n, i <= first - (FailureLimit - 1)
                   PROVE  guesses'[i] + Stretch <= clock
        BY <3>2
      <4>1. i <= n + 1 - (FailureLimit - 1)
        BY <1>1, <3>1, LockoutNumbers
      <4> QED BY <3>3, <4>1
    <3> QED BY <2>2, <3>2, <3>4
  <2> QED BY <1>2, <2>1, <2>2
<1>8. \A i \in 1..n : n + 1 - i >= TwoWindows => guesses'[i] + Stretch <= clock
  <2> SUFFICES ASSUME NEW i \in 1..n, n + 1 - i >= TwoWindows
               PROVE  guesses'[i] + Stretch <= clock
    OBVIOUS
  <2>1. i < first /\ i <= first - (FailureLimit - 1)
    <3>1. account'.failed \in Nat /\ account'.failed >= 1 /\ account'.failed <= FailureLimit
      BY <1>2, <1>3
    <3>2. i \in Nat /\ n \in Nat /\ i <= n
      BY <1>1
    <3> HIDE DEF n
    <3>3. CASE FailureLimit = 1
      BY <1>4, <3>1, <3>2, <3>3
    <3>4. CASE FailureLimit > 1
      BY <1>4, <3>1, <3>2, <3>4, LockoutNumbers
    <3> QED BY <3>3, <3>4, LockoutNumbers
  <2>2. guesses'[i] + Stretch <= guesses'[first]
    BY <1>7, <2>1
  <2>3. guesses'[first] <= clock
    <3>1. n + 1 \in 1..n + 1 /\ first \in 1..n + 1 /\ first <= n + 1
      BY <1>1, <1>7
    <3> QED BY <1>1, <1>6, <3>1
  <2>4. guesses'[first] \in Nat /\ guesses'[i] \in Nat
    <3>1. \A j \in 1..n + 1 : guesses'[j] \in Nat
      <4>1. \A j \in DOMAIN guesses' : guesses'[j] \in Nat
        BY <1>1
      <4> QED BY <1>1, <4>1
    <3>2. i \in 1..n + 1
      BY <1>1
    <3> QED BY <1>7, <3>1, <3>2
  <2>5. clock \in Nat
    BY <1>1
  <2> QED BY <2>2, <2>3, <2>4, <2>5, LockoutNumbers
<1>9. GuessRows'
  BY <1>1, <1>2 DEF GuessRows, GuessInv
<1>10. AccountCountsItsWindow'
  <2>1. \A i \in 1..n + 1 : guesses'[i] <= clock'
    BY <1>1, <1>5
  <2>2. account'.failed > 0 /\ account'.failed <= n + 1
    BY <1>2, <1>3
  <2>3. account'.windowStart # None
    <3>1. clock # None
      BY DEF GuessInv, GuessRows, None
    <3>2. account.failed > 0 => account.windowStart # None
      BY <1>3 DEF GuessInv, AccountCountsItsWindow
    <3> QED BY <1>2, <3>1, <3>2
  <2>4. account'.lockedUntil = None => account'.failed < FailureLimit
    BY <1>1, <1>2, <1>3, LockoutNumbers DEF None
  <2>5. account'.lockedUntil # None => /\ account'.failed = FailureLimit
                                       /\ account'.lockedUntil = guesses'[n + 1] + Lockout
    <3>1. account'.failed >= FailureLimit <=> account'.failed = FailureLimit
      BY <1>2, <1>3, LockoutNumbers
    <3> QED BY <1>1, <1>2, <3>1
  <2>6. guesses'[First'] = account'.windowStart
    BY <1>4, <1>7
  <2>7. account'.failed # 0
    BY <2>2
  <2> QED BY <1>1, <1>6, <2>1, <2>2, <2>3, <2>4, <2>5, <2>6, <2>7 DEF AccountCountsItsWindow
<1>11. EarlierWindowsAreAway'
  <2>1. \A i \in 1..n + 1 : i < first => i \in 1..n
    BY <1>1, <1>7
  <2> QED BY <1>1, <1>4, <1>7, <2>1 DEF EarlierWindowsAreAway
<1>12. GuessesAreApart'
  <2> SUFFICES ASSUME NEW i \in 1..n + 1, NEW j \in 1..n + 1, j - i >= TwoWindows
               PROVE  guesses'[i] + Stretch <= guesses'[j]
    BY <1>1, LockoutNumbers DEF GuessesAreApart, Stretch, TwoWindows
  <2>1. i < j /\ i \in 1..n
    BY <1>1, LockoutNumbers
  <2>2. CASE j = n + 1
    BY <1>1, <1>8, <2>1, <2>2
  <2>3. CASE j # n + 1
    <3>1. j \in 1..n
      BY <1>1, <2>3
    <3>2. guesses[i] + Stretch <= guesses[j]
      BY <1>1, <2>1, <3>1 DEF GuessInv, GuessesAreApart
    <3> QED BY <1>1, <2>1, <3>1, <3>2
  <2> QED BY <2>2, <2>3
<1> QED BY <1>9, <1>10, <1>11, <1>12 DEF GuessInv

LEMMA GuessInvHolds == SignInSpec => []GuessInv
<1>1. SignInInit => GuessInv
  <2> SUFFICES ASSUME SignInInit PROVE GuessInv
    OBVIOUS
  <2>1. guesses = <<>> /\ Len(guesses) = 0 /\ DOMAIN guesses = {} /\ clock = 1
    BY DEF SignInInit
  <2>2. account = [active |-> TRUE, failed |-> 0, windowStart |-> 0, lockedUntil |-> 0]
    BY DEF SignInInit, None
  <2>3. GuessRows
    BY <2>1, <2>2 DEF GuessRows
  <2>4. AccountCountsItsWindow
    BY <2>1, <2>2, LockoutNumbers DEF AccountCountsItsWindow, None
  <2>5. EarlierWindowsAreAway /\ GuessesAreApart
    BY <2>1 DEF EarlierWindowsAreAway, GuessesAreApart
  <2> QED BY <2>3, <2>4, <2>5 DEF GuessInv
<1>2. GuessInv /\ [SignInNext]_signInVars => GuessInv'
  <2> SUFFICES ASSUME GuessInv, [SignInNext]_signInVars PROVE GuessInv'
    OBVIOUS
  <2>1. ASSUME UNCHANGED guesses, clock' \in Nat, clock' >= clock,
               account' \in [active : BOOLEAN, failed : Nat, windowStart : Nat, lockedUntil : Nat],
               account'.failed = account.failed, account'.windowStart = account.windowStart,
               account'.lockedUntil = account.lockedUntil
        PROVE  GuessInv'
    <3>1. clock \in Nat /\ clock >= 1 /\ \A i \in DOMAIN guesses : guesses[i] \in Nat
      BY DEF GuessInv, GuessRows
    <3>2. GuessRows' /\ First' = First
      BY <2>1, <3>1 DEF GuessInv, GuessRows, First
    <3>3. \A i \in DOMAIN guesses : guesses[i] <= clock'
      BY <2>1, <3>1 DEF GuessInv, AccountCountsItsWindow
    <3>4. AccountCountsItsWindow'
      BY <2>1, <3>2, <3>3 DEF GuessInv, AccountCountsItsWindow
    <3>5. EarlierWindowsAreAway' /\ GuessesAreApart'
      BY <2>1, <3>2 DEF GuessInv, EarlierWindowsAreAway, GuessesAreApart
    <3> QED BY <3>2, <3>4, <3>5 DEF GuessInv
  <2>2. /\ account \in [active : BOOLEAN, failed : Nat, windowStart : Nat, lockedUntil : Nat]
        /\ clock \in Nat /\ clock >= 1
    BY DEF GuessInv, GuessRows
  <2>3. ASSUME UNCHANGED <<account, clock, guesses>> PROVE GuessInv'
    BY <2>1, <2>2, <2>3
  <2>4. CASE Tick
    BY <2>1, <2>2, <2>4 DEF Tick
  <2>5. CASE AdministratorTurns
    <3>1. account' = [account EXCEPT !.active = ~ account.active] /\ UNCHANGED <<clock, guesses>>
      BY <2>5 DEF AdministratorTurns
    <3>2. account.active \in BOOLEAN
      BY <2>2
    <3>3. (~ account.active) \in BOOLEAN
      OBVIOUS
    <3>4. /\ account' \in [active : BOOLEAN, failed : Nat, windowStart : Nat, lockedUntil : Nat]
          /\ account'.failed = account.failed /\ account'.windowStart = account.windowStart
          /\ account'.lockedUntil = account.lockedUntil
      BY <2>2, <3>1, <3>3
    <3> QED BY <2>1, <2>2, <3>1, <3>4
  <2>6. CASE UNCHANGED signInVars
    BY <2>3, <2>6 DEF signInVars
  <2>7. ASSUME NEW a \in Attempts, Reserve(a) \/ Acquire(a) \/ Fail(a) \/ Refuse(a)
        PROVE  GuessInv'
    BY <2>3, <2>7 DEF Reserve, Acquire, Fail, Refuse
  <2>8. ASSUME NEW a \in Attempts, Wrong(a) PROVE GuessInv'
    BY <2>8, WrongStep
  <2>9. ASSUME NEW a \in Attempts, Right(a) PROVE GuessInv'
    <3>1. guesses' = <<>> /\ Len(guesses') = 0 /\ DOMAIN guesses' = {} /\ clock' = clock
      BY <2>9 DEF Right
    <3>2. /\ account' \in [active : BOOLEAN, failed : Nat, windowStart : Nat, lockedUntil : Nat]
          /\ account'.failed = 0 /\ account'.windowStart = 0 /\ account'.lockedUntil = 0
      BY <2>2, <2>9 DEF Right, None
    <3>3. GuessRows'
      BY <3>1, <3>2 DEF GuessInv, GuessRows
    <3>4. AccountCountsItsWindow'
      BY <3>1, <3>2, LockoutNumbers DEF AccountCountsItsWindow, None
    <3>5. EarlierWindowsAreAway' /\ GuessesAreApart'
      BY <3>1 DEF EarlierWindowsAreAway, GuessesAreApart
    <3> QED BY <3>3, <3>4, <3>5 DEF GuessInv
  <2> QED BY <2>4, <2>5, <2>6, <2>7, <2>8, <2>9 DEF SignInNext
<1> QED BY <1>1, <1>2, PTL DEF SignInSpec

\* Wrong passwords a stretch apart: what falls into one stretch lies within
\* TwoWindows places of the history.
LEMMA ApartIsFew ==
    ASSUME GuessInv, NEW t \in Nat
    PROVE  Cardinality({i \in DOMAIN guesses : guesses[i] \in t..t + Stretch - 1}) <= TwoWindows
<1> DEFINE seen == {i \in DOMAIN guesses : guesses[i] \in t..t + Stretch - 1}
<1>1. /\ \A i \in seen : i \in Nat /\ guesses[i] \in Nat /\ i \in DOMAIN guesses
      /\ \A i \in seen : guesses[i] >= t /\ guesses[i] < t + Stretch
  BY LockoutNumbers DEF GuessInv, GuessRows
<1> HIDE DEF seen
<1>2. CASE seen = {}
  BY <1>2, FS_EmptySet, LockoutNumbers DEF seen
<1>3. CASE seen # {}
  <2>1. seen \subseteq Nat
    BY <1>1
  <2>2. PICK m \in seen : \A l \in seen : ~(<<l, m>> \in OpToRel(<, Nat))
    BY <1>3, <2>1, WFMin, NatLessThanWellFounded
  <2>3. \A i \in seen : i >= m
    <3>1. \A i \in seen : ~(i < m)
      BY <2>1, <2>2 DEF OpToRel
    <3>2. \A i \in seen : i \in Nat /\ m \in Nat
      BY <2>1, <2>2
    <3> QED BY <3>1, <3>2
  <2>4. \A i \in seen : i - m < TwoWindows
    <3> SUFFICES ASSUME NEW i \in seen, ~(i - m < TwoWindows) PROVE FALSE
      OBVIOUS
    <3>0. i \in Nat /\ m \in Nat /\ TwoWindows \in Nat
      BY <2>1, <2>2, LockoutNumbers
    <3>1. i - m >= TwoWindows
      BY <3>0
    <3>2. guesses[m] + Stretch <= guesses[i]
      BY <1>1, <2>2, <3>1 DEF GuessInv, GuessesAreApart
    <3>3. /\ guesses[m] \in Nat /\ guesses[m] >= t
          /\ guesses[i] \in Nat /\ guesses[i] < t + Stretch
      BY <1>1, <2>2
    <3> QED BY <3>2, <3>3, LockoutNumbers
  <2> DEFINE last == m + TwoWindows - 1
  <2>5. m \in Nat /\ last \in Nat /\ last >= m /\ last - m + 1 = TwoWindows
    <3>1. m \in Nat /\ TwoWindows \in Nat /\ TwoWindows >= 1
      BY <2>1, <2>2, LockoutNumbers
    <3> QED BY <3>1
  <2>6. seen \subseteq m..last
    BY <1>1, <2>3, <2>4, <2>5
  <2> HIDE DEF last
  <2>7. IsFiniteSet(m..last) /\ Cardinality(m..last) = TwoWindows
    <3>1. /\ IsFiniteSet(m..last)
          /\ Cardinality(m..last) = IF m > last THEN 0 ELSE last - m + 1
      BY <2>5, FS_Interval
    <3> QED BY <2>5, <3>1
  <2>8. Cardinality(seen) <= TwoWindows
    BY <2>6, <2>7, FS_Subset
  <2> QED BY <2>8 DEF seen
<1> QED BY <1>2, <1>3

\* Between two sign-ins no stretch of time sees more wrong passwords tried against
\* the account than two windows allow, whatever the limits are.
THEOREM GuessesStayLimited == SignInSpec => []GuessesAreLimited
<1>1. GuessInv => GuessesAreLimited
  <2> SUFFICES ASSUME GuessInv, NEW t \in 1..MaxClock
               PROVE  Cardinality({i \in DOMAIN guesses : guesses[i] \in t..t + Stretch - 1})
                         <= TwoWindows
    BY DEF GuessesAreLimited
  <2>1. t \in Nat
    BY SignInConstants
  <2> QED BY <2>1, ApartIsFew
<1> QED BY <1>1, GuessInvHolds, PTL

-------------------------------------------------------------------------------
(* The limit on joining. How many attempts a stretch of time has let       *)
(* through, against what the row of the subject and the attempts in        *)
(* progress leave room for. First the numbers, for one subject and one     *)
(* stretch that begins at t: row is the subject's row, through the attempts    *)
(* that got through, gone how many of the attempts that overlap are not    *)
(* in progress since before the stretch, still how many are in progress    *)
(* since within it.                                                        *)

Together == Cardinality(Joins)

\* What windows that began before the stretch may leave to it.
Spare(k) == k * (JoinsLimit - 1)

UpToLimit(n) == IF n < JoinsLimit THEN n ELSE JoinsLimit

\* The row after one attempt more.
OneMore(row, now) ==
    IF row = NoRow \/ now - row.start >= JoinWindow
    THEN [start |-> now, count |-> 1]
    ELSE [row EXCEPT !.count = @ + 1]

\* While the stretch lasts.
During(t, through, gone, row) ==
    /\ gone = 0 => through = 0
    /\ row = NoRow => through <= Spare(gone)
    /\ row # NoRow =>
          /\ row.start < t /\ gone > 0 => through <= Spare(gone - 1) + UpToLimit(row.count) - 1
          /\ row.start >= t => through <= Spare(gone) + UpToLimit(row.count)

\* When it is over.
Over(t, through, still, row) ==
    \/ /\ row # NoRow /\ row.start \in t..t + JoinWindow - 1
       /\ through <= Spare(Together) + UpToLimit(row.count)
    \/ through + still <= (Together + 1) * JoinsLimit - 1

LEMMA JoinNumbers ==
    /\ JoinsLimit \in Nat /\ JoinsLimit >= 1
    /\ JoinWindow \in Nat /\ JoinWindow >= 1
    /\ MaxTime \in Nat
    /\ Together \in Nat /\ Together >= 1
<1>1. Together \in Nat
  BY JoinConstants, FS_CardinalityType DEF Together
<1>2. Together # 0
  BY JoinConstants, FS_EmptySet DEF Together
<1>3. {JoinsLimit, JoinWindow, MaxTime} \subseteq Nat \ {0}
  BY JoinConstants
<1> QED BY <1>1, <1>2, <1>3

LEMMA SpareFacts ==
    /\ Spare(0) = 0
    /\ \A k \in Nat : /\ Spare(k) \in Nat
                      /\ Spare(k + 1) = Spare(k) + JoinsLimit - 1
    /\ \A k \in Nat : k > 0 => Spare(k) = Spare(k - 1) + JoinsLimit - 1
    /\ \A k \in 0..Together : Spare(k) <= Spare(Together) /\ Spare(k) + k <= Together * JoinsLimit
    /\ Together * JoinsLimit \in Nat
    /\ Spare(Together) + Together = Together * JoinsLimit
    /\ (Together + 1) * JoinsLimit - 1 = Together * JoinsLimit + JoinsLimit - 1
<1>1. JoinsLimit \in Nat /\ JoinsLimit - 1 \in Nat /\ Together \in Nat
  BY JoinNumbers
<1> DEFINE l == JoinsLimit - 1
<1>2. l \in Nat /\ JoinsLimit = l + 1 /\ \A k : Spare(k) = k * l
  BY <1>1 DEF Spare
<1> HIDE DEF l
<1>3. Spare(0) = 0
  BY <1>2
<1>4. ASSUME NEW k \in Nat
      PROVE  Spare(k) \in Nat /\ Spare(k + 1) = Spare(k) + l
  <2>1. k * l \in Nat
    BY <1>2
  <2>2. (k + 1) * l = k * l + l
    BY <1>2
  <2> QED BY <1>2, <2>1, <2>2
<1>5. ASSUME NEW k \in Nat, k > 0
      PROVE  Spare(k) = Spare(k - 1) + l
  <2>1. k - 1 \in Nat /\ (k - 1) + 1 = k
    BY <1>5
  <2> QED BY <1>4, <2>1
<1>6. ASSUME NEW k \in 0..Together
      PROVE  Spare(k) <= Spare(Together) /\ Spare(k) + k <= Together * JoinsLimit
  <2>1. PICK d \in Nat : Together = k + d
    <3>1. Together - k \in Nat /\ Together = k + (Together - k)
      BY <1>1
    <3> QED BY <3>1
  <2>2. k \in Nat
    BY <1>1
  <2>3. Together * l = k * l + d * l
    BY <1>2, <2>1, <2>2
  <2>4. Together * JoinsLimit = k * l + k + d * l + d
    BY <1>2, <2>1, <2>2
  <2>5. k * l \in Nat /\ d * l \in Nat
    BY <1>2, <2>1, <2>2
  <2> QED BY <1>2, <2>1, <2>2, <2>3, <2>4, <2>5
<1>7. Together * JoinsLimit \in Nat
  BY <1>1
<1>8. Spare(Together) + Together = Together * JoinsLimit
  BY <1>1, <1>2
<1>9. (Together + 1) * JoinsLimit - 1 = Together * JoinsLimit + JoinsLimit - 1
  BY <1>1
<1>10. \A x \in Nat : x + l = x + JoinsLimit - 1
  BY <1>1, <1>2
<1>11. \A k \in Nat : k > 0 => k - 1 \in Nat
  OBVIOUS
<1> QED BY <1>3, <1>4, <1>5, <1>6, <1>7, <1>8, <1>9, <1>10, <1>11

LEMMA OneMoreFacts ==
    ASSUME NEW row \in Row \union {NoRow}, NEW now \in 1..MaxTime
    PROVE  /\ OneMore(row, now) \in Row /\ OneMore(row, now) # NoRow
           /\ \/ /\ row # NoRow => now >= row.start + JoinWindow
                 /\ OneMore(row, now).start = now /\ OneMore(row, now).count = 1
              \/ /\ row # NoRow /\ now < row.start + JoinWindow
                 /\ OneMore(row, now).start = row.start
                 /\ OneMore(row, now).count = row.count + 1
<1>1. now \in Nat /\ now \in 1..MaxTime /\ JoinWindow \in Nat
  BY JoinNumbers
<1>2. row # NoRow => /\ row \in Row /\ row.start \in Nat /\ row.start \in 1..MaxTime
                     /\ row.count \in Nat
  BY JoinNumbers DEF Row
<1>3. CASE row = NoRow \/ now - row.start >= JoinWindow
  <2>1. OneMore(row, now) = [start |-> now, count |-> 1]
    BY <1>3 DEF OneMore
  <2>2. OneMore(row, now) \in Row
    BY <1>1, <2>1 DEF Row
  <2>3. row # NoRow => now >= row.start + JoinWindow
    BY <1>1, <1>2, <1>3
  <2> QED BY <2>1, <2>2, <2>3, JoinConstants
<1>4. CASE ~(row = NoRow \/ now - row.start >= JoinWindow)
  <2>1. OneMore(row, now) = [row EXCEPT !.count = row.count + 1]
    BY <1>4 DEF OneMore
  <2>2. row.count + 1 \in Nat /\ row \in Row
    BY <1>2, <1>4
  <2>3. /\ OneMore(row, now) \in Row
        /\ OneMore(row, now).start = row.start /\ OneMore(row, now).count = row.count + 1
    BY <2>1, <2>2 DEF Row
  <2>4. now < row.start + JoinWindow
    BY <1>1, <1>2, <1>4
  <2> QED BY <1>4, <2>3, <2>4, JoinConstants
<1> QED BY <1>3, <1>4

LEMMA UpToLimitFacts ==
    /\ \A n \in Nat : UpToLimit(n) \in Nat /\ UpToLimit(n) <= JoinsLimit
    /\ \A n \in Nat : n >= 1 => UpToLimit(n) >= 1
    /\ \A n \in Nat : UpToLimit(n) <= UpToLimit(n + 1)
    /\ \A n \in Nat : n + 1 <= JoinsLimit => UpToLimit(n + 1) = UpToLimit(n) + 1
    /\ UpToLimit(1) = 1
BY JoinNumbers DEF UpToLimit

\* A row and the numbers of attempts it is compared with.
RowOk(row) == row \in Row \union {NoRow} /\ (row # NoRow => row.count >= 1)

LEMMA RowNumbers ==
    ASSUME NEW row, RowOk(row), row # NoRow
    PROVE  /\ row.start \in Nat /\ row.count \in Nat /\ row.count >= 1
           /\ UpToLimit(row.count) \in Nat /\ UpToLimit(row.count) >= 1
           /\ UpToLimit(row.count) <= JoinsLimit
           /\ UpToLimit(row.count) <= UpToLimit(row.count + 1)
           /\ row.count + 1 <= JoinsLimit => UpToLimit(row.count + 1) = UpToLimit(row.count) + 1
<1>1. row.start \in Nat /\ row.count \in Nat /\ row.count >= 1
  BY JoinNumbers DEF RowOk, Row
<1> QED BY <1>1, UpToLimitFacts

\* What is left when the row goes, or has gone.
LEMMA DuringWithoutRow ==
    ASSUME NEW t \in Nat, NEW through \in Nat, NEW gone \in Nat, NEW row, RowOk(row),
           During(t, through, gone, row), row # NoRow => row.start < t
    PROVE  through <= Spare(gone)
<1>1. CASE row = NoRow
  BY <1>1 DEF During
<1>2. CASE row # NoRow /\ gone = 0
  BY <1>2, SpareFacts DEF During
<1>3. CASE row # NoRow /\ gone > 0
  <2>1. through <= Spare(gone - 1) + UpToLimit(row.count) - 1
    BY <1>3 DEF During
  <2>2. gone - 1 \in Nat /\ Spare(gone - 1) \in Nat
    BY <1>3, SpareFacts
  <2>3. Spare(gone) = Spare(gone - 1) + JoinsLimit - 1
    BY <1>3, SpareFacts
  <2>4. UpToLimit(row.count) \in Nat /\ UpToLimit(row.count) <= JoinsLimit
    BY <1>3, RowNumbers
  <2> QED BY <2>1, <2>2, <2>3, <2>4, JoinNumbers
<1> QED BY <1>1, <1>2, <1>3

\* An attempt from before the stretch breaks off.
LEMMA DuringBreak ==
    ASSUME NEW t \in Nat, NEW through \in Nat, NEW gone \in Nat, NEW row, RowOk(row),
           During(t, through, gone, row)
    PROVE  During(t, through, gone + 1, row)
<1>1. Spare(gone) \in Nat /\ Spare(gone + 1) = Spare(gone) + JoinsLimit - 1 /\ gone + 1 > 0
      /\ gone + 1 - 1 = gone
  BY SpareFacts
<1>2. CASE row = NoRow
  BY <1>1, <1>2, JoinNumbers DEF During
<1>3. CASE row # NoRow
  <2>1. /\ row.start \in Nat /\ UpToLimit(row.count) \in Nat /\ UpToLimit(row.count) >= 1
    BY <1>3, RowNumbers
  <2>2. ASSUME row.start < t PROVE through <= Spare(gone) + UpToLimit(row.count) - 1
    <3>1. through <= Spare(gone)
      BY <2>2, DuringWithoutRow
    <3> QED BY <1>1, <2>1, <3>1
  <2>3. ASSUME row.start >= t PROVE through <= Spare(gone + 1) + UpToLimit(row.count)
    <3>1. through <= Spare(gone) + UpToLimit(row.count)
      BY <1>3, <2>3 DEF During
    <3> QED BY <1>1, <2>1, <3>1, JoinNumbers
  <2> QED BY <1>1, <1>3, <2>1, <2>2, <2>3 DEF During
<1> QED BY <1>2, <1>3

\* One from before the stretch counts in the row: the row stays older than the
\* stretch, or the count of a younger one grows.
LEMMA DuringOlder ==
    ASSUME NEW t \in Nat, NEW through \in Nat, NEW gone \in Nat, NEW row, RowOk(row),
           NEW now \in 1..MaxTime, now < t, During(t, through, gone, row)
    PROVE  During(t, through, gone + 1, OneMore(row, now))
<1> DEFINE new == OneMore(row, now)
<1>1. Spare(gone) \in Nat /\ Spare(gone + 1) = Spare(gone) + JoinsLimit - 1 /\ gone + 1 > 0
      /\ gone + 1 - 1 = gone /\ now \in Nat
  BY SpareFacts, JoinNumbers
<1>2. /\ new # NoRow
      /\ \/ /\ row # NoRow => now >= row.start + JoinWindow
            /\ new.start = now /\ new.count = 1
         \/ /\ row # NoRow /\ now < row.start + JoinWindow
            /\ new.start = row.start /\ new.count = row.count + 1
  BY OneMoreFacts DEF RowOk
<1> HIDE DEF new
<1>3. CASE (row # NoRow => now >= row.start + JoinWindow) /\ new.start = now /\ new.count = 1
  <2>1. row # NoRow => row.start < t
    BY <1>1, <1>3, RowNumbers, JoinNumbers
  <2>2. through <= Spare(gone)
    BY <2>1, DuringWithoutRow
  <2>3. UpToLimit(new.count) = 1
    BY <1>3, UpToLimitFacts
  <2>4. through <= Spare(gone) + UpToLimit(new.count) - 1
    BY <1>1, <2>2, <2>3
  <2>5. ~(new.start >= t)
    BY <1>1, <1>3
  <2> QED BY <1>1, <1>2, <2>4, <2>5 DEF During, new
<1>4. CASE row # NoRow /\ new.start = row.start /\ new.count = row.count + 1
  <2>1. During(t, through, gone + 1, row)
    BY DuringBreak
  <2>2. /\ UpToLimit(row.count) \in Nat /\ UpToLimit(new.count) \in Nat
        /\ UpToLimit(row.count) <= UpToLimit(new.count)
    BY <1>4, RowNumbers, UpToLimitFacts
  <2>3. row.start < t => through <= Spare(gone) + UpToLimit(row.count) - 1
    BY <1>1, <1>4, <2>1 DEF During
  <2>4. row.start >= t => through <= Spare(gone + 1) + UpToLimit(row.count)
    BY <1>4, <2>1 DEF During
  <2>5. Spare(gone + 1) \in Nat
    BY SpareFacts
  <2>6. new.start < t => through <= Spare(gone) + UpToLimit(new.count) - 1
    BY <1>1, <1>4, <2>2, <2>3
  <2>7. new.start >= t => through <= Spare(gone + 1) + UpToLimit(new.count)
    BY <1>4, <2>2, <2>4, <2>5
  <2> QED BY <1>1, <1>2, <2>6, <2>7 DEF During, new
<1> QED BY <1>2, <1>3, <1>4

\* One from within the stretch counts, and gets through only below the limit.
LEMMA DuringWithin ==
    ASSUME NEW t \in Nat, NEW through \in Nat, NEW gone \in Nat, gone > 0, NEW row, RowOk(row),
           NEW now \in 1..MaxTime, now >= t, now < t + JoinWindow,
           During(t, through, gone, row),
           NEW more \in Nat,
           more = through
           \/ (more = through + 1 /\ OneMore(row, now).count <= JoinsLimit)
    PROVE  During(t, more, gone, OneMore(row, now))
<1> DEFINE new == OneMore(row, now)
<1>1. Spare(gone) \in Nat /\ now \in Nat
  BY SpareFacts, JoinNumbers
<1>2. /\ new # NoRow
      /\ \/ /\ row # NoRow => now >= row.start + JoinWindow
            /\ new.start = now /\ new.count = 1
         \/ /\ row # NoRow /\ now < row.start + JoinWindow
            /\ new.start = row.start /\ new.count = row.count + 1
  BY OneMoreFacts DEF RowOk
<1>3. more = through \/ (more = through + 1 /\ new.count <= JoinsLimit)
  OBVIOUS
<1> HIDE DEF new
<1>4. CASE (row # NoRow => now >= row.start + JoinWindow) /\ new.start = now /\ new.count = 1
  <2>1. row # NoRow => row.start < t
    BY <1>1, <1>4, RowNumbers, JoinNumbers
  <2>2. through <= Spare(gone)
    BY <2>1, DuringWithoutRow
  <2>3. UpToLimit(new.count) = 1
    BY <1>4, UpToLimitFacts
  <2>4. more <= Spare(gone) + UpToLimit(new.count)
    BY <1>1, <1>3, <2>2, <2>3
  <2>5. ~(new.start < t)
    BY <1>1, <1>4
  <2> QED BY <1>2, <2>4, <2>5 DEF During, new
<1>5. CASE row # NoRow /\ new.start = row.start /\ new.count = row.count + 1
  <2>1. /\ UpToLimit(row.count) \in Nat /\ UpToLimit(new.count) \in Nat
        /\ UpToLimit(row.count) <= UpToLimit(new.count)
        /\ new.count <= JoinsLimit => UpToLimit(new.count) = UpToLimit(row.count) + 1
    BY <1>5, RowNumbers, UpToLimitFacts
  <2>2. row.start < t => through <= Spare(gone - 1) + UpToLimit(row.count) - 1
    BY <1>5 DEF During
  <2>3. row.start >= t => through <= Spare(gone) + UpToLimit(row.count)
    BY <1>5 DEF During
  <2>4. Spare(gone - 1) \in Nat
    BY SpareFacts
  <2>5. more + UpToLimit(row.count) <= through + UpToLimit(new.count)
    BY <1>3, <2>1
  <2>6. new.start < t => more <= Spare(gone - 1) + UpToLimit(new.count) - 1
    BY <1>5, <2>1, <2>2, <2>4, <2>5
  <2>7. new.start >= t => more <= Spare(gone) + UpToLimit(new.count)
    BY <1>1, <1>5, <2>1, <2>3, <2>5
  <2> QED BY <1>2, <2>6, <2>7 DEF During, new
<1> QED BY <1>2, <1>4, <1>5

\* A row is deleted: it began before the stretch.
LEMMA DuringDelete ==
    ASSUME NEW t \in Nat, NEW through \in Nat, NEW gone \in Nat, NEW row, RowOk(row),
           row # NoRow => row.start < t, During(t, through, gone, row)
    PROVE  During(t, through, gone, NoRow)
BY DuringWithoutRow DEF During

\* The stretch ends.
LEMMA DuringToOver ==
    ASSUME NEW t \in Nat, NEW through \in Nat, NEW gone \in 0..Together, NEW row, RowOk(row),
           row # NoRow => row.start < t + JoinWindow,
           During(t, through, gone, row), NEW still \in Nat, still <= gone
    PROVE  Over(t, through, still, row)
<1>1. gone \in Nat /\ Together \in Nat /\ Spare(gone) \in Nat
  BY JoinNumbers, SpareFacts
<1>2. CASE row # NoRow /\ row.start >= t
  <2>1. row.start \in t..t + JoinWindow - 1
    BY <1>2, RowNumbers, JoinNumbers
  <2>2. through <= Spare(gone) + UpToLimit(row.count)
    BY <1>2 DEF During
  <2>3. Spare(gone) <= Spare(Together) /\ Spare(Together) \in Nat
    BY <1>1, SpareFacts
  <2>4. UpToLimit(row.count) \in Nat
    BY <1>2, RowNumbers
  <2>5. through <= Spare(Together) + UpToLimit(row.count)
    BY <1>1, <2>2, <2>3, <2>4
  <2> QED BY <1>2, <2>1, <2>5 DEF Over
<1>3. CASE row # NoRow => row.start < t
  <2>1. through <= Spare(gone)
    BY <1>1, <1>3, DuringWithoutRow
  <2>2. Spare(gone) + gone <= Together * JoinsLimit /\ Together * JoinsLimit \in Nat
    BY SpareFacts
  <2>3. through + still <= Together * JoinsLimit + JoinsLimit - 1
    BY <1>1, <2>1, <2>2, JoinNumbers
  <2>4. (Together + 1) * JoinsLimit - 1 = Together * JoinsLimit + JoinsLimit - 1
    BY SpareFacts
  <2> QED BY <2>3, <2>4 DEF Over
<1>4. row # NoRow => row.start \in Nat
  BY RowNumbers
<1> QED BY <1>2, <1>3, <1>4

\* After the stretch the last of its windows may still be counted in, and a new one
\* begins only for an attempt from after the stretch.
LEMMA OverCounts ==
    ASSUME NEW t \in Nat, NEW through \in Nat, NEW still \in 0..Together, NEW row, RowOk(row),
           NEW now \in 1..MaxTime, Over(t, through, still, row),
           NEW more \in Nat, NEW left \in Nat, left <= still, more + left <= through + still,
           \/ more = through
           \/ more = through + 1 /\ OneMore(row, now).count <= JoinsLimit /\ now < t + JoinWindow,
           now >= t + JoinWindow => still < Together
    PROVE  Over(t, more, left, OneMore(row, now))
<1> DEFINE new == OneMore(row, now)
           all == (Together + 1) * JoinsLimit - 1
<1>1. /\ still \in Nat /\ Together \in Nat /\ now \in Nat /\ JoinsLimit \in Nat
      /\ Spare(Together) \in Nat /\ Together * JoinsLimit \in Nat
      /\ Spare(Together) + Together = Together * JoinsLimit
  BY JoinNumbers, SpareFacts
<1>2. all = Together * JoinsLimit + JoinsLimit - 1
  BY SpareFacts
<1>3. more = through \/ (more = through + 1 /\ new.count <= JoinsLimit /\ now < t + JoinWindow)
  OBVIOUS
<1>4. /\ new # NoRow
      /\ \/ /\ row # NoRow => now >= row.start + JoinWindow
            /\ new.start = now /\ new.count = 1
         \/ /\ row # NoRow /\ now < row.start + JoinWindow
            /\ new.start = row.start /\ new.count = row.count + 1
  BY OneMoreFacts DEF RowOk
<1>5. \/ /\ row # NoRow /\ row.start \in t..t + JoinWindow - 1
         /\ through <= Spare(Together) + UpToLimit(row.count)
      \/ through + still <= all
  BY DEF Over
<1> HIDE DEF new, all
<1>6. CASE through + still <= all
  <2>1. more + left <= all
    BY <1>1, <1>2, <1>6
  <2> QED BY <2>1 DEF Over, all
<1>7. CASE /\ row # NoRow /\ row.start \in t..t + JoinWindow - 1
           /\ through <= Spare(Together) + UpToLimit(row.count)
  <2>1. /\ row.start \in Nat /\ row.start >= t
        /\ UpToLimit(row.count) \in Nat /\ UpToLimit(row.count) <= JoinsLimit
    BY <1>7, RowNumbers
  <2>2. CASE now >= row.start + JoinWindow
    <3>1. now >= t + JoinWindow
      BY <1>1, <2>1, <2>2, JoinNumbers
    <3>2. more = through /\ still + 1 <= Together
      BY <1>1, <1>3, <3>1, JoinNumbers
    <3>3. more + left <= all
      BY <1>1, <1>2, <1>7, <2>1, <3>2
    <3> QED BY <3>3 DEF Over, all
  <2>3. CASE new.start = row.start /\ new.count = row.count + 1
    <3>1. /\ UpToLimit(new.count) \in Nat /\ UpToLimit(row.count) <= UpToLimit(new.count)
          /\ new.count <= JoinsLimit => UpToLimit(new.count) = UpToLimit(row.count) + 1
      BY <1>7, <2>3, RowNumbers, UpToLimitFacts
    <3>2. more <= Spare(Together) + UpToLimit(new.count)
      BY <1>1, <1>3, <1>7, <2>1, <3>1
    <3> QED BY <1>4, <1>7, <2>3, <3>2 DEF Over, new
  <2> QED BY <1>4, <1>7, <2>2, <2>3
<1> QED BY <1>5, <1>6, <1>7

\* One from after the stretch deletes the row.
LEMMA OverDelete ==
    ASSUME NEW t \in Nat, NEW through \in Nat, NEW still \in 0..Together, NEW row, RowOk(row),
           Over(t, through, still, row), still < Together
    PROVE  Over(t, through, still, NoRow)
<1> DEFINE all == (Together + 1) * JoinsLimit - 1
<1>1. /\ still \in Nat /\ Together \in Nat /\ JoinsLimit \in Nat /\ still + 1 <= Together
      /\ Spare(Together) \in Nat /\ Together * JoinsLimit \in Nat
      /\ Spare(Together) + Together = Together * JoinsLimit
  BY JoinNumbers, SpareFacts
<1>2. all = Together * JoinsLimit + JoinsLimit - 1
  BY SpareFacts
<1>3. \/ row # NoRow /\ through <= Spare(Together) + UpToLimit(row.count)
      \/ through + still <= all
  BY DEF Over
<1> HIDE DEF all
<1>4. CASE row # NoRow /\ through <= Spare(Together) + UpToLimit(row.count)
  <2>1. UpToLimit(row.count) \in Nat /\ UpToLimit(row.count) <= JoinsLimit
    BY <1>4, RowNumbers
  <2>2. through + still <= all
    BY <1>1, <1>2, <1>4, <2>1
  <2> QED BY <2>2 DEF Over, all
<1>5. CASE through + still <= all
  BY <1>5 DEF Over, all
<1> QED BY <1>3, <1>4, <1>5

\* Fewer attempts are left in progress.
LEMMA OverLeave ==
    ASSUME NEW t \in Nat, NEW through \in Nat, NEW still \in Nat, NEW left \in Nat, left <= still,
           NEW row, Over(t, through, still, row)
    PROVE  Over(t, through, left, row)
<1> DEFINE all == (Together + 1) * JoinsLimit - 1
<1>1. all \in Int
  BY JoinNumbers, SpareFacts
<1>2. through + still <= all => through + left <= all
  <2> HIDE DEF all
  <2> QED BY <1>1
<1> QED BY <1>2 DEF Over

\* What is to be shown, from either.
LEMMA BudgetSuffices ==
    ASSUME NEW t \in Nat, NEW through \in Nat, NEW gone \in 0..Together, NEW still \in Nat,
           NEW row, RowOk(row),
           through = 0 \/ During(t, through, gone, row) \/ Over(t, through, still, row)
    PROVE  through <= (Together + 1) * JoinsLimit - 1
<1> DEFINE all == (Together + 1) * JoinsLimit - 1
<1>1. /\ Together \in Nat /\ Together >= 1 /\ JoinsLimit \in Nat /\ JoinsLimit >= 1
      /\ Spare(Together) \in Nat /\ Together * JoinsLimit \in Nat
      /\ Spare(Together) + Together = Together * JoinsLimit
      /\ gone \in Nat /\ Spare(gone) \in Nat /\ Spare(gone) <= Spare(Together)
  <2>1. Together \in Nat /\ gone \in Nat
    BY JoinNumbers
  <2>2. Spare(gone) \in Nat /\ Spare(Together) \in Nat /\ Spare(gone) <= Spare(Together)
    BY <2>1, SpareFacts
  <2> QED BY <2>1, <2>2, JoinNumbers, SpareFacts
<1>2. all = Together * JoinsLimit + JoinsLimit - 1
  BY SpareFacts
<1> HIDE DEF all
<1>3. Spare(Together) + JoinsLimit <= all /\ all >= 0
  BY <1>1, <1>2
<1>4. CASE through = 0
  BY <1>3, <1>4 DEF all
<1>5. CASE During(t, through, gone, row)
  <2>1. CASE row # NoRow /\ row.start >= t
    <3>1. through <= Spare(gone) + UpToLimit(row.count)
      BY <1>5, <2>1 DEF During
    <3>2. UpToLimit(row.count) \in Nat /\ UpToLimit(row.count) <= JoinsLimit
      BY <2>1, RowNumbers
    <3>3. through <= all
      BY <1>1, <1>2, <1>3, <3>1, <3>2
    <3> QED BY <3>3 DEF all
  <2>2. CASE row # NoRow => row.start < t
    <3>1. through <= Spare(gone)
      BY <1>1, <1>5, <2>2, DuringWithoutRow
    <3>2. through <= all
      BY <1>1, <1>2, <1>3, <3>1
    <3> QED BY <3>2 DEF all
  <2>3. row # NoRow => row.start \in Nat
    BY RowNumbers
  <2> QED BY <2>1, <2>2, <2>3
<1>6. CASE Over(t, through, still, row)
  <2>1. CASE row # NoRow /\ through <= Spare(Together) + UpToLimit(row.count)
    <3>1. UpToLimit(row.count) \in Nat /\ UpToLimit(row.count) <= JoinsLimit
      BY <2>1, RowNumbers
    <3>2. through <= all
      BY <1>1, <1>2, <1>3, <2>1, <3>1
    <3> QED BY <3>2 DEF all
  <2>2. CASE through + still <= all
    <3>1. through <= all
      BY <1>1, <1>2, <2>2
    <3> QED BY <3>1 DEF all
  <2> QED BY <1>6, <2>1, <2>2 DEF Over, all
<1> QED BY <1>4, <1>5, <1>6

-------------------------------------------------------------------------------
(* The rows and the attempts in progress.                                  *)

SubjectsOf(j) == {joins[j].subjects[1], joins[j].subjects[2]}

Held(j) == DOMAIN joins[j].counted \union joins[j].deleted

\* Attempts in progress of a subject, since before a stretch and since within it.
Older(s, t) == {j \in Joins : joins[j] # NoJoin /\ s \in SubjectsOf(j) /\ joins[j].now < t}

Within(s, t) ==
    {j \in Joins : /\ joins[j] # NoJoin /\ s \in SubjectsOf(j)
                   /\ joins[j].now \in t..t + JoinWindow - 1}

JoinRows ==
    /\ rows \in [Subjects -> Row \union {NoRow}]
    /\ \A s \in Subjects : rows[s] # NoRow => rows[s].count >= 1 /\ rows[s].start <= time
    /\ joins \in [Joins -> Join \union {NoJoin}]
    /\ \A j \in Joins : joins[j] # NoJoin =>
          joins[j].now <= time /\ DOMAIN joins[j].counted \subseteq SubjectsOf(j)
    /\ time \in 1..MaxTime
    /\ accepted \in Seq([subjects : Origins, now : 1..MaxTime])

\* No two attempts hold the same row.
HeldApart ==
    \A j, k \in Joins :
        j # k /\ joins[j] # NoJoin /\ joins[k] # NoJoin => Held(j) \intersect Held(k) = {}

\* What an attempt has read of the rows it holds is what they are.
HeldIsCurrent ==
    \A j \in Joins : joins[j] # NoJoin =>
        /\ \A s \in DOMAIN joins[j].counted :
              joins[j].counted[s] = OneMore(rows[s], joins[j].now)
        /\ \A s \in joins[j].deleted :
              /\ s \in Subjects /\ s \notin SubjectsOf(j)
              /\ rows[s] # NoRow /\ rows[s].start < joins[j].now - JoinWindow

BudgetOf(s, t) ==
    /\ time < t => Cardinality(AcceptedFor(s, t)) = 0
    /\ time >= t /\ time < t + JoinWindow =>
          During(t, Cardinality(AcceptedFor(s, t)), Together - Cardinality(Older(s, t)), rows[s])
    /\ time >= t + JoinWindow =>
          Over(t, Cardinality(AcceptedFor(s, t)), Cardinality(Within(s, t)), rows[s])

Budget == \A s \in Subjects, t \in 1..MaxTime : BudgetOf(s, t)

JoinInv == JoinRows /\ HeldApart /\ HeldIsCurrent /\ Budget

\* An attempt in progress, and what it has counted.
LEMMA JoinFacts ==
    ASSUME JoinRows, NEW j \in Joins, joins[j] # NoJoin
    PROVE  /\ joins[j] \in Join
           /\ joins[j].subjects \in Origins
           /\ joins[j].now \in 1..MaxTime /\ joins[j].now \in Nat /\ joins[j].now <= time
           /\ joins[j].subjects[1] \in Subjects /\ joins[j].subjects[2] \in Subjects
           /\ joins[j].subjects[1] # joins[j].subjects[2]
           /\ SubjectsOf(j) \subseteq Subjects
<1>1. joins[j] \in Join
  BY DEF JoinRows
<1>2. joins[j].subjects \in Origins /\ joins[j].now \in 1..MaxTime
  BY <1>1 DEF Join
<1>3. joins[j].now \in Nat /\ joins[j].now <= time
  BY <1>2, JoinNumbers DEF JoinRows
<1>4. joins[j].subjects \in Joiners \X Addresses /\ Joiners \intersect Addresses = {}
  BY <1>2, JoinConstants
<1>5. joins[j].subjects[1] \in Joiners /\ joins[j].subjects[2] \in Addresses
  BY <1>4
<1>6. joins[j].subjects[1] # joins[j].subjects[2]
  BY <1>4, <1>5
<1> QED BY <1>1, <1>2, <1>3, <1>5, <1>6 DEF Subjects, SubjectsOf

\* How many are in progress, and what one that is not among them says about it.
LEMMA InProgress ==
    ASSUME JoinRows, NEW s, NEW t \in Nat
    PROVE  /\ IsFiniteSet(Older(s, t)) /\ IsFiniteSet(Within(s, t))
           /\ Cardinality(Older(s, t)) \in Nat /\ Cardinality(Within(s, t)) \in Nat
           /\ Together - Cardinality(Older(s, t)) \in 0..Together
           /\ Cardinality(Within(s, t)) <= Together - Cardinality(Older(s, t))
           /\ Cardinality(Within(s, t)) \in 0..Together
           /\ \A j \in Joins : j \notin Older(s, t) => Together - Cardinality(Older(s, t)) > 0
           /\ \A j \in Joins : j \notin Within(s, t) => Cardinality(Within(s, t)) < Together
<1> DEFINE old == Older(s, t)
           new == Within(s, t)
<1>1. IsFiniteSet(Joins) /\ Together = Cardinality(Joins) /\ Together \in Nat
  BY JoinConstants, JoinNumbers DEF Together
<1>2. old \subseteq Joins /\ new \subseteq Joins
  BY DEF Older, Within
<1>3. old \intersect new = {}
  <2> SUFFICES ASSUME NEW j \in Joins, joins[j] # NoJoin,
                      joins[j].now < t, joins[j].now \in t..t + JoinWindow - 1
               PROVE  FALSE
    BY DEF Older, Within
  <2> QED BY JoinFacts
<1> HIDE DEF old, new
<1>4. /\ IsFiniteSet(old) /\ IsFiniteSet(new)
      /\ Cardinality(old) \in Nat /\ Cardinality(new) \in Nat
      /\ Cardinality(old) <= Together /\ Cardinality(new) <= Together
  BY <1>1, <1>2, FS_Subset, FS_CardinalityType
<1>5. /\ IsFiniteSet(Joins \ old)
      /\ Cardinality(Joins \ old) = Together - Cardinality(Joins \intersect old)
  BY <1>1, <1>4, FS_Difference
<1>6. Cardinality(Joins \ old) = Together - Cardinality(old)
  <2>1. Joins \intersect old = old
    BY <1>2
  <2> QED BY <1>5, <2>1
<1>7. Cardinality(new) <= Cardinality(Joins \ old)
  <2>1. new \subseteq Joins \ old
    BY <1>2, <1>3
  <2> QED BY <1>5, <2>1, FS_Subset
<1>8. ASSUME NEW S \in SUBSET Joins, NEW j \in Joins, j \notin S
      PROVE  Cardinality(S) < Together
  <2>1. IsFiniteSet(Joins \ {j}) /\ Cardinality(Joins \ {j}) = Together - 1
    BY <1>1, FS_RemoveElement
  <2>2. S \subseteq Joins \ {j}
    BY <1>8
  <2>3. Cardinality(S) <= Together - 1 /\ Cardinality(S) \in Nat
    BY <2>1, <2>2, FS_Subset, FS_CardinalityType
  <2> QED BY <1>1, <2>3
<1>9. \A j \in Joins : j \notin old => Cardinality(old) < Together
  BY <1>2, <1>8
<1>10. \A j \in Joins : j \notin new => Cardinality(new) < Together
  BY <1>2, <1>8
<1>11. Cardinality(new) <= Together - Cardinality(old)
  BY <1>6, <1>7
<1>12. Together - Cardinality(old) \in 0..Together /\ Cardinality(new) \in 0..Together
  BY <1>1, <1>4
<1>13. \A j \in Joins : j \notin old => Together - Cardinality(old) > 0
  BY <1>1, <1>4, <1>9
<1> QED BY <1>4, <1>10, <1>11, <1>12, <1>13 DEF old, new

\* One attempt leaves.
LEMMA LeaveFacts ==
    ASSUME JoinRows, NEW j \in Joins, joins[j] # NoJoin,
           joins' = [joins EXCEPT ![j] = NoJoin], NEW s, NEW t \in Nat
    PROVE  /\ Cardinality(Older(s, t)') = IF j \in Older(s, t) THEN Cardinality(Older(s, t)) - 1
                                          ELSE Cardinality(Older(s, t))
           /\ Cardinality(Within(s, t)') = IF j \in Within(s, t) THEN Cardinality(Within(s, t)) - 1
                                           ELSE Cardinality(Within(s, t))
<1>1. /\ joins'[j] = NoJoin
      /\ \A k \in Joins : k # j => joins'[k] = joins[k]
  BY DEF JoinRows
<1>2. Older(s, t)' = Older(s, t) \ {j} /\ Within(s, t)' = Within(s, t) \ {j}
  BY <1>1 DEF Older, Within, SubjectsOf
<1> QED BY <1>2, InProgress, FS_RemoveElement

LEMMA AcceptedIsFinite ==
    ASSUME accepted \in Seq([subjects : Origins, now : 1..MaxTime]), NEW s, NEW t
    PROVE  IsFiniteSet(AcceptedFor(s, t)) /\ Cardinality(AcceptedFor(s, t)) \in Nat
<1>1. IsFiniteSet(1..Len(accepted))
  <2>1. Len(accepted) \in Nat
    OBVIOUS
  <2> QED BY <2>1, FS_Interval
<1>2. AcceptedFor(s, t) \subseteq 1..Len(accepted)
  BY DEF AcceptedFor
<1> QED BY <1>1, <1>2, FS_Subset, FS_CardinalityType

LEMMA RowFacts ==
    ASSUME JoinRows, NEW s \in Subjects
    PROVE  RowOk(rows[s]) /\ (rows[s] # NoRow => rows[s].start \in Nat /\ rows[s].start <= time)
<1>1. RowOk(rows[s])
  BY DEF JoinRows, RowOk
<1> QED BY <1>1, RowNumbers DEF JoinRows

\* The stretch begins or ends with a tick.
LEMMA TickBudget ==
    ASSUME JoinInv, JoinTick
    PROVE  Budget'
<1> SUFFICES ASSUME NEW s \in Subjects, NEW t \in 1..MaxTime PROVE BudgetOf(s, t)'
  BY DEF Budget
<1> DEFINE through == Cardinality(AcceptedFor(s, t))
           gone == Together - Cardinality(Older(s, t))
           still == Cardinality(Within(s, t))
           row == rows[s]
<1>1. t \in Nat /\ t >= 1 /\ time \in Nat /\ JoinWindow \in Nat /\ JoinWindow >= 1
  BY JoinNumbers DEF JoinInv, JoinRows
<1>2. time' = time + 1 /\ UNCHANGED <<rows, joins, accepted>>
  BY DEF JoinTick
<1>3. /\ through' = through /\ gone' = gone /\ still' = still /\ row' = row
  BY <1>2 DEF AcceptedFor, Older, Within, SubjectsOf, Together
<1>4. /\ through \in Nat /\ gone \in 0..Together /\ still \in Nat /\ still <= gone
      /\ RowOk(row) /\ (row # NoRow => row.start \in Nat /\ row.start <= time)
  BY <1>1, AcceptedIsFinite, InProgress, RowFacts DEF JoinInv, JoinRows
<1>5. /\ time < t => through = 0
      /\ time >= t /\ time < t + JoinWindow => During(t, through, gone, row)
      /\ time >= t + JoinWindow => Over(t, through, still, row)
  BY DEF JoinInv, Budget, BudgetOf
<1> HIDE DEF through, gone, still, row
<1>6. time' < t => through = 0
  BY <1>1, <1>2, <1>5
<1>7. ASSUME time' >= t, time' < t + JoinWindow PROVE During(t, through, gone, row)
  <2>1. CASE time >= t
    BY <1>1, <1>2, <1>5, <1>7, <2>1
  <2>2. CASE time < t
    <3>1. through = 0 /\ (row # NoRow => row.start < t)
      BY <1>1, <1>4, <1>5, <2>2
    <3>2. gone \in Nat /\ Spare(gone) \in Nat
      <4>1. gone \in Nat
        BY <1>4, JoinNumbers
      <4> QED BY <4>1, SpareFacts
    <3>3. row # NoRow => UpToLimit(row.count) \in Nat /\ UpToLimit(row.count) >= 1
      BY <1>4, RowNumbers
    <3>4. gone > 0 => Spare(gone - 1) \in Nat
      BY <3>2, SpareFacts
    <3>5. row # NoRow => row.start \in Nat /\ ~(row.start >= t)
      BY <1>1, <1>4, <3>1
    <3>6. gone > 0 /\ row # NoRow => 0 <= Spare(gone - 1) + UpToLimit(row.count) - 1
      BY <3>3, <3>4
    <3> QED BY <3>1, <3>2, <3>5, <3>6 DEF During
  <2> QED BY <1>1, <2>1, <2>2
<1>8. ASSUME time' >= t + JoinWindow PROVE Over(t, through, still, row)
  <2>1. CASE time >= t + JoinWindow
    BY <1>5, <2>1
  <2>2. CASE time < t + JoinWindow
    <3>1. time >= t /\ (row # NoRow => row.start < t + JoinWindow)
      BY <1>1, <1>2, <1>4, <1>8, <2>2
    <3> QED BY <1>1, <1>4, <1>5, <2>2, <3>1, DuringToOver
  <2> QED BY <1>1, <2>1, <2>2
<1>9. /\ time' < t => through' = 0
      /\ time' >= t /\ time' < t + JoinWindow => During(t, through', gone', row')
      /\ time' >= t + JoinWindow => Over(t, through', still', row')
  BY <1>3, <1>6, <1>7, <1>8
<1> QED BY <1>9 DEF BudgetOf, through, gone, still, row, During, Over, Together, Spare, UpToLimit

\* Who comes is in progress since now.
LEMMA ArriveBudget ==
    ASSUME JoinInv, UNCHANGED <<rows, time, accepted>>,
           NEW j \in Joins, joins[j] = NoJoin, joins'[j] # NoJoin, joins'[j].now = time,
           \A k \in Joins : k # j => joins'[k] = joins[k]
    PROVE  Budget'
<1> SUFFICES ASSUME NEW s \in Subjects, NEW t \in 1..MaxTime PROVE BudgetOf(s, t)'
  BY DEF Budget
<1>1. t \in Nat /\ time \in Nat /\ JoinWindow \in Nat
  BY JoinNumbers DEF JoinInv, JoinRows
<1>2. time >= t => Older(s, t)' = Older(s, t)
  BY <1>1 DEF Older, SubjectsOf
<1>3. time >= t + JoinWindow => Within(s, t)' = Within(s, t)
  BY <1>1 DEF Within, SubjectsOf
<1>4. AcceptedFor(s, t)' = AcceptedFor(s, t)
  BY DEF AcceptedFor
<1>5. BudgetOf(s, t)
  BY DEF JoinInv, Budget
<1> QED BY <1>2, <1>3, <1>4, <1>5 DEF BudgetOf, During, Over, Together, Spare, UpToLimit

\* Counting changes nothing of this: the rows change when the attempt commits.
LEMMA CountBudget ==
    ASSUME JoinInv, UNCHANGED <<rows, time, accepted>>,
           \A k \in Joins : /\ joins'[k] = NoJoin <=> joins[k] = NoJoin
                            /\ joins[k] # NoJoin => /\ joins'[k].subjects = joins[k].subjects
                                                    /\ joins'[k].now = joins[k].now
    PROVE  Budget'
<1> SUFFICES ASSUME NEW s \in Subjects, NEW t \in 1..MaxTime PROVE BudgetOf(s, t)'
  BY DEF Budget
<1>1. Older(s, t)' = Older(s, t) /\ Within(s, t)' = Within(s, t)
  BY DEF Older, Within, SubjectsOf
<1>2. AcceptedFor(s, t)' = AcceptedFor(s, t)
  BY DEF AcceptedFor
<1>3. BudgetOf(s, t)
  BY DEF JoinInv, Budget
<1> QED BY <1>1, <1>2, <1>3 DEF BudgetOf, During, Over, Together, Spare, UpToLimit

\* Who breaks off leaves the rows as they are.
LEMMA BreakBudget ==
    ASSUME JoinInv, NEW j \in Joins, Break(j)
    PROVE  Budget'
<1> SUFFICES ASSUME NEW s \in Subjects, NEW t \in 1..MaxTime PROVE BudgetOf(s, t)'
  BY DEF Budget
<1> DEFINE through == Cardinality(AcceptedFor(s, t))
           gone == Together - Cardinality(Older(s, t))
           still == Cardinality(Within(s, t))
           row == rows[s]
<1>1. /\ t \in Nat /\ joins[j] # NoJoin /\ joins' = [joins EXCEPT ![j] = NoJoin]
      /\ UNCHANGED <<rows, time, accepted>> /\ JoinRows
  BY JoinNumbers DEF JoinInv, Break
<1>2. /\ through \in Nat /\ gone \in 0..Together /\ still \in Nat
      /\ RowOk(row) /\ Together \in Nat
      /\ Cardinality(Older(s, t)) \in Nat
  BY <1>1, AcceptedIsFinite, InProgress, RowFacts, JoinNumbers DEF JoinRows
<1>3. through' = through /\ row' = row /\ Together' = Together
  BY <1>1 DEF AcceptedFor, Together
<1>4. gone' = gone \/ gone' = gone + 1
  <2> DEFINE old == Cardinality(Older(s, t))
  <2>1. old' = old \/ old' = old - 1
    BY <1>1, LeaveFacts
  <2>2. gone = Together - old /\ gone' = Together - old' /\ old \in Nat
    BY <1>2, <1>3
  <2> HIDE DEF old, gone
  <2> QED BY <1>2, <2>1, <2>2
<1>5. still' \in Nat /\ still' <= still
  <2>1. j \in Within(s, t) => still > 0
    <3>1. IsFiniteSet(Within(s, t))
      BY <1>1, InProgress
    <3>2. j \in Within(s, t) => still # 0
      BY <3>1, FS_EmptySet
    <3> QED BY <1>2, <3>2
  <2>2. still' = IF j \in Within(s, t) THEN still - 1 ELSE still
    BY <1>1, LeaveFacts
  <2> HIDE DEF still
  <2> QED BY <1>2, <2>1, <2>2
<1>6. /\ time < t => through = 0
      /\ time >= t /\ time < t + JoinWindow => During(t, through, gone, row)
      /\ time >= t + JoinWindow => Over(t, through, still, row)
  BY DEF JoinInv, Budget, BudgetOf
<1> HIDE DEF through, gone, still, row
<1>7. gone \in Nat
  BY <1>2
<1>8. During(t, through, gone, row) => During(t, through, gone', row)
  BY <1>1, <1>2, <1>4, <1>7, DuringBreak
<1>9. Over(t, through, still, row) => Over(t, through, still', row)
  BY <1>1, <1>2, <1>5, OverLeave
<1>10. /\ time' < t => through' = 0
       /\ time' >= t /\ time' < t + JoinWindow => During(t, through', gone', row')
       /\ time' >= t + JoinWindow => Over(t, through', still', row')
  BY <1>1, <1>3, <1>6, <1>8, <1>9
<1> QED BY <1>10 DEF BudgetOf, through, gone, still, row, During, Over, Together, Spare, UpToLimit

\* What a commit does to the row of a subject.
LEMMA CommitFacts ==
    ASSUME JoinInv, NEW j \in Joins, Done(j), Commit(j), NEW s \in Subjects
    PROVE  /\ joins[j] # NoJoin
           /\ \/ /\ s \in SubjectsOf(j) /\ s \in DOMAIN joins[j].counted
                 /\ joins[j].counted[s] = OneMore(rows[s], joins[j].now)
                 /\ rows'[s] = OneMore(rows[s], joins[j].now)
              \/ s \notin SubjectsOf(j) /\ rows'[s] = rows[s]
              \/ /\ s \notin SubjectsOf(j) /\ rows'[s] = NoRow
                 /\ rows[s] # NoRow /\ rows[s].start < joins[j].now - JoinWindow
<1>1. /\ joins[j] # NoJoin /\ JoinRows
      /\ Cardinality(DOMAIN joins[j].counted) = 2
      /\ DOMAIN joins[j].counted \subseteq SubjectsOf(j)
  BY DEF JoinInv, JoinRows, Done
<1>2. DOMAIN joins[j].counted = SubjectsOf(j)
  <2> DEFINE a == joins[j].subjects[1]
             b == joins[j].subjects[2]
             D == DOMAIN joins[j].counted
  <2>1. D \subseteq {a, b} /\ Cardinality(D) = 2
    BY <1>1 DEF SubjectsOf
  <2> HIDE DEF a, b, D
  <2>2. Cardinality({a}) = 1 /\ Cardinality({b}) = 1 /\ Cardinality({}) = 0
    BY FS_Singleton, FS_EmptySet
  <2>3. D # {a} /\ D # {b} /\ D # {}
    BY <2>1, <2>2
  <2>4. D = {a, b}
    BY <2>1, <2>3
  <2> QED BY <2>4 DEF a, b, D, SubjectsOf
<1>3. rows'[s] = IF s \in DOMAIN joins[j].counted THEN joins[j].counted[s]
                 ELSE IF s \in joins[j].deleted THEN NoRow ELSE rows[s]
  BY DEF Commit
<1>4. CASE s \in SubjectsOf(j)
  <2>1. s \in DOMAIN joins[j].counted /\ joins[j].counted[s] = OneMore(rows[s], joins[j].now)
    BY <1>1, <1>2, <1>4 DEF JoinInv, HeldIsCurrent
  <2> QED BY <1>1, <1>3, <1>4, <2>1
<1>5. CASE s \notin SubjectsOf(j) /\ s \in joins[j].deleted
  <2>1. rows[s] # NoRow /\ rows[s].start < joins[j].now - JoinWindow
    BY <1>1, <1>5 DEF JoinInv, HeldIsCurrent
  <2> QED BY <1>1, <1>2, <1>3, <1>5, <2>1
<1>6. CASE s \notin SubjectsOf(j) /\ s \notin joins[j].deleted
  BY <1>1, <1>2, <1>3, <1>6
<1> QED BY <1>4, <1>5, <1>6

\* What an attempt that gets through adds to the history.
LEMMA AcceptedMore ==
    ASSUME JoinRows, NEW j \in Joins, joins[j] # NoJoin,
           accepted' = Append(accepted, [subjects |-> joins[j].subjects, now |-> joins[j].now]),
           NEW s, NEW t \in Nat
    PROVE  Cardinality(AcceptedFor(s, t)') =
              IF s \in SubjectsOf(j) /\ joins[j].now \in t..t + JoinWindow - 1
              THEN Cardinality(AcceptedFor(s, t)) + 1 ELSE Cardinality(AcceptedFor(s, t))
<1> DEFINE n == Len(accepted)
           seen == s \in SubjectsOf(j) /\ joins[j].now \in t..t + JoinWindow - 1
<1>1. /\ n \in Nat /\ DOMAIN accepted = 1..n /\ DOMAIN accepted' = 1..n + 1
      /\ \A k \in 1..n : accepted'[k] = accepted[k]
      /\ accepted'[n + 1] = [subjects |-> joins[j].subjects, now |-> joins[j].now]
  BY DEF JoinRows
<1>2. AcceptedFor(s, t) \subseteq 1..n
  BY <1>1 DEF AcceptedFor
<1>3. 1..n + 1 = (1..n) \union {n + 1} /\ n + 1 \notin 1..n
  BY <1>1
<1> DEFINE Counts(a) == /\ s \in {a.subjects[1], a.subjects[2]}
                        /\ a.now \in t..t + JoinWindow - 1
<1>4. Counts(accepted'[n + 1]) <=> seen
  BY <1>1 DEF SubjectsOf
<1>5. AcceptedFor(s, t)' = {k \in 1..n + 1 : Counts(accepted'[k])}
  BY <1>1 DEF AcceptedFor
<1>6. AcceptedFor(s, t) = {k \in 1..n : Counts(accepted[k])}
  BY <1>1 DEF AcceptedFor
<1> HIDE DEF Counts, n, seen
<1>7. AcceptedFor(s, t)' = AcceptedFor(s, t) \union (IF seen THEN {n + 1} ELSE {})
  BY <1>1, <1>3, <1>4, <1>5, <1>6
<1>8. IsFiniteSet(AcceptedFor(s, t)) /\ n + 1 \notin AcceptedFor(s, t)
  BY <1>2, <1>3, AcceptedIsFinite DEF JoinRows
<1>9. CASE seen
  <2>1. AcceptedFor(s, t)' = AcceptedFor(s, t) \union {n + 1}
    BY <1>7, <1>9
  <2>2. Cardinality(AcceptedFor(s, t)') = Cardinality(AcceptedFor(s, t)) + 1
    BY <1>8, <2>1, FS_AddElement
  <2> QED BY <1>9, <2>2 DEF seen
<1>10. CASE ~ seen
  <2>1. AcceptedFor(s, t)' = AcceptedFor(s, t)
    BY <1>7, <1>10
  <2> QED BY <1>10, <2>1 DEF seen
<1> QED BY <1>9, <1>10

\* A commit: the row of a subject of the attempt counts one more, a row it deletes
\* began a window before it, and it is no longer in progress.
LEMMA CommitBudget ==
    ASSUME JoinInv, NEW j \in Joins, Done(j), Commit(j), UNCHANGED time,
           \/ UNCHANGED accepted
           \/ /\ ~ Limited(j)
              /\ accepted' = Append(accepted, [subjects |-> joins[j].subjects, now |-> joins[j].now])
    PROVE  Budget'
<1> SUFFICES ASSUME NEW s \in Subjects, NEW t \in 1..MaxTime PROVE BudgetOf(s, t)'
  BY DEF Budget
<1> DEFINE through == Cardinality(AcceptedFor(s, t))
           old == Cardinality(Older(s, t))
           gone == Together - Cardinality(Older(s, t))
           still == Cardinality(Within(s, t))
           row == rows[s]
           now == joins[j].now
           mine == s \in SubjectsOf(j)
<1>1. /\ t \in Nat /\ JoinRows /\ joins' = [joins EXCEPT ![j] = NoJoin] /\ time' = time
      /\ joins[j] # NoJoin
  BY JoinNumbers DEF JoinInv, Commit, Done
<1>2. /\ through \in Nat /\ gone \in 0..Together /\ still \in 0..Together /\ old \in Nat
      /\ RowOk(row) /\ Together \in Nat /\ gone = Together - old
  BY <1>1, AcceptedIsFinite, InProgress, RowFacts, JoinNumbers DEF JoinRows
<1>3. row # NoRow => row.start \in Nat /\ row.start <= time
  BY <1>1, RowFacts
<1>4. now \in Nat /\ now \in 1..MaxTime /\ now <= time /\ time \in Nat
  BY <1>1, JoinFacts, JoinNumbers DEF JoinRows
<1>5. JoinWindow \in Nat /\ JoinWindow >= 1
  BY JoinNumbers
<1>6. Together' = Together
  BY DEF Together
<1>7. j \in Older(s, t) <=> mine /\ now < t
  BY <1>1 DEF Older
<1>8. j \in Within(s, t) <=> mine /\ now \in t..t + JoinWindow - 1
  BY <1>1 DEF Within
<1>9. old' = (IF mine /\ now < t THEN old - 1 ELSE old)
  BY <1>1, <1>7, LeaveFacts
<1>10. still' = (IF mine /\ now \in t..t + JoinWindow - 1 THEN still - 1 ELSE still)
  BY <1>1, <1>8, LeaveFacts
<1>11. gone' = (IF mine /\ now < t THEN gone + 1 ELSE gone)
  <2>1. gone' = Together - old'
    BY <1>6
  <2> HIDE DEF gone, old, mine, now
  <2> QED BY <1>2, <1>9, <2>1
<1>12. \/ mine /\ row' = OneMore(row, now)
       \/ ~ mine /\ row' = row
       \/ ~ mine /\ row' = NoRow /\ row # NoRow /\ row.start < now - JoinWindow
  BY CommitFacts
<1>13. \/ through' = through
       \/ /\ through' = through + 1 /\ mine /\ now \in t..t + JoinWindow - 1
          /\ OneMore(row, now).count <= JoinsLimit
  <2>1. CASE UNCHANGED accepted
    BY <2>1 DEF AcceptedFor
  <2>2. CASE /\ ~ Limited(j)
             /\ accepted' = Append(accepted, [subjects |-> joins[j].subjects, now |-> joins[j].now])
    <3>1. through' = IF mine /\ now \in t..t + JoinWindow - 1 THEN through + 1 ELSE through
      BY <1>1, <2>2, AcceptedMore
    <3>2. mine => /\ s \in DOMAIN joins[j].counted
                  /\ joins[j].counted[s] = OneMore(row, now)
      BY CommitFacts
    <3>3. mine => ~(OneMore(row, now).count > JoinsLimit)
      BY <2>2, <3>2 DEF Limited
    <3>4. OneMore(row, now).count \in Nat
      <4>1. OneMore(row, now) \in Row
        BY <1>2, <1>4, OneMoreFacts DEF RowOk
      <4> QED BY <4>1 DEF Row
    <3>5. mine => OneMore(row, now).count <= JoinsLimit
      BY <3>3, <3>4, JoinNumbers
    <3> QED BY <3>1, <3>5
  <2> QED BY <2>1, <2>2
<1>14. /\ j \notin Older(s, t) => gone > 0
       /\ j \notin Within(s, t) => still < Together
       /\ j \in Within(s, t) => still # 0
  <2>1. IsFiniteSet(Within(s, t))
    BY <1>1, InProgress
  <2>2. j \in Within(s, t) => still # 0
    BY <2>1, FS_EmptySet
  <2> QED BY <1>1, <2>2, InProgress
<1>15. /\ time < t => through = 0
       /\ time >= t /\ time < t + JoinWindow => During(t, through, gone, row)
       /\ time >= t + JoinWindow => Over(t, through, still, row)
  BY DEF JoinInv, Budget, BudgetOf
<1>16. gone \in Nat /\ still \in Nat
  BY <1>2
<1>17. through' \in Nat
  BY <1>2, <1>13
<1> DEFINE within == now \in t..t + JoinWindow - 1
<1>18. within <=> now >= t /\ now < t + JoinWindow
  BY <1>1, <1>4, <1>5
<1>19. \/ through' = through
       \/ through' = through + 1 /\ mine /\ within /\ OneMore(row, now).count <= JoinsLimit
  BY <1>13
<1>20. still' \in Nat /\ still' <= still /\ through' + still' <= through + still
  <2>1. mine /\ within => still # 0
    BY <1>8, <1>14
  <2>2. still' = (IF mine /\ within THEN still - 1 ELSE still)
    BY <1>10
  <2>3. through \in Nat /\ still \in Nat
    BY <1>2, <1>16
  <2> HIDE DEF through, old, gone, still, row, now, mine, within
  <2>4. CASE mine /\ within
    BY <1>19, <2>1, <2>2, <2>3, <2>4
  <2>5. CASE ~(mine /\ within)
    <3>1. through' = through /\ still' = still
      BY <1>19, <2>2, <2>5
    <3> QED BY <2>3, <3>1
  <2> QED BY <2>4, <2>5
<1>21. /\ ~(mine /\ now < t) => gone > 0
       /\ ~(mine /\ within) => still < Together
  BY <1>7, <1>8, <1>14
<1> HIDE DEF through, old, gone, still, row, now, mine, within
<1>22. time < t => through' = 0
  BY <1>1, <1>4, <1>15, <1>18, <1>19
<1>23. ASSUME time >= t, time < t + JoinWindow PROVE During(t, through', gone', row')
  <2>0. During(t, through, gone, row)
    BY <1>15, <1>23
  <2>1. CASE mine /\ now < t
    <3>1. through' = through /\ gone' = gone + 1 /\ row' = OneMore(row, now)
      BY <1>1, <1>4, <1>11, <1>12, <1>18, <1>19, <2>1
    <3> QED BY <1>1, <1>2, <1>4, <1>16, <2>0, <2>1, <3>1, DuringOlder
  <2>2. CASE mine /\ ~(now < t)
    <3>1. gone' = gone /\ gone > 0 /\ row' = OneMore(row, now)
      BY <1>11, <1>12, <1>21, <2>2
    <3>2. now >= t /\ now < t + JoinWindow
      BY <1>1, <1>4, <1>5, <1>23, <2>2
    <3>3. \/ through' = through
          \/ through' = through + 1 /\ OneMore(row, now).count <= JoinsLimit
      BY <1>19
    <3> QED BY <1>1, <1>2, <1>4, <1>16, <1>17, <2>0, <3>1, <3>2, <3>3, DuringWithin
  <2>3. CASE ~ mine /\ row' = row
    BY <1>11, <1>19, <2>0, <2>3
  <2>4. CASE ~ mine /\ row' = NoRow /\ row # NoRow /\ row.start < now - JoinWindow
    <3>1. gone' = gone /\ through' = through
      BY <1>11, <1>19, <2>4
    <3>2. row.start < t
      BY <1>1, <1>3, <1>4, <1>5, <1>23, <2>4
    <3> QED BY <1>1, <1>2, <1>16, <2>0, <2>4, <3>1, <3>2, DuringDelete
  <2> QED BY <1>12, <2>1, <2>2, <2>3, <2>4
<1>24. ASSUME time >= t + JoinWindow PROVE Over(t, through', still', row')
  <2>0. Over(t, through, still, row)
    BY <1>15, <1>24
  <2>1. CASE mine
    <3>1. row' = OneMore(row, now)
      BY <1>12, <2>1
    <3>2. now >= t + JoinWindow => still < Together
      BY <1>1, <1>4, <1>5, <1>18, <1>21
    <3>3. \/ through' = through
          \/ /\ through' = through + 1 /\ OneMore(row, now).count <= JoinsLimit
             /\ now < t + JoinWindow
      BY <1>18, <1>19
    <3> QED BY <1>1, <1>2, <1>4, <1>16, <1>17, <1>20, <2>0, <3>1, <3>2, <3>3, OverCounts
  <2>2. CASE ~ mine /\ row' = row
    <3>1. through' = through
      BY <1>19, <2>2
    <3> QED BY <1>1, <1>2, <1>16, <1>20, <2>0, <2>2, <3>1, OverLeave
  <2>3. CASE ~ mine /\ row' = NoRow
    <3>1. through' = through /\ still < Together
      BY <1>21, <1>19, <2>3
    <3>2. Over(t, through, still, NoRow)
      BY <1>1, <1>2, <2>0, <3>1, OverDelete
    <3> QED BY <1>1, <1>2, <1>16, <1>20, <2>3, <3>1, <3>2, OverLeave
  <2> QED BY <1>12, <2>1, <2>2, <2>3
<1>25. /\ time' < t => through' = 0
       /\ time' >= t /\ time' < t + JoinWindow => During(t, through', gone', row')
       /\ time' >= t + JoinWindow => Over(t, through', still', row')
  BY <1>1, <1>22, <1>23, <1>24
<1> QED BY <1>25 DEF BudgetOf, through, gone, still, row, During, Over, Together, Spare, UpToLimit

CountedRows == UNION {[S -> Row] : S \in SUBSET Subjects}

LEMMA NothingCounted == <<>> \in CountedRows /\ DOMAIN <<>> = {}
<1>1. <<>> \in [{} -> Row] /\ {} \in SUBSET Subjects
  OBVIOUS
<1>2. <<>> \in CountedRows
  BY <1>1 DEF CountedRows
<1>3. DOMAIN <<>> = {}
  OBVIOUS
<1> QED BY <1>2, <1>3

LEMMA WithFacts ==
    ASSUME NEW c \in CountedRows, NEW s \in Subjects, NEW row \in Row
    PROVE  /\ With(c, s, row) \in CountedRows
           /\ DOMAIN With(c, s, row) = DOMAIN c \union {s}
<1> DEFINE S == DOMAIN c \union {s}
<1>1. DOMAIN c \subseteq Subjects /\ \A d \in DOMAIN c : c[d] \in Row
  <2>1. PICK T \in SUBSET Subjects : c \in [T -> Row]
    BY DEF CountedRows
  <2> QED BY <2>1
<1>2. S \in SUBSET Subjects
  BY <1>1
<1>3. With(c, s, row) = [d \in S |-> IF d = s THEN row ELSE c[d]]
  BY DEF With
<1>4. \A d \in S : (IF d = s THEN row ELSE c[d]) \in Row
  BY <1>1
<1> HIDE DEF S
<1>5. With(c, s, row) \in [S -> Row]
  BY <1>3, <1>4
<1>6. With(c, s, row) \in CountedRows
  BY <1>2, <1>5 DEF CountedRows
<1> QED BY <1>3, <1>6 DEF S

LEMMA CountedIsOneMore ==
    ASSUME NEW j, NEW s
    PROVE  Counted(j, s) = OneMore(rows[s], joins[j].now)
BY DEF Counted, OneMore, Passed

\* An attempt takes a row of its own, and may take those it deletes.
Takes(j, s, D) ==
    joins' = [joins EXCEPT ![j] =
                 [joins[j] EXCEPT !.counted = With(joins[j].counted, s, Counted(j, s)),
                                  !.deleted = D]]

LEMMA CountStep ==
    ASSUME JoinInv, UNCHANGED <<rows, time, accepted>>, NEW j \in Joins, joins[j] # NoJoin,
           NEW s \in SubjectsOf(j), Lockable(j, s),
           NEW D \in SUBSET Subjects,
           \A d \in D : /\ Lockable(j, d) /\ d \notin SubjectsOf(j)
                        /\ rows[d] # NoRow /\ rows[d].start < joins[j].now - JoinWindow,
           Takes(j, s, D)
    PROVE  JoinInv'
<1> USE DEF JoinInv
<1> DEFINE had == joins[j].counted
           row == OneMore(rows[s], joins[j].now)
           c == With(had, s, row)
<1>1. joins[j] \in Join /\ joins[j].now \in 1..MaxTime /\ s \in Subjects
  BY JoinFacts
<1>2. Join = [subjects : Origins, now : 1..MaxTime, counted : CountedRows,
              deleted : SUBSET Subjects]
  BY DEF Join, CountedRows
<1>3. /\ c \in CountedRows /\ DOMAIN c = DOMAIN had \union {s}
      /\ c[s] = row /\ \A d \in DOMAIN had : d # s => c[d] = had[d]
  <2>1. row \in Row
    BY <1>1, OneMoreFacts DEF JoinRows
  <2>2. had \in CountedRows
    BY <1>1, <1>2
  <2>3. s \in Subjects
    BY <1>1
  <2> HIDE DEF had, row
  <2>4. With(had, s, row) \in CountedRows /\ DOMAIN With(had, s, row) = DOMAIN had \union {s}
    BY <2>1, <2>2, <2>3, WithFacts
  <2>5. With(had, s, row)[s] = row /\ \A d \in DOMAIN had : d # s => With(had, s, row)[d] = had[d]
    BY DEF With
  <2> QED BY <2>4, <2>5
<1>4. /\ joins'[j] \in Join /\ joins'[j] # NoJoin
      /\ joins'[j].subjects = joins[j].subjects /\ joins'[j].now = joins[j].now
      /\ joins'[j].counted = c /\ joins'[j].deleted = D
  <2>0. c = With(joins[j].counted, s, Counted(j, s))
    BY CountedIsOneMore
  <2> HIDE DEF c
  <2>1. joins'[j] = [joins[j] EXCEPT !.counted = c, !.deleted = D]
    BY <2>0 DEF JoinRows, Takes
  <2>2. c \in CountedRows
    BY <1>3
  <2>3. /\ joins'[j] \in Join
        /\ joins'[j].subjects = joins[j].subjects /\ joins'[j].now = joins[j].now
        /\ joins'[j].counted = c /\ joins'[j].deleted = D
    BY <1>1, <1>2, <2>1, <2>2
  <2> QED BY <2>3, JoinConstants
<1> HIDE DEF c
<1>5. \A k \in Joins : k # j => joins'[k] = joins[k]
  BY DEF JoinRows, Takes
<1>6. joins' \in [Joins -> Join \union {NoJoin}]
  BY <1>4 DEF JoinRows, Takes
<1>7. /\ SubjectsOf(j)' = SubjectsOf(j) /\ Held(j)' \subseteq Held(j) \union {s} \union D
      /\ \A k \in Joins : k # j => SubjectsOf(k)' = SubjectsOf(k) /\ Held(k)' = Held(k)
  BY <1>3, <1>4, <1>5 DEF SubjectsOf, Held
<1>8. JoinRows'
  <2>1. DOMAIN joins'[j].counted \subseteq SubjectsOf(j)'
    <3>1. DOMAIN joins[j].counted \subseteq SubjectsOf(j)
      BY DEF JoinRows
    <3> QED BY <1>3, <1>4, <1>7, <3>1
  <2>2. \A k \in Joins : joins'[k] # NoJoin =>
           joins'[k].now <= time' /\ DOMAIN joins'[k].counted \subseteq SubjectsOf(k)'
    BY <1>4, <1>5, <1>7, <2>1 DEF JoinRows
  <2> QED BY <1>6, <2>2 DEF JoinRows
<1>9. HeldApart'
  <2>1. ASSUME NEW k \in Joins, k # j, joins[k] # NoJoin
        PROVE  Held(j)' \intersect Held(k)' = {}
    <3>1. Held(j) \intersect Held(k) = {}
      BY <2>1 DEF HeldApart
    <3>2. s \notin Held(k) /\ \A d \in D : d \notin Held(k)
      BY <2>1 DEF Lockable, Held
    <3> QED BY <1>7, <2>1, <3>1, <3>2
  <2> QED BY <1>5, <1>7, <2>1 DEF HeldApart
<1>10. HeldIsCurrent'
  <2>1. \A d \in DOMAIN joins[j].counted :
           joins[j].counted[d] = OneMore(rows[d], joins[j].now)
    BY DEF HeldIsCurrent
  <2>2. \A d \in DOMAIN c : c[d] = OneMore(rows[d], joins[j].now)
    <3> SUFFICES ASSUME NEW d \in DOMAIN had \union {s}
                 PROVE  c[d] = OneMore(rows[d], joins[j].now)
      BY <1>3
    <3>1. CASE d = s
      BY <1>3, <3>1
    <3>2. CASE d # s
      BY <1>3, <2>1, <3>2
    <3> QED BY <3>1, <3>2
  <2> SUFFICES ASSUME NEW k \in Joins, joins'[k] # NoJoin
               PROVE  /\ \A d \in DOMAIN joins'[k].counted :
                            joins'[k].counted[d] = OneMore(rows[d], joins'[k].now)
                      /\ \A d \in joins'[k].deleted :
                            /\ d \in Subjects /\ d \notin SubjectsOf(k)'
                            /\ rows[d] # NoRow /\ rows[d].start < joins'[k].now - JoinWindow
    BY DEF HeldIsCurrent, OneMore
  <2>3. CASE k = j
    BY <1>4, <1>7, <2>2, <2>3
  <2>4. CASE k # j
    BY <1>5, <1>7, <2>4 DEF HeldIsCurrent
  <2> QED BY <2>3, <2>4
<1>11. Budget'
  <2>1. \A k \in Joins : /\ joins'[k] = NoJoin <=> joins[k] = NoJoin
                         /\ joins[k] # NoJoin => /\ joins'[k].subjects = joins[k].subjects
                                                 /\ joins'[k].now = joins[k].now
    BY <1>4, <1>5
  <2> QED BY <2>1, CountBudget
<1> QED BY <1>8, <1>9, <1>10, <1>11

\* Who leaves holds nothing any more; what the others hold is as it was.
LEMMA LeaveStep ==
    ASSUME JoinInv, NEW j \in Joins, joins[j] # NoJoin, joins' = [joins EXCEPT ![j] = NoJoin],
           UNCHANGED time, accepted' \in Seq([subjects : Origins, now : 1..MaxTime]),
           rows' \in [Subjects -> Row \union {NoRow}],
           \A s \in Subjects : /\ s \notin Held(j) => rows'[s] = rows[s]
                               /\ rows'[s] # NoRow => rows'[s].count >= 1 /\ rows'[s].start <= time
    PROVE  JoinRows' /\ HeldApart' /\ HeldIsCurrent'
<1> USE DEF JoinInv
<1>1. joins'[j] = NoJoin /\ \A k \in Joins : k # j => joins'[k] = joins[k]
  BY DEF JoinRows
<1>2. \A k \in Joins : k # j => SubjectsOf(k)' = SubjectsOf(k) /\ Held(k)' = Held(k)
  BY <1>1 DEF SubjectsOf, Held
<1>3. JoinRows'
  BY <1>1, <1>2 DEF JoinRows
<1>4. HeldApart'
  BY <1>1, <1>2 DEF HeldApart
<1>5. HeldIsCurrent'
  <2> SUFFICES ASSUME NEW k \in Joins, k # j, joins[k] # NoJoin
               PROVE  /\ \A s \in DOMAIN joins[k].counted :
                            joins[k].counted[s] = OneMore(rows'[s], joins[k].now)
                      /\ \A s \in joins[k].deleted :
                            /\ s \in Subjects /\ s \notin SubjectsOf(k)
                            /\ rows'[s] # NoRow /\ rows'[s].start < joins[k].now - JoinWindow
    BY <1>1, <1>2 DEF HeldIsCurrent, OneMore
  <2>1. Held(j) \intersect Held(k) = {}
    BY DEF HeldApart
  <2>2. \A s \in DOMAIN joins[k].counted : s \in Subjects /\ s \notin Held(j)
    BY <2>1, JoinFacts DEF Held, JoinRows
  <2>3. \A s \in joins[k].deleted : s \in Subjects /\ s \notin Held(j)
    BY <2>1 DEF Held, HeldIsCurrent
  <2> QED BY <2>2, <2>3 DEF HeldIsCurrent
<1> QED BY <1>3, <1>4, <1>5

\* A commit writes the rows that the attempt holds.
LEMMA CommitStep ==
    ASSUME JoinInv, NEW j \in Joins, Done(j), Commit(j), UNCHANGED time,
           \/ UNCHANGED accepted
           \/ /\ ~ Limited(j)
              /\ accepted' = Append(accepted, [subjects |-> joins[j].subjects, now |-> joins[j].now])
    PROVE  JoinInv'
<1> USE DEF JoinInv
<1>1. joins[j] # NoJoin /\ joins' = [joins EXCEPT ![j] = NoJoin]
  BY DEF Done, Commit
<1>2. joins[j].subjects \in Origins /\ joins[j].now \in 1..MaxTime /\ joins[j].now <= time
  BY <1>1, JoinFacts
<1>3. accepted' \in Seq([subjects : Origins, now : 1..MaxTime])
  <2>1. [subjects |-> joins[j].subjects, now |-> joins[j].now] \in [subjects : Origins, now : 1..MaxTime]
    BY <1>2
  <2>2. accepted \in Seq([subjects : Origins, now : 1..MaxTime])
    BY DEF JoinRows
  <2> HIDE DEF JoinInv
  <2>3. CASE UNCHANGED accepted
    BY <2>2, <2>3
  <2>4. CASE accepted' = Append(accepted, [subjects |-> joins[j].subjects, now |-> joins[j].now])
    BY <2>1, <2>2, <2>4
  <2> QED BY <2>3, <2>4
<1>4. DOMAIN rows' = Subjects
  BY DEF Commit
<1>5. ASSUME NEW s \in Subjects
      PROVE  /\ rows'[s] \in Row \union {NoRow}
             /\ rows'[s] # NoRow => rows'[s].count >= 1 /\ rows'[s].start <= time
             /\ s \notin Held(j) => rows'[s] = rows[s]
  <2>1. rows[s] \in Row \union {NoRow} /\ RowOk(rows[s])
        /\ (rows[s] # NoRow => rows[s].start \in Nat /\ rows[s].start <= time)
    BY RowFacts DEF RowOk
  <2>2. s \notin Held(j) => rows'[s] = rows[s]
    BY DEF Commit, Held
  <2>3. CASE rows'[s] = rows[s]
    BY <2>1, <2>3, RowNumbers
  <2>4. CASE rows'[s] = NoRow
    BY <2>2, <2>4
  <2>5. CASE rows'[s] = OneMore(rows[s], joins[j].now)
    <3>1. rows'[s] \in Row
      BY <1>2, <2>1, <2>5, OneMoreFacts
    <3>2. \/ rows'[s].start = joins[j].now /\ rows'[s].count = 1
          \/ /\ rows[s] # NoRow /\ rows'[s].start = rows[s].start
             /\ rows'[s].count = rows[s].count + 1
      BY <1>2, <2>1, <2>5, OneMoreFacts
    <3>3. rows[s] # NoRow => rows[s].count \in Nat
      BY <2>1, RowNumbers
    <3>4. rows'[s].count >= 1 /\ rows'[s].start <= time
      BY <1>2, <2>1, <3>2, <3>3
    <3> QED BY <2>2, <3>1, <3>4
  <2> QED BY <2>3, <2>4, <2>5, CommitFacts
<1>6. rows' \in [Subjects -> Row \union {NoRow}]
  <2>1. rows' = [s \in Subjects |-> rows'[s]]
    BY DEF Commit
  <2> QED BY <1>5, <2>1
<1>7. JoinRows' /\ HeldApart' /\ HeldIsCurrent'
  BY <1>1, <1>3, <1>5, <1>6, LeaveStep
<1> QED BY <1>7, CommitBudget

LEMMA JoinInvHolds == JoinSpec => []JoinInv
<1>1. JoinInit => JoinInv
  <2> SUFFICES ASSUME JoinInit PROVE JoinInv
    OBVIOUS
  <2>1. JoinRows
    <3>1. /\ rows = [s \in Subjects |-> NoRow] /\ joins = [j \in Joins |-> NoJoin]
          /\ time = 1 /\ accepted = <<>>
      BY DEF JoinInit
    <3>2. /\ rows \in [Subjects -> Row \union {NoRow}] /\ \A s \in Subjects : rows[s] = NoRow
          /\ joins \in [Joins -> Join \union {NoJoin}] /\ \A j \in Joins : joins[j] = NoJoin
      BY <3>1
    <3>3. time \in 1..MaxTime
      BY <3>1, JoinConstants
    <3>4. accepted \in Seq([subjects : Origins, now : 1..MaxTime])
      BY <3>1
    <3> QED BY <3>2, <3>3, <3>4 DEF JoinRows
  <2>2. HeldApart /\ HeldIsCurrent
    BY DEF JoinInit, HeldApart, HeldIsCurrent
  <2>3. ASSUME NEW s \in Subjects, NEW t \in 1..MaxTime PROVE BudgetOf(s, t)
    <3>1. AcceptedFor(s, t) = {} /\ Older(s, t) = {} /\ rows[s] = NoRow /\ time = 1
      BY DEF JoinInit, AcceptedFor, Older
    <3>2. /\ Cardinality(AcceptedFor(s, t)) = 0 /\ Cardinality(Older(s, t)) = 0
      BY <3>1, FS_EmptySet
    <3>3. t \in Nat /\ t >= 1 /\ Together \in Nat /\ Spare(Together - 0) \in Nat
          /\ JoinWindow \in Nat /\ JoinWindow >= 1
      <4>1. Together - 0 = Together /\ Together \in Nat
        BY JoinNumbers
      <4> QED BY <4>1, JoinNumbers, SpareFacts
    <3>4. During(t, 0, Together - 0, NoRow)
      BY <3>3 DEF During
    <3>5. ~(1 >= t + JoinWindow)
      BY <3>3
    <3> QED BY <3>1, <3>2, <3>4, <3>5 DEF BudgetOf
  <2> QED BY <2>1, <2>2, <2>3 DEF JoinInv, Budget
<1>2. JoinInv /\ [JoinNext]_joinVars => JoinInv'
  <2> SUFFICES ASSUME JoinInv, [JoinNext]_joinVars PROVE JoinInv'
    OBVIOUS
  <2> USE DEF JoinInv
  <2>1. CASE UNCHANGED joinVars
    <3>1. UNCHANGED <<rows, joins, time, accepted>>
      BY <2>1 DEF joinVars
    <3>2. JoinRows'
      BY <3>1 DEF JoinRows, SubjectsOf
    <3>3. HeldApart' /\ HeldIsCurrent'
      BY <3>1 DEF HeldApart, HeldIsCurrent, Held, SubjectsOf, OneMore
    <3> QED BY <3>1, <3>2, <3>3, CountBudget
  <2>2. CASE JoinTick
    <3>1. UNCHANGED <<rows, joins, accepted>> /\ time' = time + 1 /\ time' \in 1..MaxTime
          /\ time \in Nat
      BY <2>2, JoinNumbers DEF JoinTick, JoinRows
    <3>2. \A s \in Subjects : rows[s] # NoRow => rows[s].start \in Nat
      BY RowFacts
    <3>3. \A j \in Joins : joins[j] # NoJoin => joins[j].now \in Nat
      BY JoinFacts
    <3>4. JoinRows'
      BY <3>1, <3>2, <3>3 DEF JoinRows, SubjectsOf
    <3>5. HeldApart' /\ HeldIsCurrent'
      BY <3>1 DEF HeldApart, HeldIsCurrent, Held, SubjectsOf, OneMore
    <3> QED BY <2>2, <3>4, <3>5, TickBudget
  <2>3. ASSUME NEW j \in Joins, Arrive(j) PROVE JoinInv'
    <3>1. PICK origin \in Origins :
             joins' = [joins EXCEPT ![j] = [subjects |-> origin, now |-> time,
                                            counted |-> <<>>, deleted |-> {}]]
      BY <2>3 DEF Arrive
    <3>2. joins[j] = NoJoin /\ UNCHANGED <<rows, time, accepted>> /\ time \in 1..MaxTime
      BY <2>3 DEF Arrive, JoinRows
    <3>3. /\ joins'[j] = [subjects |-> origin, now |-> time, counted |-> <<>>, deleted |-> {}]
          /\ \A k \in Joins : k # j => joins'[k] = joins[k]
      BY <3>1 DEF JoinRows
    <3>4. joins'[j] \in Join
      BY <3>2, <3>3, NothingCounted DEF Join, CountedRows
    <3>5. /\ joins'[j] # NoJoin /\ joins'[j].now = time
          /\ joins'[j].counted = <<>> /\ joins'[j].deleted = {}
      <4>1. joins'[j] # NoJoin
        BY <3>4, JoinConstants
      <4> QED BY <3>3, <4>1
    <3>6. DOMAIN joins'[j].counted = {} /\ Held(j)' = {}
      BY <3>5, NothingCounted DEF Held
    <3>7. \A k \in Joins : k # j => SubjectsOf(k)' = SubjectsOf(k) /\ Held(k)' = Held(k)
      BY <3>3 DEF SubjectsOf, Held
    <3>8. JoinRows'
      <4>1. joins' \in [Joins -> Join \union {NoJoin}]
        BY <3>1, <3>3, <3>4 DEF JoinRows
      <4>2. time <= time
        BY <3>2, JoinNumbers
      <4> QED BY <3>2, <3>3, <3>5, <3>6, <3>7, <4>1, <4>2 DEF JoinRows
    <3>9. HeldApart'
      BY <3>3, <3>6, <3>7 DEF HeldApart
    <3>10. HeldIsCurrent'
      <4> SUFFICES ASSUME NEW k \in Joins, joins'[k] # NoJoin
                   PROVE  /\ \A d \in DOMAIN joins'[k].counted :
                                joins'[k].counted[d] = OneMore(rows[d], joins'[k].now)
                          /\ \A d \in joins'[k].deleted :
                                /\ d \in Subjects /\ d \notin SubjectsOf(k)'
                                /\ rows[d] # NoRow /\ rows[d].start < joins'[k].now - JoinWindow
        BY <3>2 DEF HeldIsCurrent, OneMore
      <4>1. CASE k = j
        BY <3>5, <3>6, <4>1
      <4>2. CASE k # j
        BY <3>3, <3>7, <4>2 DEF HeldIsCurrent
      <4> QED BY <4>1, <4>2
    <3> QED BY <3>2, <3>3, <3>5, <3>8, <3>9, <3>10, ArriveBudget
  <2>4. ASSUME NEW j \in Joins, CountAccount(j) PROVE JoinInv'
    <3> DEFINE a == joins[j].subjects[1]
    <3>1. /\ joins[j] # NoJoin /\ joins[j].counted = <<>> /\ Lockable(j, a)
          /\ joins' = [joins EXCEPT ![j].counted = With(<<>>, a, Counted(j, a))]
          /\ UNCHANGED <<rows, time, accepted>>
      BY <2>4 DEF CountAccount
    <3>2. a \in SubjectsOf(j) /\ joins[j] \in Join
      BY <3>1, JoinFacts DEF SubjectsOf
    <3>3. Takes(j, a, joins[j].deleted)
      BY <3>1, <3>2 DEF Join, JoinRows, Takes
    <3>4. \A d \in joins[j].deleted :
             /\ Lockable(j, d) /\ d \notin SubjectsOf(j)
             /\ rows[d] # NoRow /\ rows[d].start < joins[j].now - JoinWindow
      BY <3>1 DEF HeldIsCurrent, HeldApart, Held, Lockable
    <3>5. joins[j].deleted \in SUBSET Subjects
      BY <3>2 DEF Join
    <3>6. joins[j] # NoJoin /\ Lockable(j, a) /\ UNCHANGED <<rows, time, accepted>>
      BY <3>1
    <3> HIDE DEF a
    <3> QED BY <3>2, <3>3, <3>4, <3>5, <3>6, CountStep
  <2>5. ASSUME NEW j \in Joins, CountAddress(j) PROVE JoinInv'
    <3> DEFINE a == joins[j].subjects[2]
    <3>1. /\ joins[j] # NoJoin /\ Lockable(j, a)
          /\ joins' = [joins EXCEPT ![j].counted = With(@, a, Counted(j, a)),
                                    ![j].deleted = PassedWindows(j)]
          /\ UNCHANGED <<rows, time, accepted>>
      BY <2>5 DEF CountAddress
    <3>2. a \in SubjectsOf(j) /\ joins[j] \in Join
      BY <3>1, JoinFacts DEF SubjectsOf
    <3>3. Takes(j, a, PassedWindows(j))
      BY <3>1, <3>2 DEF Join, JoinRows, Takes
    <3>4. /\ PassedWindows(j) \in SUBSET Subjects
          /\ \A d \in PassedWindows(j) :
                /\ Lockable(j, d) /\ d \notin SubjectsOf(j)
                /\ rows[d] # NoRow /\ rows[d].start < joins[j].now - JoinWindow
      BY DEF PassedWindows, SubjectsOf
    <3>5. joins[j] # NoJoin /\ Lockable(j, a) /\ UNCHANGED <<rows, time, accepted>>
      BY <3>1
    <3> HIDE DEF a
    <3> QED BY <3>2, <3>3, <3>4, <3>5, CountStep
  <2>6. ASSUME NEW j \in Joins, TurnAway(j) PROVE JoinInv'
    BY <2>6, CommitStep DEF TurnAway
  <2>7. ASSUME NEW j \in Joins, Proceed(j) PROVE JoinInv'
    BY <2>7, CommitStep DEF Proceed
  <2>8. ASSUME NEW j \in Joins, Break(j) PROVE JoinInv'
    <3>1. /\ joins[j] # NoJoin /\ joins' = [joins EXCEPT ![j] = NoJoin]
          /\ UNCHANGED <<rows, time, accepted>>
      BY <2>8 DEF Break
    <3>2. JoinRows' /\ HeldApart' /\ HeldIsCurrent'
      BY <3>1, LeaveStep DEF JoinRows
    <3> QED BY <2>8, <3>2, BreakBudget
  <2> QED BY <2>1, <2>2, <2>3, <2>4, <2>5, <2>6, <2>7, <2>8 DEF JoinNext
<1> QED BY <1>1, <1>2, PTL DEF JoinSpec

\* In no stretch of time as long as the window do more attempts of a subject get
\* through than the limit times one more than can be in progress together, less one.
THEOREM JoinsStayLimited == JoinSpec => []JoinsAreLimited
<1>1. JoinInv => JoinsAreLimited
  <2> SUFFICES ASSUME JoinInv, NEW s \in Subjects, NEW t \in 1..MaxTime
               PROVE  Cardinality(AcceptedFor(s, t)) <= (Together + 1) * JoinsLimit - 1
    BY DEF JoinsAreLimited, Together
  <2>1. t \in Nat /\ time \in Nat /\ JoinWindow \in Nat /\ JoinRows
    BY JoinNumbers DEF JoinInv, JoinRows
  <2>2. /\ Cardinality(AcceptedFor(s, t)) \in Nat /\ RowOk(rows[s])
        /\ Together - Cardinality(Older(s, t)) \in 0..Together
        /\ Cardinality(Within(s, t)) \in Nat
    BY <2>1, AcceptedIsFinite, InProgress, RowFacts DEF JoinRows
  <2>3. \/ Cardinality(AcceptedFor(s, t)) = 0
        \/ During(t, Cardinality(AcceptedFor(s, t)), Together - Cardinality(Older(s, t)), rows[s])
        \/ Over(t, Cardinality(AcceptedFor(s, t)), Cardinality(Within(s, t)), rows[s])
    BY <2>1 DEF JoinInv, Budget, BudgetOf
  <2> QED BY <2>1, <2>2, <2>3, BudgetSuffices
<1> QED BY <1>1, JoinInvHolds, PTL
===============================================================================
