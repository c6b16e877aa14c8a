------------------------------- MODULE Accounts -------------------------------
(***************************************************************************)
(* Accounts and their sessions (services/auth.py, api/routers/auth.py,     *)
(* create_user and update_user of services/operations.py): sign-in,        *)
(* sign-out, changes of profile and password, and the administrators'      *)
(* changes of other accounts.                                              *)
(*                                                                         *)
(* A request authenticates once, at its start, and keeps the account it    *)
(* read: locking the row later does not refresh the object the session     *)
(* already holds, unless the query says populate_existing (update_user).   *)
(* A refusal changes nothing and is the end of a request, as Abandon. Of   *)
(* the roles only ADMIN is kept; CourseRoster has the others.              *)
(***************************************************************************)
EXTENDS Integers, Sequences

CONSTANTS
    Users,         \* e-mail addresses
    Founder,       \* the administrator the system starts with
    Passwords,
    Requests,      \* requests that overlap
    MaxSessions,   \* bound on the sessions ever made
    MaxRevision,   \* bound on User.revision
    Idle           \* no request

ASSUME AccountsAssumption ==
    /\ Founder \in Users
    /\ MaxSessions \in Nat
    /\ MaxRevision \in Nat \ {0}

VARIABLES
    users,     \* User rows; status "NONE" is no row
    sessions,  \* Session rows, by the order they were made
    requests,
    renewed    \* history: the last change of password and the sessions it found

accountVars == <<users, sessions, requests, renewed>>

Account == [status : {"NONE", "ACTIVE", "LOCKED"}, admin : BOOLEAN, password : Passwords,
            revision : 1..MaxRevision]

\* ended: revoked, or past expires_at.
Session == [user : Users, ended : BOOLEAN]

AccountRequest ==
    [op : {"LOGIN"}, user : Users, phase : {"begun", "row"}]
    \union [op : {"PROFILE"}, user : Users, seen : 1..MaxRevision, phase : {"begun"}]
    \union [op : {"PASSWORD"}, user : Users, session : 1..MaxSessions, seen : 1..MaxRevision,
            password : Passwords, phase : {"begun"}]
    \union [op : {"ADMIN"}, actor : Users, user : Users, seen : 1..MaxRevision, admin : BOOLEAN,
            status : {"ACTIVE", "LOCKED"}, phase : {"begun", "row"}]

AccountsTypeOK ==
    /\ users \in [Users -> Account]
    /\ sessions \in Seq(Session) /\ Len(sessions) <= MaxSessions
    /\ requests \in [Requests -> AccountRequest \union {Idle}]
    /\ \A u \in Users : renewed[u].by \in 0..MaxSessions

NewAccount(status, admin, password) ==
    [status |-> status, admin |-> admin, password |-> password, revision |-> 1]

AccountsInit ==
    /\ \E p \in Passwords :
          users = [u \in Users |->
                      NewAccount(IF u = Founder THEN "ACTIVE" ELSE "NONE", u = Founder, p)]
    /\ sessions = <<>>
    /\ requests = [q \in Requests |-> Idle]
    /\ renewed = [u \in Users |-> [by |-> 0, found |-> {}]]

-------------------------------------------------------------------------------
(* Requests and their locks.                                               *)

Is(q, op, phase) ==
    /\ requests[q] # Idle
    /\ requests[q].op = op
    /\ requests[q].phase = phase

Start(q, request) ==
    /\ requests[q] = Idle
    /\ requests' = [requests EXCEPT ![q] = request]

End(q) == requests' = [requests EXCEPT ![q] = Idle]

\* Mutant: the row is read without FOR UPDATE.
RowRead(u) == TRUE

RowFree(u) ==
    \A q \in Requests : requests[q] # Idle =>
        ~ (requests[q].phase = "row" /\ requests[q].user = u)

\* Mutant: only the row of the account is locked.
AdminLockShared == TRUE

\* The advisory lock of the administrators' changes.
AdminLockFree == \A q \in Requests : ~ Is(q, "ADMIN", "row")

\* get_valid_session, whose user the request keeps.
Valid(s) == ~ sessions[s].ended /\ users[sessions[s].user].status = "ACTIVE"

Abandon(q) ==
    /\ requests[q] # Idle
    /\ End(q)
    /\ UNCHANGED <<users, sessions, renewed>>

\* session_lifetime_seconds pass.
Expire(s) ==
    /\ ~ sessions[s].ended
    /\ sessions' = [sessions EXCEPT ![s].ended = TRUE]
    /\ UNCHANGED <<users, requests, renewed>>

-------------------------------------------------------------------------------
(* Signing in and out; SignIn has the limits on wrong passwords.           *)

LoginBegin(q) ==
    /\ \E u \in Users : Start(q, [op |-> "LOGIN", user |-> u, phase |-> "begun"])
    /\ UNCHANGED <<users, sessions, renewed>>

\* The right password of an active account, under the lock of its row. Which
\* password was sent is settled here: any other ends in Abandon.
LoginVerify(q) ==
    /\ Is(q, "LOGIN", "begun")
    /\ RowFree(requests[q].user)
    /\ users[requests[q].user].status = "ACTIVE"
    /\ requests' = [requests EXCEPT ![q].phase = "row"]
    /\ UNCHANGED <<users, sessions, renewed>>

\* create_session and the commit; the row of the account is held until here.
LoginCommit(q) ==
    /\ Is(q, "LOGIN", "row")
    /\ Len(sessions) < MaxSessions
    /\ sessions' = Append(sessions, [user |-> requests[q].user, ended |-> FALSE])
    /\ End(q)
    /\ UNCHANGED <<users, renewed>>

Logout(s) ==
    /\ Valid(s)
    /\ sessions' = [sessions EXCEPT ![s].ended = TRUE]
    /\ UNCHANGED <<users, requests, renewed>>

-------------------------------------------------------------------------------
(* An account's own changes: they wait for the row and go by what they     *)
(* read at their start.                                                    *)

\* If-Match is compared with the revision the request read at its start: it
\* names that one, or the answer is 412.
ProfileBegin(q, s) ==
    /\ Valid(s)
    /\ LET u == sessions[s].user
       IN Start(q, [op |-> "PROFILE", user |-> u, seen |-> users[u].revision, phase |-> "begun"])
    /\ UNCHANGED <<users, sessions, renewed>>

UpdateMe(q) ==
    /\ Is(q, "PROFILE", "begun")
    /\ requests[q].seen < MaxRevision
    /\ LET u == requests[q].user
       IN /\ RowFree(u)
          /\ users' = [users EXCEPT ![u].revision = requests[q].seen + 1]
    /\ End(q)
    /\ UNCHANGED <<sessions, renewed>>

\* The current password, too, is compared with the one read at the start.
PasswordBegin(q, s) ==
    /\ Valid(s)
    /\ LET u == sessions[s].user
       IN \E p \in Passwords \ {users[u].password} :
             Start(q, [op |-> "PASSWORD", user |-> u, session |-> s,
                       seen |-> users[u].revision, password |-> p, phase |-> "begun"])
    /\ UNCHANGED <<users, sessions, renewed>>

\* Mutant: only the session that asks is ended.
OnlyItself(q) == {requests[q].session}

OthersOf(q) ==
    {s \in DOMAIN sessions : /\ sessions[s].user = requests[q].user
                             /\ s # requests[q].session
                             /\ ~ sessions[s].ended}

ChangePassword(q) ==
    /\ Is(q, "PASSWORD", "begun")
    /\ requests[q].seen < MaxRevision
    /\ LET u == requests[q].user
       IN /\ RowFree(u)
          /\ users' = [users EXCEPT ![u].password = requests[q].password,
                                    ![u].revision = requests[q].seen + 1]
          /\ renewed' = [renewed EXCEPT ![u] = [by |-> requests[q].session,
                                                found |-> DOMAIN sessions]]
    /\ sessions' = [s \in DOMAIN sessions |->
                       IF s \in OthersOf(q) THEN [sessions[s] EXCEPT !.ended = TRUE]
                       ELSE sessions[s]]
    /\ End(q)

-------------------------------------------------------------------------------
(* Administrators.                                                         *)

AsAdmin(s) == Valid(s) /\ users[sessions[s].user].admin

\* The advisory lock, one look at the e-mail, the insert.
CreateUser(s) ==
    /\ AsAdmin(s)
    /\ AdminLockFree
    /\ \E u \in Users, p \in Passwords, admin \in BOOLEAN :
          /\ users[u].status = "NONE"
          /\ users' = [users EXCEPT ![u] = NewAccount("ACTIVE", admin, p)]
    /\ UNCHANGED <<sessions, requests, renewed>>

\* require_roles looks at the actor here, before any lock, and not again.
UpdateBegin(q, s) ==
    /\ AsAdmin(s)
    /\ \E u \in Users, admin \in BOOLEAN, status \in {"ACTIVE", "LOCKED"} :
          /\ users[u].status # "NONE"
          /\ Start(q, [op |-> "ADMIN", actor |-> sessions[s].user, user |-> u,
                       seen |-> users[u].revision, admin |-> admin, status |-> status,
                       phase |-> "begun"])
    /\ UNCHANGED <<users, sessions, renewed>>

ActiveAdmins == {u \in Users : users[u].admin /\ users[u].status = "ACTIVE"}

\* The last active administrator stays one.
Keeps(q) ==
    LET u == requests[q].user
    IN (u \in ActiveAdmins /\ ~ (requests[q].admin /\ requests[q].status = "ACTIVE"))
       => ActiveAdmins \ {u} # {}

UpdateCheck(q) ==
    /\ Is(q, "ADMIN", "begun")
    /\ AdminLockFree
    /\ LET u == requests[q].user
       IN /\ RowFree(u)
          /\ users[u].revision = requests[q].seen
          /\ u = requests[q].actor => requests[q].admin /\ requests[q].status = "ACTIVE"
          /\ <<users[u].admin, users[u].status>> # <<requests[q].admin, requests[q].status>>
    /\ Keeps(q)
    /\ requests' = [requests EXCEPT ![q].phase = "row"]
    /\ UNCHANGED <<users, sessions, renewed>>

UpdateCommit(q) ==
    /\ Is(q, "ADMIN", "row")
    /\ requests[q].seen < MaxRevision
    /\ users' = [users EXCEPT ![requests[q].user] =
                    [@ EXCEPT !.admin = requests[q].admin, !.status = requests[q].status,
                              !.revision = requests[q].seen + 1]]
    /\ End(q)
    /\ UNCHANGED <<sessions, renewed>>

-------------------------------------------------------------------------------

BeginBySession(q, s) ==
    \/ ProfileBegin(q, s)
    \/ PasswordBegin(q, s)
    \/ UpdateBegin(q, s)

AccountsNext ==
    \/ \E s \in DOMAIN sessions : Logout(s) \/ Expire(s) \/ CreateUser(s)
    \/ \E q \in Requests, s \in DOMAIN sessions : BeginBySession(q, s)
    \/ \E q \in Requests :
          \/ LoginBegin(q) \/ LoginVerify(q) \/ LoginCommit(q)
          \/ UpdateMe(q) \/ ChangePassword(q)
          \/ UpdateCheck(q) \/ UpdateCommit(q)
          \/ Abandon(q)

AccountsSpec == AccountsInit /\ [][AccountsNext]_accountVars

-------------------------------------------------------------------------------
(* Properties.                                                             *)

\* Whatever administrators do to each other at once, an active one remains
\* (operations.py:399).
ActiveAdminRemains == ActiveAdmins # {}

\* The sessions a change of password found are over, but for the one that asked
\* for it: no sign-in with the old password slips in between the change and the
\* revocation (auth.py:258).
OldSessionsEnd ==
    \A s \in DOMAIN sessions :
        (s \in renewed[sessions[s].user].found /\ Valid(s)) => s = renewed[sessions[s].user].by

\* A session is handed out only for an account that is active at that moment: a
\* lock by an administrator does not overtake a sign-in that has checked the
\* password (auth.py:163).
NoSessionForLockedAccount ==
    [][\A s \in DOMAIN sessions' :
          s \notin DOMAIN sessions => users[sessions'[s].user].status = "ACTIVE"]_accountVars

\* A change of the profile gives the row a revision it did not have: If-Match with
\* a stale revision is refused (auth.py:210).
ProfileChangesAreNotLost ==
    [][\A q \in Requests : UpdateMe(q) =>
          users'[requests[q].user].revision > users[requests[q].user].revision]_accountVars

\* Sessions follow their account: none outlives the password it was opened with,
\* none is opened for an account that is locked (auth.py:258, auth.py:163).
SessionsFollowTheAccount == []OldSessionsEnd /\ NoSessionForLockedAccount
===============================================================================
