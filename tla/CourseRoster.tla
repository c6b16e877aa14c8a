----------------------------- MODULE CourseRoster -----------------------------
(***************************************************************************)
(* One course: its life, its roster, its join codes and the roles of the   *)
(* accounts behind it (services/course.py, services/course_join.py,        *)
(* update_user of services/operations.py, the role triggers of migration   *)
(* 0002). The limit on join attempts is in JoinLimit.                      *)
(*                                                                         *)
(* Every change of a course locks its row and looks at it again, so a      *)
(* change that needs no other lock is one action. Operations that take     *)
(* several locks are requests: transactions that take one after the other, *)
(* keep them to their end, and wait for those that others hold. A refusal  *)
(* is the end of a request, as Rollback.                                   *)
(***************************************************************************)
EXTENDS Integers, Sequences

CONSTANTS
    Users,     \* e-mail addresses, with or without an account
    Enrolled,  \* those that are enrolled and administered; the others only teach
    Addresses, \* the network addresses people join from
    Requests,  \* transactions that overlap
    MaxCodes,  \* bound on the join codes ever made
    Idle       \* no transaction

ASSUME RosterAssumption == MaxCodes \in Nat /\ Enrolled \subseteq Users

VARIABLES
    course,      \* Course.status; "NONE" is no row
    owner,       \* Course.owner_teacher_id
    roles,       \* User.roles; {} is no account
    membership,  \* Membership.status of the STUDENT memberships
    invites,     \* CourseInvite.email
    codes,       \* CourseJoinCode rows, oldest first
    records,     \* what else refers to the course
    requests,    \* the transactions in progress
    holds        \* the locks each of them has taken

rosterVars == <<membership, invites>>
courseVars == <<course, owner, rosterVars, codes, records>>
requestVars == <<requests, holds>>
allVars == <<courseVars, roles, requestVars>>

Roles == {"TEACHER", "STUDENT"}
Code == {"LIVE", "EXPIRED", "REVOKED"}

\* Locks last to the end of a transaction: the row of the course, alone or shared;
\* the row of a user; and advisory locks, 'user:<id>', 'rubric:<id>', the join limits
\* of an account and of an address, changes of join codes, changes of accounts.
Course == <<"course", "">>
Share == <<"share", "">>
Row(u) == <<"row", u>>
Key(u) == <<"key", u>>
Rubric == <<"rubric", "">>
Account(u) == <<"account", u>>
Address(a) == <<"address", a>>
Codes == <<"codes", "">>
Admin == <<"admin", "">>

Lock ==
    {Course, Share, Rubric, Codes, Admin}
    \union {Row(u) : u \in Users} \union {Key(u) : u \in Users}
    \union {Account(u) : u \in Users} \union {Address(a) : a \in Addresses}

\* The phase is the statement reached. "invite" found no account.
RosterRequest ==
    [op : {"ADD"}, user : Users, phase : {"begun", "course", "row", "key", "invite"}]
    \union [op : {"JOIN"}, user : Users, code : 1..MaxCodes, from : Addresses,
            phase : {"account", "address", "course", "key"}]
    \union [op : {"ROLES"}, user : Users, roles : SUBSET Roles, phase : {"begun", "row", "key"}]
    \union [op : {"CREATE"}, user : Users, phase : {"begun", "key"}]
    \union [op : {"ASSIGN"}, phase : {"begun", "rubric"}]
    \union [op : {"CODE"}, phase : {"begun"}]

RosterTypeOK ==
    /\ course \in {"NONE", "ACTIVE", "ARCHIVED"}
    /\ owner \in Users
    /\ roles \in [Users -> SUBSET Roles]
    /\ membership \in [Users -> {"NONE", "ACTIVE", "REMOVED"}]
    /\ invites \subseteq Users
    /\ codes \in Seq(Code) /\ Len(codes) <= MaxCodes
    /\ records \subseteq {"announcement", "assignment"}
    /\ holds \in [Requests -> SUBSET Lock]

RosterInit ==
    /\ course = "NONE"
    /\ owner \in Users
    /\ roles = [u \in Users |-> IF u \in Enrolled THEN {} ELSE {"TEACHER"}]
    /\ membership = [u \in Users |-> "NONE"]
    /\ invites = {}
    /\ codes = <<>>
    /\ records = {}
    /\ requests = [q \in Requests |-> Idle]
    /\ holds = [q \in Requests |-> {}]

-------------------------------------------------------------------------------
(* Transactions and their locks.                                           *)

Is(q, op, phase) ==
    /\ requests[q] # Idle
    /\ requests[q].op = op
    /\ requests[q].phase = phase

Start(q, request, locks) ==
    /\ requests[q] = Idle
    /\ requests' = [requests EXCEPT ![q] = request]
    /\ holds' = [holds EXCEPT ![q] = locks]

Advance(q, phase, locks) ==
    /\ requests' = [requests EXCEPT ![q].phase = phase]
    /\ holds' = [holds EXCEPT ![q] = @ \union locks]

End(q) ==
    /\ requests' = [requests EXCEPT ![q] = Idle]
    /\ holds' = [holds EXCEPT ![q] = {}]

Free(lock) == \A q \in Requests : lock \notin holds[q]

\* What the next statement of q waits for. A foreign key takes a share of the row it
\* names; shares of the course go together.
WantsAddress(q) == Is(q, "JOIN", "account")

WantsRubric(q) == Is(q, "ASSIGN", "begun")

WantsCourse(q) == Is(q, "ADD", "begun") \/ Is(q, "JOIN", "address") \/ Is(q, "CODE", "begun")

WantsShare(q) == Is(q, "ASSIGN", "rubric") \/ Is(q, "FILE", "begun") \/ Is(q, "ANSWER", "begun")

WantsRow(q) ==
    \/ Is(q, "ADD", "course") \/ Is(q, "ROLES", "begun")
    \/ Is(q, "JOIN", "key") \/ Is(q, "CREATE", "key")

\* Only a new membership runs the trigger that takes the key.
WantsKey(q) ==
    \/ Is(q, "ADD", "row") /\ membership[requests[q].user] = "NONE"
    \/ Is(q, "JOIN", "course") /\ membership[requests[q].user] = "NONE"
    \/ Is(q, "ROLES", "row") \/ Is(q, "CREATE", "begun")

Wants(q, lock) ==
    \/ WantsAddress(q) /\ lock = Address(requests[q].from)
    \/ WantsRubric(q) /\ lock = Rubric
    \/ WantsCourse(q) /\ lock \in {Course, Share}
    \/ WantsShare(q) /\ lock = Course
    \/ WantsRow(q) /\ lock = Row(requests[q].user)
    \/ WantsKey(q) /\ lock = Key(requests[q].user)

WaitsFor(q, p) == p # q /\ \E lock \in holds[p] : Wants(q, lock)

Unblocked(q) == \A p \in Requests : ~ WaitsFor(q, p)

\* _lock_active_course: nobody has the row, and the course is still ACTIVE.
LockActiveCourse == Free(Course) /\ Free(Share) /\ course = "ACTIVE"

\* An error, a refusal or a lost connection.
Rollback(q) ==
    /\ requests[q] # Idle
    /\ End(q)
    /\ UNCHANGED <<courseVars, roles>>

\* PostgreSQL aborts one of two transactions that wait for each other.
Victim(q) ==
    /\ \E p \in Requests : WaitsFor(p, q) /\ WaitsFor(q, p)
    /\ Rollback(q)

-------------------------------------------------------------------------------
(* The course and what a lock on it is enough for.                         *)

\* create_course: fn_validate_course_owner takes the owner's key and looks for
\* TEACHER; the foreign key then waits for the owner's row.
CreateCourse(q, u) ==
    /\ course = "NONE"
    /\ "TEACHER" \in roles[u]
    /\ Start(q, [op |-> "CREATE", user |-> u, phase |-> "begun"], {})
    /\ UNCHANGED <<courseVars, roles>>

InsertCourse(q) ==
    LET u == requests[q].user IN
    /\ Is(q, "CREATE", "key") /\ Unblocked(q)
    /\ course = "NONE" /\ "TEACHER" \in roles[u]
    /\ course' = "ACTIVE"
    /\ owner' = u
    /\ End(q)
    /\ UNCHANGED <<rosterVars, codes, records, roles>>

Archive ==
    /\ LockActiveCourse
    /\ course' = "ARCHIVED"
    /\ UNCHANGED <<owner, rosterVars, codes, records, roles, requestVars>>

\* Mutant: memberships are not looked at, and disappear by ON DELETE CASCADE.
DeleteWithMembers ==
    /\ LockActiveCourse
    /\ invites = {} /\ codes = <<>> /\ records = {}
    /\ course' = "NONE"
    /\ membership' = [u \in Users |-> "NONE"]
    /\ UNCHANGED <<owner, invites, codes, records, roles, requestVars>>

\* delete_course: of a course without dependents only.
Delete ==
    /\ LockActiveCourse
    /\ \A u \in Users : membership[u] = "NONE"
    /\ invites = {} /\ codes = <<>> /\ records = {}
    /\ course' = "NONE"
    /\ UNCHANGED <<owner, rosterVars, codes, records, roles, requestVars>>

\* create_announcement, delete_announcement; an update changes only the text.
Announce ==
    /\ LockActiveCourse
    /\ \/ records' = records \union {"announcement"}
       \/ "announcement" \in records /\ records' = records \ {"announcement"}
    /\ UNCHANGED <<course, owner, rosterVars, codes, roles, requestVars>>

\* create_assignment looks at the course without a lock; the insert takes the key of
\* its rubric, and its foreign key then waits for an exclusive lock on the course and
\* only asks that the row exists.
LoadForAssignment(q) ==
    /\ course = "ACTIVE"
    /\ Start(q, [op |-> "ASSIGN", phase |-> "begun"], {})
    /\ UNCHANGED <<courseVars, roles>>

LockRubric(q) ==
    /\ Is(q, "ASSIGN", "begun") /\ Unblocked(q)
    /\ Advance(q, "rubric", {Rubric})
    /\ UNCHANGED <<courseVars, roles>>

InsertAssignment(q) ==
    /\ Is(q, "ASSIGN", "rubric") /\ Unblocked(q)
    /\ records' = IF course = "NONE" THEN records ELSE records \union {"assignment"}
    /\ End(q)
    /\ UNCHANGED <<course, owner, rosterVars, codes, roles>>

RemoveMember(u) ==
    /\ LockActiveCourse
    /\ membership[u] = "ACTIVE"
    /\ membership' = [membership EXCEPT ![u] = "REMOVED"]
    /\ UNCHANGED <<course, owner, invites, codes, records, roles, requestVars>>

-------------------------------------------------------------------------------
(* Join codes.                                                             *)

Current == IF codes # <<>> /\ codes[Len(codes)] # "REVOKED" THEN {Len(codes)} ELSE {}

Revoked == [i \in DOMAIN codes |-> IF i \in Current THEN "REVOKED" ELSE codes[i]]

\* The lock on changes of codes comes first; who waits for it has no other.
BeginCode(q) ==
    /\ Free(Codes)
    /\ Start(q, [op |-> "CODE", phase |-> "begun"], {Codes})
    /\ UNCHANGED <<courseVars, roles>>

\* create_join_code refuses beside a code that is not revoked, expired or not;
\* regenerate_join_code revokes it.
CreateCode(q) ==
    /\ Is(q, "CODE", "begun") /\ LockActiveCourse
    /\ Len(codes) < MaxCodes
    /\ \/ Current = {} /\ codes' = Append(codes, "LIVE")
       \/ codes' = Append(Revoked, "LIVE")
    /\ End(q)
    /\ UNCHANGED <<course, owner, rosterVars, records, roles>>

UpdateCode(q) ==
    /\ Is(q, "CODE", "begun") /\ LockActiveCourse
    /\ Current # {}
    /\ codes' = [codes EXCEPT ![Len(codes)] = "LIVE"]
    /\ End(q)
    /\ UNCHANGED <<course, owner, rosterVars, records, roles>>

\* Mutant: the code is revoked without the lock of its course.
RevokeUnlocked(q) ==
    /\ Is(q, "CODE", "begun") /\ course = "ACTIVE"
    /\ Current # {}
    /\ codes' = Revoked
    /\ End(q)
    /\ UNCHANGED <<course, owner, rosterVars, records, roles>>

RevokeCode(q) ==
    /\ Is(q, "CODE", "begun") /\ LockActiveCourse
    /\ Current # {}
    /\ codes' = Revoked
    /\ End(q)
    /\ UNCHANGED <<course, owner, rosterVars, records, roles>>

\* expires_at passes.
ExpireCode ==
    /\ \E i \in Current :
          codes[i] = "LIVE" /\ codes' = [codes EXCEPT ![i] = "EXPIRED"]
    /\ UNCHANGED <<course, owner, rosterVars, records, roles, requestVars>>

-------------------------------------------------------------------------------
(* Accounts: create_user and update_user, one at a time by their advisory  *)
(* lock.                                                                   *)

CreateUser(u) ==
    /\ Free(Admin)
    /\ roles[u] = {}
    /\ \E r \in SUBSET Roles \ {{}} : roles' = [roles EXCEPT ![u] = r]
    /\ UNCHANGED <<courseVars, requestVars>>

BeginRoles(q, u, r) ==
    /\ roles[u] \notin {{}, r} /\ r # {}
    /\ Free(Admin)
    /\ Start(q, [op |-> "ROLES", user |-> u, roles |-> r, phase |-> "begun"], {Admin})
    /\ UNCHANGED <<courseVars, roles>>

\* fn_prevent_role_removal
RolesInUse(u) ==
    (IF course # "NONE" /\ owner = u THEN {"TEACHER"} ELSE {})
    \union (IF membership[u] # "NONE" THEN {"STUDENT"} ELSE {})

ChangeRoles(q) ==
    LET u == requests[q].user IN
    /\ Is(q, "ROLES", "key")
    /\ RolesInUse(u) \subseteq requests[q].roles
    /\ roles' = [roles EXCEPT ![u] = requests[q].roles]
    /\ End(q)
    /\ UNCHANGED courseVars

-------------------------------------------------------------------------------
(* The roster: add_member and join_course.                                 *)

\* Mutant: add_member looks up the account, FOR UPDATE, before it locks the course.
BeginAddWithRow(q, u) ==
    /\ course = "ACTIVE" /\ roles[u] # {} /\ Free(Row(u))
    /\ Start(q, [op |-> "ADD", user |-> u, phase |-> "begun"], {Row(u)})
    /\ UNCHANGED <<courseVars, roles>>

BeginAdd(q, u) ==
    /\ course = "ACTIVE"
    /\ Start(q, [op |-> "ADD", user |-> u, phase |-> "begun"], {})
    /\ UNCHANGED <<courseVars, roles>>

\* The caller's role is read before any lock. The join limits come first, of the
\* account and then of the address; who waits for that of the account has no other.
BeginJoin(q, u, c, a) ==
    /\ "STUDENT" \in roles[u]
    /\ c \in DOMAIN codes
    /\ Free(Account(u))
    /\ Start(q, [op |-> "JOIN", user |-> u, code |-> c, from |-> a, phase |-> "account"],
             {Account(u)})
    /\ UNCHANGED <<courseVars, roles>>

LockAddress(q) ==
    /\ Is(q, "JOIN", "account") /\ Unblocked(q)
    /\ Advance(q, "address", {Address(requests[q].from)})
    /\ UNCHANGED <<courseVars, roles>>

\* Mutant: what was read before the wait for the lock is not looked at again.
LockCourseUnchecked(q) ==
    /\ Is(q, "ADD", "begun") \/ Is(q, "JOIN", "address")
    /\ Unblocked(q)
    /\ Advance(q, "course", {Course})
    /\ UNCHANGED <<courseVars, roles>>

LockCourse(q) ==
    /\ \/ Is(q, "ADD", "begun")
       \/ Is(q, "JOIN", "address") /\ codes[requests[q].code] = "LIVE"
    /\ LockActiveCourse
    /\ Advance(q, "course", {Course})
    /\ UNCHANGED <<courseVars, roles>>

\* The row of the user, FOR UPDATE: add_member after the course, update_user
\* after its advisory lock. An address without an account has no row.
LockRow(q) ==
    /\ Is(q, "ADD", "course") \/ Is(q, "ROLES", "begun")
    /\ Unblocked(q)
    /\ IF roles[requests[q].user] = {} THEN Advance(q, "invite", {})
       ELSE Advance(q, "row", {Row(requests[q].user)})
    /\ UNCHANGED <<courseVars, roles>>

\* fn_domain_lock('user'), in the trigger of the statement that writes.
LockKey(q) ==
    /\ WantsKey(q) /\ Unblocked(q)
    /\ Advance(q, "key", {Key(requests[q].user)})
    /\ UNCHANGED <<courseVars, roles>>

Invite(q) ==
    /\ Is(q, "ADD", "invite")
    /\ invites' = invites \union {requests[q].user}
    /\ End(q)
    /\ UNCHANGED <<course, owner, membership, codes, records, roles>>

\* A new membership asks for the role again, under the key
\* (fn_validate_membership_role); one that was REMOVED is only switched on.
MayEnter(q, u, waiting) ==
    \/ requests[q].phase = waiting /\ membership[u] = "REMOVED"
    \/ requests[q].phase = "key" /\ "STUDENT" \in roles[u]

AddMember(q) ==
    LET u == requests[q].user IN
    /\ requests[q] # Idle /\ requests[q].op = "ADD"
    /\ MayEnter(q, u, "row") /\ "STUDENT" \in roles[u]
    /\ membership' = [membership EXCEPT ![u] = "ACTIVE"]
    /\ invites' = invites \ {u}
    /\ End(q)
    /\ UNCHANGED <<course, owner, codes, records, roles>>

\* Mutant: the trigger looks at the roles without the user's key.
JoinUnlocked(q) ==
    LET u == requests[q].user IN
    /\ requests[q] # Idle /\ requests[q].op = "JOIN"
    /\ requests[q].phase \in {"course", "key"} /\ membership[u] # "ACTIVE"
    /\ membership' = [membership EXCEPT ![u] = "ACTIVE"]
    /\ End(q)
    /\ UNCHANGED <<course, owner, invites, codes, records, roles>>

\* The foreign key of a new membership waits for the user's row.
Join(q) ==
    LET u == requests[q].user IN
    /\ requests[q] # Idle /\ requests[q].op = "JOIN"
    /\ MayEnter(q, u, "course") /\ Unblocked(q)
    /\ membership' = [membership EXCEPT ![u] = "ACTIVE"]
    /\ End(q)
    /\ UNCHANGED <<course, owner, invites, codes, records, roles>>

-------------------------------------------------------------------------------

RosterProgress(q) ==
    \/ InsertCourse(q) \/ InsertAssignment(q) \/ ChangeRoles(q)
    \/ CreateCode(q) \/ UpdateCode(q) \/ RevokeCode(q)
    \/ LockAddress(q) \/ LockRubric(q) \/ LockCourse(q) \/ LockRow(q) \/ LockKey(q)
    \/ Invite(q) \/ AddMember(q) \/ Join(q)

Begin(q) ==
    \/ LoadForAssignment(q) \/ BeginCode(q)
    \/ \E u \in Users : CreateCourse(q, u)
    \/ \E u \in Enrolled :
          \/ BeginAdd(q, u)
          \/ \E r \in SUBSET Roles : BeginRoles(q, u, r)
          \/ \E c \in 1..MaxCodes, a \in Addresses : BeginJoin(q, u, c, a)

RosterNext ==
    \/ Archive \/ Delete \/ Announce \/ ExpireCode
    \/ \E u \in Enrolled : RemoveMember(u) \/ CreateUser(u)
    \/ \E q \in Requests : Begin(q) \/ RosterProgress(q) \/ Rollback(q) \/ Victim(q)

RosterSpec == RosterInit /\ [][RosterNext]_allVars
===============================================================================
