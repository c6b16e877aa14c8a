----------------------------- MODULE CourseProofs -----------------------------
(***************************************************************************)
(* Proofs about ReviewRequests and the course below it. Whoever has the    *)
(* row of the course, alone or shared, found it active under that lock,    *)
(* and nothing that ends the course, a code or a membership goes on beside *)
(* it; so what a transaction checked under the lock holds when it writes.  *)
(* Which locks a transaction has is told by the statements it has passed,  *)
(* and that gives the order in which they may wait for each other.         *)
(***************************************************************************)
EXTENDS ReviewRequests, TLAPS

Transaction == RosterRequest \union AskRequest

Rows ==
    /\ requests \in [Requests -> Transaction \union {Idle}]
    /\ roles \in [Users -> SUBSET Roles]
    /\ owner \in Users
    /\ membership \in [Users -> {"NONE", "ACTIVE", "REMOVED"}]
    /\ codes \in Seq(Code) /\ Len(codes) <= MaxCodes
    /\ result \in 0..MaxResults
    /\ asks \in Seq(Ask) /\ Len(asks) <= MaxAsks
    /\ holds \in [Requests -> SUBSET Lock]

In(q, ops, phases) ==
    requests[q] # Idle /\ requests[q].op \in ops /\ requests[q].phase \in phases

HasCourseAlone(q) == In(q, {"ADD", "JOIN"}, {"course", "row", "key", "invite"})

SharesTheCourse(q) == In(q, {"FILE", "ANSWER"}, {"shared"})

HasCourse(q) == HasCourseAlone(q) \/ SharesTheCourse(q)

\* Which statements come after the one that takes a lock.
TookItsLocks(q) ==
    /\ Course \in holds[q] <=> HasCourseAlone(q)
    /\ Share \in holds[q] <=> SharesTheCourse(q)
    /\ \A u \in Users :
          /\ Row(u) \in holds[q] => In(q, {"ADD", "ROLES"}, {"row", "key"})
          /\ Key(u) \in holds[q] => In(q, {"ADD", "JOIN", "ROLES", "CREATE"}, {"key"})
    /\ \A a \in Addresses :
          Address(a) \in holds[q] => In(q, {"JOIN"}, {"address", "course", "key"})
    /\ Rubric \in holds[q] => In(q, {"ASSIGN"}, {"rubric"})

\* What a transaction found under the lock of the course, and still finds.
FoundLasts(q) ==
    /\ HasCourse(q) => course = "ACTIVE"
    /\ requests[q] # Idle /\ requests[q].op = "JOIN" =>
          /\ requests[q].code \in DOMAIN codes
          /\ requests[q].phase \in {"course", "key"} => codes[requests[q].code] # "REVOKED"
    /\ Is(q, "FILE", "shared") => membership[Student] = "ACTIVE"
    /\ requests[q] # Idle /\ requests[q].op = "ROLES" =>
          roles[requests[q].user] # {} /\ requests[q].roles # {}

NoneIsEmpty == course = "NONE" => records = {} /\ \A u \in Users : membership[u] = "NONE"

CourseInv ==
    /\ Rows
    /\ \A q \in Requests : FoundLasts(q) /\ TookItsLocks(q)
    /\ RolesBackTheCourse
    /\ NoneIsEmpty
    /\ OneOpenRequest

-------------------------------------------------------------------------------
(* Transactions.                                                           *)

LEMMA RequestFields ==
    ASSUME Rows, NEW q \in Requests, requests[q] # Idle
    PROVE  /\ requests[q] \in Transaction
           /\ requests[q].op \in {"ADD", "JOIN", "ROLES", "CREATE"} => requests[q].user \in Users
           /\ requests[q].op = "ROLES" => requests[q].roles \in SUBSET Roles
           /\ requests[q].op \in {"FILE", "ANSWER"} => requests[q].phase \in {"begun", "shared"}
           /\ requests[q].op = "FILE" => requests[q].result \in 1..MaxResults
           /\ requests[q].op = "JOIN" =>
                 /\ requests[q].phase \in {"account", "address", "course", "key"}
                 /\ requests[q].from \in Addresses
           /\ requests[q].op = "ADD" =>
                 requests[q].phase \in {"begun", "course", "row", "key", "invite"}
<1>1. requests[q] \in Transaction
  BY DEF Rows
<1> QED
  BY <1>1 DEF Transaction, RosterRequest, AskRequest

LEMMA EndFacts ==
    ASSUME Rows, NEW q \in Requests, End(q)
    PROVE  /\ requests' \in [Requests -> Transaction \union {Idle}]
           /\ holds' \in [Requests -> SUBSET Lock]
           /\ requests'[q] = Idle /\ holds'[q] = {}
           /\ \A p \in Requests \ {q} : requests'[p] = requests[p] /\ holds'[p] = holds[p]
BY DEF End, Rows

LEMMA StartFacts ==
    ASSUME Rows, NEW q \in Requests, NEW t \in Transaction, NEW locks \in SUBSET Lock,
           Start(q, t, locks)
    PROVE  /\ requests' \in [Requests -> Transaction \union {Idle}]
           /\ holds' \in [Requests -> SUBSET Lock]
           /\ requests'[q] = t /\ holds'[q] = locks
           /\ \A p \in Requests \ {q} : requests'[p] = requests[p] /\ holds'[p] = holds[p]
BY DEF Start, Rows

\* A transaction that takes its next lock carries what it did.
LEMMA AdvanceFacts ==
    ASSUME Rows, NEW q \in Requests, requests[q] # Idle,
           NEW phase \in {"address", "rubric", "course", "row", "key", "invite", "shared"},
           NEW locks \in SUBSET Lock, Advance(q, phase, locks),
           phase = "address" => requests[q].op = "JOIN",
           phase = "rubric" => requests[q].op = "ASSIGN",
           phase = "shared" => requests[q].op \in {"FILE", "ANSWER"},
           phase = "course" => requests[q].op \in {"ADD", "JOIN"},
           phase = "key" => requests[q].op \in {"ADD", "JOIN", "ROLES", "CREATE"},
           phase = "row" => requests[q].op \in {"ADD", "ROLES"},
           phase = "invite" => requests[q].op = "ADD"
    PROVE  /\ requests' \in [Requests -> Transaction \union {Idle}]
           /\ holds' \in [Requests -> SUBSET Lock]
           /\ requests'[q] # Idle
           /\ requests'[q].phase = phase /\ requests'[q].op = requests[q].op
           /\ requests[q].op = "JOIN" => requests'[q].code = requests[q].code
           /\ requests[q].op = "ROLES" => /\ requests'[q].user = requests[q].user
                                          /\ requests'[q].roles = requests[q].roles
           /\ holds'[q] = holds[q] \union locks
           /\ \A p \in Requests \ {q} : requests'[p] = requests[p] /\ holds'[p] = holds[p]
<1>1. requests[q] \in Transaction
  BY RequestFields
<1>2. /\ requests'[q] = [requests[q] EXCEPT !.phase = phase]
      /\ \A p \in Requests \ {q} : requests'[p] = requests[p] /\ holds'[p] = holds[p]
      /\ holds' \in [Requests -> SUBSET Lock]
      /\ holds'[q] = holds[q] \union locks
  BY DEF Advance, Rows
<1>3. /\ requests'[q] \in Transaction
      /\ requests'[q].phase = phase /\ requests'[q].op = requests[q].op
      /\ requests[q].op = "JOIN" => requests'[q].code = requests[q].code
      /\ requests[q].op = "ROLES" => /\ requests'[q].user = requests[q].user
                                     /\ requests'[q].roles = requests[q].roles
  BY <1>1, <1>2 DEF Transaction, RosterRequest, AskRequest
<1>4. requests' \in [Requests -> Transaction \union {Idle}]
  BY <1>2, <1>3 DEF Advance, Rows
<1>5. requests'[q] # Idle
  BY <1>3, IdleAssumption DEF Transaction
<1> QED
  BY <1>2, <1>3, <1>4, <1>5

\* The locks are told apart by their names, so one more says nothing of the others.
LEMMA LocksDiffer ==
    /\ Course # Share /\ Rubric \notin {Course, Share}
    /\ \A u \in Users : /\ {Row(u), Key(u)} \cap {Course, Share, Rubric} = {}
                       /\ \A v \in Users : Row(u) # Key(v)
    /\ \A a \in Addresses : /\ Address(a) \notin {Course, Share, Rubric}
                           /\ \A u \in Users : Address(a) \notin {Row(u), Key(u)}
BY DEF Course, Share, Row, Key, Rubric, Address

\* What a transaction found is disturbed by no other one, unless the course, a code
\* or the membership is.
LEMMA OthersFound ==
    ASSUME NEW p \in Requests, FoundLasts(p), requests'[p] = requests[p],
           course' \in {course, "ACTIVE"},
           \A c \in DOMAIN codes : /\ c \in DOMAIN codes'
                                   /\ codes[c] # "REVOKED" => codes'[c] # "REVOKED",
           membership[Student] = "ACTIVE" => membership'[Student] = "ACTIVE",
           requests[p] # Idle /\ requests[p].op = "ROLES" =>
               (roles[requests[p].user] # {} => roles'[requests[p].user] # {})
    PROVE  FoundLasts(p)'
BY DEF FoundLasts, HasCourse, HasCourseAlone, SharesTheCourse, In, Is

\* Nor when nobody has the course, as for every change that locks it.
LEMMA NobodyFound ==
    ASSUME NEW p \in Requests, FoundLasts(p), requests'[p] = requests[p],
           ~ HasCourse(p), Rows, UNCHANGED roles,
           \A c \in DOMAIN codes : c \in DOMAIN codes'
    PROVE  FoundLasts(p)'
<1>1. CASE requests[p] = Idle
  BY <1>1 DEF FoundLasts, HasCourse, HasCourseAlone, SharesTheCourse, In, Is
<1>2. CASE requests[p] # Idle
  BY <1>2, RequestFields DEF FoundLasts, HasCourse, HasCourseAlone, SharesTheCourse, In, Is
<1> QED
  BY <1>1, <1>2

\* The locks of a transaction are its own business.
LEMMA OthersKeepLocks ==
    ASSUME NEW p \in Requests, TookItsLocks(p), requests'[p] = requests[p], holds'[p] = holds[p]
    PROVE  TookItsLocks(p)'
BY DEF TookItsLocks, HasCourseAlone, SharesTheCourse, In

LEMMA EndedHasNone ==
    ASSUME NEW p \in Requests, requests'[p] = Idle, holds'[p] = {}
    PROVE  FoundLasts(p)' /\ TookItsLocks(p)'
BY DEF FoundLasts, HasCourse, TookItsLocks, HasCourseAlone, SharesTheCourse, In, Is

LEMMA FreeOfTheCourse ==
    ASSUME CourseInv, LockActiveCourse, NEW p \in Requests
    PROVE  course = "ACTIVE" /\ ~ HasCourse(p)
BY DEF CourseInv, TookItsLocks, HasCourse, LockActiveCourse, Free

-------------------------------------------------------------------------------
(* Changes of the course and its codes, under the lock of the course.      *)

CodeChange(q) == CreateCode(q) \/ UpdateCode(q) \/ RevokeCode(q)

LockedChange ==
    \/ Archive \/ Delete \/ Announce
    \/ \E u \in Enrolled : RemoveMember(u)
    \/ \E q \in Requests : CodeChange(q)

LEMMA CurrentIsACode ==
    ASSUME Rows
    PROVE  Current \subseteq DOMAIN codes /\ (Current # {} => Len(codes) \in DOMAIN codes)
<1>1. codes # <<>> => Len(codes) \in DOMAIN codes
  BY DEF Rows
<1> QED
  BY <1>1 DEF Current

\* One code more, or one code changed.
LEMMA CodeChanged ==
    ASSUME NEW s \in Seq(Code), NEW i \in DOMAIN s, NEW code \in Code
    PROVE  /\ [s EXCEPT ![i] = code] \in Seq(Code)
           /\ Len([s EXCEPT ![i] = code]) = Len(s)
           /\ DOMAIN [s EXCEPT ![i] = code] = DOMAIN s
OBVIOUS

LEMMA CodeAdded ==
    ASSUME NEW s \in Seq(Code), NEW code \in Code
    PROVE  /\ Append(s, code) \in Seq(Code)
           /\ Len(Append(s, code)) = Len(s) + 1
           /\ \A i \in DOMAIN s : i \in DOMAIN Append(s, code)
OBVIOUS

LEMMA CodeFacts ==
    ASSUME Rows, NEW q, CodeChange(q) \/ ExpireCode
    PROVE  /\ codes' \in Seq(Code) /\ Len(codes') <= MaxCodes
           /\ \A c \in DOMAIN codes : c \in DOMAIN codes'
<1> USE DEF Rows
<1>0. /\ \A c \in DOMAIN codes : codes[c] \in Code
      /\ DOMAIN codes = 1..Len(codes)
      /\ "LIVE" \in Code /\ "EXPIRED" \in Code
  BY DEF Code
<1>1. Revoked \in Seq(Code) /\ Len(Revoked) = Len(codes) /\ DOMAIN Revoked = DOMAIN codes
  <2>1. Revoked = [i \in 1..Len(codes) |-> IF i \in Current THEN "REVOKED" ELSE codes[i]]
    BY <1>0 DEF Revoked
  <2>2. \A i \in 1..Len(codes) : (IF i \in Current THEN "REVOKED" ELSE codes[i]) \in Code
    BY <1>0 DEF Code
  <2> HIDE DEF Current
  <2> QED
    BY <2>1, <2>2
<1>2. CASE CreateCode(q)
  <2>1. Len(codes) < MaxCodes
        /\ \E s \in {codes, Revoked} : codes' = Append(s, "LIVE")
    BY <1>2 DEF CreateCode
  <2>2. PICK s \in {codes, Revoked} : codes' = Append(s, "LIVE")
    BY <2>1
  <2>3. s \in Seq(Code) /\ Len(s) = Len(codes)
    BY <1>1, <2>2
  <2>4. /\ codes' \in Seq(Code) /\ Len(codes') = Len(codes) + 1
        /\ \A c \in DOMAIN s : c \in DOMAIN codes'
    BY <1>0, <2>2, <2>3, CodeAdded
  <2>5. DOMAIN s = DOMAIN codes
    BY <1>1, <2>2
  <2>6. Len(codes) + 1 <= MaxCodes
    BY <2>1, RosterAssumption
  <2> QED
    BY <2>4, <2>5, <2>6
<1>3. CASE UpdateCode(q)
  <2>1. codes' = [codes EXCEPT ![Len(codes)] = "LIVE"]
    BY <1>3 DEF UpdateCode
  <2>2. Len(codes) \in DOMAIN codes
    BY <1>3, CurrentIsACode DEF UpdateCode
  <2> QED
    BY <1>0, <2>1, <2>2, CodeChanged
<1>4. CASE RevokeCode(q)
  BY <1>1, <1>4 DEF RevokeCode
<1>5. CASE ExpireCode
  <2>1. PICK i \in DOMAIN codes : codes' = [codes EXCEPT ![i] = "EXPIRED"]
    BY <1>5, CurrentIsACode DEF ExpireCode
  <2> QED
    BY <1>0, <2>1, CodeChanged
<1> QED
  BY <1>2, <1>3, <1>4, <1>5 DEF CodeChange

LEMMA LockedStep ==
    ASSUME CourseInv, LockedChange, UNCHANGED <<resultVars, asks>>
    PROVE  CourseInv'
<1> USE DEF CourseInv
<1>1. /\ course = "ACTIVE"
      /\ \A p \in Requests : ~ HasCourse(p)
      /\ UNCHANGED <<owner, roles, result, asks>>
  <2>1. LockActiveCourse /\ UNCHANGED <<owner, roles>>
    BY DEF LockedChange, CodeChange, Archive, Delete, Announce, CreateCode, UpdateCode,
           RevokeCode, RemoveMember
  <2> QED
    BY <2>1, FreeOfTheCourse DEF LockActiveCourse, resultVars
<1>2. UNCHANGED requestVars \/ \E q \in Requests : End(q)
  BY DEF LockedChange, CodeChange, Archive, Delete, Announce, CreateCode, UpdateCode, RevokeCode,
         RemoveMember
<1>3. /\ codes' \in Seq(Code) /\ Len(codes') <= MaxCodes
      /\ \A c \in DOMAIN codes : c \in DOMAIN codes'
  BY CodeFacts DEF LockedChange, Archive, Delete, Announce, RemoveMember, Rows, rosterVars
<1>4. /\ membership' \in [Users -> {"NONE", "ACTIVE", "REMOVED"}]
      /\ \A u \in Users : membership'[u] # "NONE" => membership[u] # "NONE"
  BY DEF LockedChange, CodeChange, Archive, Delete, Announce, CreateCode, UpdateCode, RevokeCode,
         RemoveMember, Rows, rosterVars
<1>5. course' # "NONE" \/ (course' = "NONE" /\ records' = {} /\ UNCHANGED membership
                           /\ \A u \in Users : membership[u] = "NONE")
  BY <1>1 DEF LockedChange, CodeChange, Archive, Delete, Announce, CreateCode, UpdateCode,
              RevokeCode, RemoveMember, rosterVars
<1> DEFINE Kept(p) == \/ requests'[p] = requests[p] /\ holds'[p] = holds[p]
                      \/ requests'[p] = Idle /\ holds'[p] = {}
<1>6. Rows' /\ \A p \in Requests : Kept(p)
  <2>1. CASE UNCHANGED requestVars
    BY <1>1, <1>3, <1>4, <2>1 DEF Rows, requestVars
  <2>2. ASSUME NEW q \in Requests, End(q)
        PROVE  Rows' /\ \A p \in Requests : Kept(p)
    BY <1>1, <1>3, <1>4, <2>2, EndFacts DEF Rows
  <2> QED
    BY <1>2, <2>1, <2>2
<1>7. \A p \in Requests : FoundLasts(p)' /\ TookItsLocks(p)'
  BY <1>1, <1>3, <1>6, NobodyFound, OthersKeepLocks, EndedHasNone
<1>8. RolesBackTheCourse' /\ NoneIsEmpty' /\ OneOpenRequest'
  BY <1>1, <1>4, <1>5 DEF RolesBackTheCourse, NoneIsEmpty, OneOpenRequest
<1> QED
  BY <1>6, <1>7, <1>8

LEMMA ExpireStep ==
    ASSUME CourseInv, ExpireCode, UNCHANGED <<resultVars, asks>>
    PROVE  CourseInv'
<1> USE DEF CourseInv
<1>1. PICK i \in DOMAIN codes : codes' = [codes EXCEPT ![i] = "EXPIRED"]
  BY CurrentIsACode DEF ExpireCode
<1>2. UNCHANGED <<course, owner, membership, records, roles, requests, holds, result, asks>>
  BY DEF ExpireCode, rosterVars, requestVars, resultVars
<1>3. Rows'
  BY <1>2, CodeFacts DEF Rows
<1>4. \A c \in DOMAIN codes : /\ c \in DOMAIN codes'
                              /\ codes[c] # "REVOKED" => codes'[c] # "REVOKED"
  BY <1>1 DEF Rows
<1>5. \A p \in Requests : FoundLasts(p)' /\ TookItsLocks(p)'
  BY <1>2, <1>4, OthersFound, OthersKeepLocks
<1> QED
  BY <1>2, <1>3, <1>5 DEF RolesBackTheCourse, NoneIsEmpty, OneOpenRequest

\* What only concerns roles, or results.
LEMMA RolesStep ==
    ASSUME CourseInv,
           \/ (\E u \in Enrolled : CreateUser(u)) /\ UNCHANGED <<resultVars, asks>>
           \/ Publish \/ Unpublish
    PROVE  CourseInv'
<1> USE DEF CourseInv
<1>1. /\ UNCHANGED <<course, owner, membership, codes, records, requests, holds, asks>>
      /\ result' \in 0..MaxResults
  BY StudentAssumption DEF CreateUser, Publish, Unpublish, courseVars, rosterVars, requestVars,
                           resultVars, allVars, Rows
<1>2. /\ roles' \in [Users -> SUBSET Roles]
      /\ \A u \in Users : roles[u] \subseteq roles'[u]
  <2>1. CASE UNCHANGED roles
    BY <2>1 DEF Rows
  <2>2. ASSUME NEW u \in Enrolled, CreateUser(u)
        PROVE  /\ roles' \in [Users -> SUBSET Roles]
               /\ \A v \in Users : roles[v] \subseteq roles'[v]
    <3>1. PICK r \in SUBSET Roles : roles' = [roles EXCEPT ![u] = r]
      BY <2>2 DEF CreateUser
    <3> QED
      BY <2>2, <3>1 DEF CreateUser, Rows
  <2> QED
    BY <2>1, <2>2 DEF Publish, Unpublish, allVars
<1>3. Rows'
  BY <1>1, <1>2 DEF Rows
<1>4. \A p \in Requests : FoundLasts(p)' /\ TookItsLocks(p)'
  <2>1. ASSUME NEW p \in Requests, requests[p] # Idle, requests[p].op = "ROLES",
               roles[requests[p].user] # {}
        PROVE  roles'[requests[p].user] # {}
    BY <1>2, <2>1, RequestFields
  <2> QED
    BY <1>1, <2>1, OthersFound, OthersKeepLocks
<1>5. RolesBackTheCourse'
  BY <1>1, <1>2 DEF RolesBackTheCourse, Rows
<1> QED
  BY <1>1, <1>3, <1>4, <1>5 DEF NoneIsEmpty, OneOpenRequest

-------------------------------------------------------------------------------
(* Transactions that begin and take locks: the rows are as they were.      *)

LEMMA RequestsMove ==
    ASSUME CourseInv, NEW q \in Requests,
           UNCHANGED <<courseVars, roles, resultVars, asks>>,
           requests' \in [Requests -> Transaction \union {Idle}],
           holds' \in [Requests -> SUBSET Lock],
           \A p \in Requests \ {q} : requests'[p] = requests[p] /\ holds'[p] = holds[p],
           FoundLasts(q)', TookItsLocks(q)'
    PROVE  CourseInv'
<1> USE DEF CourseInv
<1>1. UNCHANGED <<course, owner, membership, codes, records, roles, result, asks>>
  BY DEF courseVars, rosterVars, resultVars
<1>2. Rows'
  BY <1>1 DEF Rows
<1>3. \A p \in Requests \ {q} : FoundLasts(p)' /\ TookItsLocks(p)'
  BY <1>1, OthersFound, OthersKeepLocks
<1> QED
  BY <1>1, <1>2, <1>3 DEF RolesBackTheCourse, NoneIsEmpty, OneOpenRequest

\* A transaction that begins has found nothing yet, and has at most a lock that comes
\* before the course.
LEMMA StartStep ==
    ASSUME CourseInv, NEW q \in Requests, NEW t \in Transaction,
           NEW u \in Users, NEW locks \in SUBSET {Account(u), Codes, Admin}, Start(q, t, locks),
           t.phase \in {"begun", "account"}, t.op = "JOIN" => t.code \in DOMAIN codes,
           t.op = "ROLES" => roles[t.user] # {} /\ t.roles # {},
           UNCHANGED <<courseVars, roles, resultVars, asks>>
    PROVE  CourseInv'
<1>0. locks \in SUBSET Lock
  BY DEF Lock
<1>1. /\ requests' \in [Requests -> Transaction \union {Idle}]
      /\ holds' \in [Requests -> SUBSET Lock]
      /\ requests'[q] = t /\ holds'[q] = locks
      /\ \A p \in Requests \ {q} : requests'[p] = requests[p] /\ holds'[p] = holds[p]
  BY <1>0, StartFacts DEF CourseInv
<1>2. UNCHANGED <<codes, roles>>
  BY DEF courseVars
<1>3. FoundLasts(q)'
  BY <1>1, <1>2 DEF FoundLasts, HasCourse, HasCourseAlone, SharesTheCourse, In, Is
<1>4. TookItsLocks(q)'
  <2>1. /\ Course \notin locks /\ Share \notin locks /\ Rubric \notin locks
        /\ \A v \in Users : Row(v) \notin locks /\ Key(v) \notin locks
        /\ \A a \in Addresses : Address(a) \notin locks
    BY DEF Course, Share, Row, Key, Rubric, Address, Account, Codes, Admin
  <2> QED
    BY <1>1, <2>1 DEF TookItsLocks, HasCourseAlone, SharesTheCourse, In
<1> QED
  BY <1>1, <1>3, <1>4, RequestsMove

LEMMA RosterBeginStep ==
    ASSUME CourseInv, NEW q \in Requests, Begin(q), UNCHANGED <<resultVars, asks>>
    PROVE  CourseInv'
<1>0. Enrolled \subseteq Users /\ Student \in Users
  BY RosterAssumption, StudentAssumption
<1>1. CASE LoadForAssignment(q)
  <2>1. [op |-> "ASSIGN", phase |-> "begun"] \in Transaction
    BY DEF Transaction, RosterRequest
  <2> QED
    BY <1>0, <1>1, <2>1, StartStep DEF LoadForAssignment
<1>2. ASSUME NEW u \in Users, CreateCourse(q, u)
      PROVE  CourseInv'
  <2>1. [op |-> "CREATE", user |-> u, phase |-> "begun"] \in Transaction
    BY DEF Transaction, RosterRequest
  <2> QED
    BY <1>2, <2>1, StartStep DEF CreateCourse
<1>3. ASSUME NEW u \in Enrolled, BeginAdd(q, u)
      PROVE  CourseInv'
  <2>1. [op |-> "ADD", user |-> u, phase |-> "begun"] \in Transaction
    BY <1>0 DEF Transaction, RosterRequest
  <2> QED
    BY <1>0, <1>3, <2>1, StartStep DEF BeginAdd
<1>4. ASSUME NEW u \in Enrolled, NEW r \in SUBSET Roles, BeginRoles(q, u, r)
      PROVE  CourseInv'
  <2>1. [op |-> "ROLES", user |-> u, roles |-> r, phase |-> "begun"] \in Transaction
    BY <1>0 DEF Transaction, RosterRequest
  <2> QED
    BY <1>0, <1>4, <2>1, StartStep DEF BeginRoles
<1>5. ASSUME NEW u \in Enrolled, NEW c \in 1..MaxCodes, NEW a \in Addresses, BeginJoin(q, u, c, a)
      PROVE  CourseInv'
  <2>1. [op |-> "JOIN", user |-> u, code |-> c, from |-> a, phase |-> "account"] \in Transaction
    BY <1>0 DEF Transaction, RosterRequest
  <2> QED
    BY <1>0, <1>5, <2>1, StartStep DEF BeginJoin
<1>6. CASE BeginCode(q)
  <2>1. [op |-> "CODE", phase |-> "begun"] \in Transaction
    BY DEF Transaction, RosterRequest
  <2> QED
    BY <1>0, <1>6, <2>1, StartStep DEF BeginCode
<1> QED
  BY <1>1, <1>2, <1>3, <1>4, <1>5, <1>6 DEF Begin

LEMMA AskBeginStep ==
    ASSUME CourseInv, NEW q \in Requests,
           \/ \E r \in 1..MaxResults : BeginFile(q, r)
           \/ \E n \in 1..MaxAsks : BeginAnswer(q, n)
    PROVE  CourseInv'
<1>1. ASSUME NEW r \in 1..MaxResults, BeginFile(q, r)
      PROVE  CourseInv'
  <2>1. [op |-> "FILE", result |-> r, phase |-> "begun"] \in Transaction
    BY DEF Transaction, AskRequest
  <2> QED
    BY <1>1, <2>1, StudentAssumption, StartStep DEF BeginFile
<1>2. ASSUME NEW n \in 1..MaxAsks, BeginAnswer(q, n)
      PROVE  CourseInv'
  <2>1. [op |-> "ANSWER", ask |-> n, phase |-> "begun"] \in Transaction
    BY DEF Transaction, AskRequest
  <2> QED
    BY <1>2, <2>1, StudentAssumption, StartStep DEF BeginAnswer
<1> QED
  BY <1>1, <1>2

\* One lock more, taken by the statement it belongs to.
LEMMA LockIsTaken ==
    ASSUME NEW q \in Requests, TookItsLocks(q), Rows,
           requests[q] # Idle, requests'[q] # Idle, requests'[q].op = requests[q].op,
           NEW locks, holds'[q] = holds[q] \union locks,
           \/ /\ WantsAddress(q) /\ requests'[q].phase = "address"
              /\ \E a \in Addresses : locks = {Address(a)}
           \/ WantsRubric(q) /\ requests'[q].phase = "rubric" /\ locks = {Rubric}
           \/ /\ Is(q, "ADD", "begun") \/ Is(q, "JOIN", "address")
              /\ requests'[q].phase = "course" /\ locks = {Course}
           \/ /\ Is(q, "FILE", "begun") \/ Is(q, "ANSWER", "begun")
              /\ requests'[q].phase = "shared" /\ locks = {Share}
           \/ Is(q, "ADD", "course") /\ requests'[q].phase = "invite" /\ locks = {}
           \/ /\ Is(q, "ADD", "course") \/ Is(q, "ROLES", "begun")
              /\ requests'[q].phase = "row" /\ \E u \in Users : locks = {Row(u)}
           \/ /\ WantsKey(q) /\ requests'[q].phase = "key"
              /\ \E u \in Users : locks = {Key(u)}
    PROVE  TookItsLocks(q)'
<1> USE LocksDiffer DEF TookItsLocks, HasCourseAlone, SharesTheCourse, In, Is
<1>1. CASE /\ WantsAddress(q) /\ requests'[q].phase = "address"
           /\ \E a \in Addresses : locks = {Address(a)}
  BY <1>1 DEF WantsAddress
<1>2. CASE WantsRubric(q) /\ requests'[q].phase = "rubric" /\ locks = {Rubric}
  BY <1>2 DEF WantsRubric
<1>3. CASE /\ Is(q, "ADD", "begun") \/ Is(q, "JOIN", "address")
           /\ requests'[q].phase = "course" /\ locks = {Course}
  BY <1>3
<1>4. CASE /\ Is(q, "FILE", "begun") \/ Is(q, "ANSWER", "begun")
           /\ requests'[q].phase = "shared" /\ locks = {Share}
  BY <1>4
<1>5. CASE Is(q, "ADD", "course") /\ requests'[q].phase = "invite" /\ locks = {}
  BY <1>5
<1>6. CASE /\ Is(q, "ADD", "course") \/ Is(q, "ROLES", "begun")
           /\ requests'[q].phase = "row" /\ \E u \in Users : locks = {Row(u)}
  BY <1>6
<1>7. CASE WantsKey(q) /\ requests'[q].phase = "key" /\ \E u \in Users : locks = {Key(u)}
  BY <1>7 DEF WantsKey
<1> QED
  BY <1>1, <1>2, <1>3, <1>4, <1>5, <1>6, <1>7

LEMMA LocksStep ==
    ASSUME CourseInv, NEW q \in Requests,
           \/ LockAddress(q) \/ LockRubric(q) \/ LockCourse(q) \/ LockRow(q) \/ LockKey(q)
           \/ ShareCourse(q),
           UNCHANGED <<resultVars, asks>>
    PROVE  CourseInv'
<1> USE DEF CourseInv
<1>0. UNCHANGED <<courseVars, roles, resultVars, asks>>
  BY DEF LockAddress, LockRubric, LockCourse, LockRow, LockKey, ShareCourse
<1>1. UNCHANGED <<course, codes, membership, roles>>
  BY <1>0 DEF courseVars, rosterVars
<1> DEFINE
      Moved(phase, locks) ==
        /\ requests' \in [Requests -> Transaction \union {Idle}]
        /\ holds' \in [Requests -> SUBSET Lock]
        /\ requests'[q] # Idle
        /\ requests'[q].phase = phase /\ requests'[q].op = requests[q].op
        /\ requests[q].op = "JOIN" => requests'[q].code = requests[q].code
        /\ requests[q].op = "ROLES" => /\ requests'[q].user = requests[q].user
                                       /\ requests'[q].roles = requests[q].roles
        /\ holds'[q] = holds[q] \union locks
        /\ \A p \in Requests \ {q} : requests'[p] = requests[p] /\ holds'[p] = holds[p]
<1>2. CASE LockAddress(q)
  <2> DEFINE a == requests[q].from
  <2>1. /\ WantsAddress(q) /\ requests[q] # Idle /\ requests[q].op = "JOIN" /\ a \in Addresses
        /\ Advance(q, "address", {Address(a)})
    BY <1>2, RequestFields DEF LockAddress, WantsAddress, Is
  <2>2. {Address(a)} \in SUBSET Lock
    BY <2>1 DEF Lock
  <2>3. Moved("address", {Address(a)})
    BY <2>1, <2>2, AdvanceFacts
  <2>4. FoundLasts(q)'
    BY <1>1, <2>1, <2>3 DEF FoundLasts, HasCourse, HasCourseAlone, SharesTheCourse, In, Is
  <2>5. TookItsLocks(q)'
    BY <2>1, <2>3, LockIsTaken
  <2> QED
    BY <1>0, <2>3, <2>4, <2>5, RequestsMove
<1>3. CASE LockRubric(q)
  <2>1. /\ WantsRubric(q) /\ requests[q] # Idle /\ requests[q].op = "ASSIGN"
        /\ Advance(q, "rubric", {Rubric})
    BY <1>3 DEF LockRubric, WantsRubric, Is
  <2>2. {Rubric} \in SUBSET Lock
    BY DEF Lock
  <2>3. Moved("rubric", {Rubric})
    BY <2>1, <2>2, AdvanceFacts
  <2>4. FoundLasts(q)'
    BY <2>1, <2>3 DEF FoundLasts, HasCourse, HasCourseAlone, SharesTheCourse, In, Is
  <2>5. TookItsLocks(q)'
    BY <2>1, <2>3, LockIsTaken
  <2> QED
    BY <1>0, <2>3, <2>4, <2>5, RequestsMove
<1>4. CASE LockCourse(q)
  <2>1. /\ Is(q, "ADD", "begun") \/ Is(q, "JOIN", "address")
        /\ requests[q] # Idle /\ requests[q].op \in {"ADD", "JOIN"}
        /\ Advance(q, "course", {Course})
        /\ requests[q].op = "JOIN" => codes[requests[q].code] = "LIVE"
        /\ course = "ACTIVE"
    BY <1>4 DEF LockCourse, LockActiveCourse, Is
  <2>2. {Course} \in SUBSET Lock
    BY DEF Lock
  <2>3. Moved("course", {Course})
    BY <2>1, <2>2, AdvanceFacts
  <2>4. FoundLasts(q)'
    BY <1>1, <2>1, <2>3 DEF FoundLasts, Is
  <2>5. TookItsLocks(q)'
    BY <2>1, <2>3, LockIsTaken
  <2> QED
    BY <1>0, <2>3, <2>4, <2>5, RequestsMove
<1>5. CASE LockRow(q)
  <2> DEFINE u == requests[q].user
  <2>1. /\ Is(q, "ADD", "course") \/ Is(q, "ROLES", "begun")
        /\ requests[q] # Idle /\ requests[q].op \in {"ADD", "ROLES"} /\ u \in Users
    BY <1>5, RequestFields DEF LockRow, Is
  <2>2. PICK phase \in {"row", "invite"}, locks \in {{}, {Row(u)}} :
           /\ Advance(q, phase, locks)
           /\ IF phase = "row" THEN locks = {Row(u)} ELSE locks = {} /\ requests[q].op = "ADD"
    BY <1>5, <2>1 DEF LockRow, FoundLasts
  <2>3. locks \in SUBSET Lock
    BY <2>1, <2>2 DEF Lock
  <2>4. Moved(phase, locks)
    BY <2>1, <2>2, <2>3, AdvanceFacts
  <2>5. /\ requests[q].op = "ADD" => course = "ACTIVE"
        /\ requests[q].op = "ROLES" => roles[u] # {} /\ requests[q].roles # {}
    BY <2>1 DEF FoundLasts, HasCourse, HasCourseAlone, In, Is
  <2>6. FoundLasts(q)'
    BY <1>1, <2>1, <2>2, <2>4, <2>5
       DEF FoundLasts, HasCourse, HasCourseAlone, SharesTheCourse, In, Is
  <2>7. TookItsLocks(q)'
    <3>1. \/ Is(q, "ADD", "course") /\ requests'[q].phase = "invite" /\ locks = {}
          \/ requests'[q].phase = "row" /\ \E v \in Users : locks = {Row(v)}
      BY <2>1, <2>2, <2>4 DEF Is
    <3> QED
      BY <2>1, <2>4, <3>1, LockIsTaken
  <2> QED
    BY <1>0, <2>4, <2>6, <2>7, RequestsMove
<1>6. CASE LockKey(q)
  <2> DEFINE u == requests[q].user
  <2>1. /\ requests[q] # Idle /\ WantsKey(q) /\ Advance(q, "key", {Key(u)})
        /\ requests[q].op \in {"ADD", "JOIN", "ROLES", "CREATE"} /\ u \in Users
        /\ requests[q].op \in {"ADD", "JOIN"} => course = "ACTIVE"
        /\ requests[q].op = "JOIN" => /\ requests[q].code \in DOMAIN codes
                                      /\ codes[requests[q].code] # "REVOKED"
        /\ requests[q].op = "ROLES" => roles[u] # {} /\ requests[q].roles # {}
    BY <1>6, RequestFields
       DEF LockKey, WantsKey, Is, FoundLasts, HasCourse, HasCourseAlone, SharesTheCourse, In
  <2>2. {Key(u)} \in SUBSET Lock
    BY <2>1 DEF Lock
  <2>3. Moved("key", {Key(u)})
    BY <2>1, <2>2, AdvanceFacts
  <2>4. FoundLasts(q)'
    BY <1>1, <2>1, <2>3 DEF FoundLasts, HasCourse, HasCourseAlone, SharesTheCourse, In, Is
  <2>5. TookItsLocks(q)'
    BY <2>1, <2>3, LockIsTaken
  <2> QED
    BY <1>0, <2>3, <2>4, <2>5, RequestsMove
<1>7. CASE ShareCourse(q)
  <2>1. /\ Is(q, "FILE", "begun") \/ Is(q, "ANSWER", "begun")
        /\ requests[q] # Idle /\ requests[q].op \in {"FILE", "ANSWER"}
        /\ Advance(q, "shared", {Share})
        /\ course = "ACTIVE"
        /\ requests[q].op = "FILE" => membership[Student] = "ACTIVE"
    BY <1>7 DEF ShareCourse, MayAsk, Is
  <2>2. {Share} \in SUBSET Lock
    BY DEF Lock
  <2>3. Moved("shared", {Share})
    BY <2>1, <2>2, AdvanceFacts
  <2>4. FoundLasts(q)'
    BY <1>1, <2>1, <2>3 DEF FoundLasts, Is
  <2>5. TookItsLocks(q)'
    BY <2>1, <2>3, LockIsTaken
  <2> QED
    BY <1>0, <2>3, <2>4, <2>5, RequestsMove
<1> QED
  BY <1>2, <1>3, <1>4, <1>5, <1>6, <1>7

-------------------------------------------------------------------------------
(* Transactions that write and end.                                        *)

\* What the one that ends has changed disturbs nothing the others found.
LEMMA EndStep ==
    ASSUME CourseInv, NEW q \in Requests, End(q),
           course' \in {course, "ACTIVE"}, owner' \in Users,
           UNCHANGED <<codes, result>>,
           membership' \in [Users -> {"NONE", "ACTIVE", "REMOVED"}],
           roles' \in [Users -> SUBSET Roles],
           asks' \in Seq(Ask), Len(asks') <= MaxAsks,
           membership[Student] = "ACTIVE" => membership'[Student] = "ACTIVE",
           \A u \in Users : roles[u] # {} => roles'[u] # {},
           RolesBackTheCourse', NoneIsEmpty', OneOpenRequest'
    PROVE  CourseInv'
<1> USE DEF CourseInv
<1>1. Rows'
  BY EndFacts DEF Rows
<1>2. FoundLasts(q)' /\ TookItsLocks(q)'
  BY EndFacts, EndedHasNone
<1>3. ASSUME NEW p \in Requests \ {q}
      PROVE  FoundLasts(p)' /\ TookItsLocks(p)'
  <2>1. requests'[p] = requests[p] /\ holds'[p] = holds[p]
    BY EndFacts
  <2>2. requests[p] # Idle /\ requests[p].op = "ROLES" => requests[p].user \in Users
    BY RequestFields
  <2> QED
    BY <2>1, <2>2, OthersFound, OthersKeepLocks
<1> QED
  BY <1>1, <1>2, <1>3

LEMMA RollbackStep ==
    ASSUME CourseInv, NEW q \in Requests, Rollback(q), UNCHANGED <<resultVars, asks>>
    PROVE  CourseInv'
<1>1. UNCHANGED <<course, owner, membership, codes, records, roles, result, asks>>
  BY DEF Rollback, courseVars, rosterVars, resultVars
<1> QED
  BY <1>1, EndStep DEF Rollback, CourseInv, Rows, RolesBackTheCourse, NoneIsEmpty,
                       OneOpenRequest

\* A new membership, of a student; the course is active.
LEMMA EnterStep ==
    ASSUME CourseInv, NEW q \in Requests, AddMember(q) \/ Join(q),
           UNCHANGED <<resultVars, asks>>
    PROVE  CourseInv'
<1> USE DEF CourseInv
<1> DEFINE u == requests[q].user
<1>1. /\ requests[q] # Idle /\ requests[q].op \in {"ADD", "JOIN"} /\ End(q)
      /\ membership' = [membership EXCEPT ![u] = "ACTIVE"]
      /\ UNCHANGED <<course, owner, codes, records, roles, result, asks>>
  BY DEF AddMember, Join, resultVars
<1>2. u \in Users
  BY <1>1, RequestFields
<1>3. "STUDENT" \in roles[u] /\ HasCourse(q)
  <2>1. CASE AddMember(q)
    BY <2>1 DEF AddMember, MayEnter, HasCourse, HasCourseAlone, In
  <2>2. CASE Join(q)
    BY <1>2, <2>2 DEF Join, MayEnter, RolesBackTheCourse, HasCourse, HasCourseAlone, In
  <2> QED
    BY <2>1, <2>2
<1>4. course = "ACTIVE"
  BY <1>3 DEF FoundLasts
<1> HIDE DEF u
<1>5. /\ membership' \in [Users -> {"NONE", "ACTIVE", "REMOVED"}]
      /\ membership'[u] = "ACTIVE"
      /\ \A v \in Users \ {u} : membership'[v] = membership[v]
  BY <1>1, <1>2 DEF Rows
<1>6. RolesBackTheCourse'
  BY <1>1, <1>3, <1>5 DEF RolesBackTheCourse
<1>7. NoneIsEmpty' /\ OneOpenRequest'
  BY <1>1, <1>4 DEF NoneIsEmpty, OneOpenRequest
<1>8. membership[Student] = "ACTIVE" => membership'[Student] = "ACTIVE"
  BY <1>5, StudentAssumption
<1> QED
  BY <1>1, <1>5, <1>6, <1>7, <1>8, EndStep DEF Rows

LEMMA RosterEndStep ==
    ASSUME CourseInv, NEW q \in Requests,
           InsertCourse(q) \/ InsertAssignment(q) \/ ChangeRoles(q) \/ Invite(q),
           UNCHANGED <<resultVars, asks>>
    PROVE  CourseInv'
<1> USE DEF CourseInv
<1>1. CASE InsertCourse(q)
  <2>1. /\ requests[q].user \in Users /\ "TEACHER" \in roles[requests[q].user]
        /\ course' = "ACTIVE" /\ owner' = requests[q].user /\ End(q)
        /\ UNCHANGED <<membership, codes, records, roles, result, asks>>
    BY <1>1, RequestFields DEF InsertCourse, Is, rosterVars, resultVars
  <2>2. RolesBackTheCourse' /\ NoneIsEmpty' /\ OneOpenRequest'
    BY <2>1 DEF RolesBackTheCourse, NoneIsEmpty, OneOpenRequest
  <2> QED
    BY <2>1, <2>2, EndStep DEF Rows
<1>2. CASE InsertAssignment(q)
  <2>1. /\ End(q)
        /\ UNCHANGED <<course, owner, membership, codes, roles, result, asks>>
        /\ course = "NONE" => UNCHANGED records
    BY <1>2 DEF InsertAssignment, rosterVars, resultVars
  <2>2. RolesBackTheCourse' /\ NoneIsEmpty' /\ OneOpenRequest'
    BY <2>1 DEF RolesBackTheCourse, NoneIsEmpty, OneOpenRequest
  <2> QED
    BY <2>1, <2>2, EndStep DEF Rows
<1>3. CASE ChangeRoles(q)
  <2> DEFINE u == requests[q].user
  <2>1. /\ requests[q] # Idle /\ requests[q].op = "ROLES" /\ End(q)
        /\ RolesInUse(u) \subseteq requests[q].roles
        /\ roles' = [roles EXCEPT ![u] = requests[q].roles]
        /\ UNCHANGED <<course, owner, membership, codes, records, result, asks>>
    BY <1>3 DEF ChangeRoles, Is, courseVars, rosterVars, resultVars
  <2>2. /\ u \in Users /\ requests[q].roles \in SUBSET Roles
        /\ requests[q].roles # {}
    BY <2>1, RequestFields DEF FoundLasts
  <2>3. /\ course # "NONE" /\ owner = u => "TEACHER" \in requests[q].roles
        /\ membership[u] # "NONE" => "STUDENT" \in requests[q].roles
    BY <2>1 DEF RolesInUse
  <2> HIDE DEF u
  <2>4. /\ roles' \in [Users -> SUBSET Roles]
        /\ roles'[u] = requests[q].roles
        /\ \A v \in Users \ {u} : roles'[v] = roles[v]
    BY <2>1, <2>2 DEF Rows
  <2>5. RolesBackTheCourse'
    BY <2>1, <2>3, <2>4 DEF RolesBackTheCourse, Rows
  <2>6. NoneIsEmpty' /\ OneOpenRequest'
    BY <2>1 DEF NoneIsEmpty, OneOpenRequest
  <2>7. \A v \in Users : roles[v] # {} => roles'[v] # {}
    BY <2>2, <2>4
  <2> QED
    BY <2>1, <2>4, <2>5, <2>6, <2>7, EndStep DEF Rows
<1>4. CASE Invite(q)
  <2>1. /\ End(q)
        /\ UNCHANGED <<course, owner, membership, codes, records, roles, result, asks>>
    BY <1>4 DEF Invite, resultVars
  <2>2. RolesBackTheCourse' /\ NoneIsEmpty' /\ OneOpenRequest'
    BY <2>1 DEF RolesBackTheCourse, NoneIsEmpty, OneOpenRequest
  <2> QED
    BY <2>1, <2>2, EndStep DEF Rows
<1> QED
  BY <1>1, <1>2, <1>3, <1>4

LEMMA AskChanged ==
    ASSUME NEW s \in Seq(Ask), NEW i \in DOMAIN s, NEW ask \in Ask
    PROVE  /\ [s EXCEPT ![i] = ask] \in Seq(Ask)
           /\ Len([s EXCEPT ![i] = ask]) = Len(s)
OBVIOUS

LEMMA AskEndStep ==
    ASSUME CourseInv, NEW q \in Requests, File(q) \/ Answer(q)
    PROVE  CourseInv'
<1> USE DEF CourseInv
<1>0. /\ End(q)
      /\ UNCHANGED <<course, owner, membership, codes, records, roles, result>>
  BY DEF File, Answer, courseVars, rosterVars, resultVars
<1>1. RolesBackTheCourse' /\ NoneIsEmpty'
  BY <1>0 DEF RolesBackTheCourse, NoneIsEmpty
<1>2. CASE File(q)
  <2> DEFINE new == [result |-> result, status |-> "OPEN"]
  <2>1. /\ asks' = Append(asks, new) /\ Len(asks) < MaxAsks
        /\ \A i \in DOMAIN asks : asks[i] # new
        /\ result \in 1..MaxResults
    BY <1>2, RequestFields DEF File
  <2>2. new \in Ask
    BY <2>1 DEF Ask
  <2> HIDE DEF new
  <2>3. /\ asks' \in Seq(Ask) /\ Len(asks') = Len(asks) + 1
        /\ DOMAIN asks' = DOMAIN asks \union {Len(asks) + 1}
        /\ \A i \in DOMAIN asks : asks'[i] = asks[i]
        /\ asks'[Len(asks) + 1] = new
    BY <2>1, <2>2 DEF Rows
  <2>4. OneOpenRequest'
    BY <2>1, <2>3 DEF OneOpenRequest
  <2> QED
    BY <1>0, <1>1, <2>1, <2>3, <2>4, StudentAssumption, EndStep DEF Rows
<1>3. CASE Answer(q)
  <2> DEFINE n == requests[q].ask
  <2>1. PICK status \in Answers : asks' = [asks EXCEPT ![n].status = status]
    BY <1>3 DEF Answer
  <2>2. /\ \A i \in DOMAIN asks : asks[i] \in Ask
        /\ DOMAIN asks' = DOMAIN asks
        /\ \A i \in DOMAIN asks \ {n} : asks'[i] = asks[i]
        /\ n \in DOMAIN asks => asks'[n] = [asks[n] EXCEPT !.status = status]
    <3>1. asks \in Seq(Ask)
      BY DEF Rows
    <3> HIDE DEF CourseInv
    <3> QED
      BY <2>1, <3>1
  <2>3. \A i \in DOMAIN asks : asks'[i] \in Ask /\ asks'[i].result = asks[i].result
    <3> SUFFICES ASSUME NEW i \in DOMAIN asks
                 PROVE  asks'[i] \in Ask /\ asks'[i].result = asks[i].result
      OBVIOUS
    <3>1. [asks[i] EXCEPT !.status = status] \in Ask
          /\ [asks[i] EXCEPT !.status = status].result = asks[i].result
      BY <2>2 DEF Ask
    <3> QED
      BY <2>2, <3>1
  <2>4. asks' \in Seq(Ask) /\ Len(asks') = Len(asks)
    <3>1. CASE n \in DOMAIN asks
      <4>1. asks' = [asks EXCEPT ![n] = [asks[n] EXCEPT !.status = status]]
        BY <2>1
      <4>2. [asks[n] EXCEPT !.status = status] \in Ask
        BY <2>2, <2>3, <3>1
      <4> HIDE DEF n
      <4> QED
        BY <3>1, <4>1, <4>2, AskChanged DEF Rows
    <3>2. CASE n \notin DOMAIN asks
      <4>1. asks' = asks
        BY <2>1, <3>2 DEF Rows
      <4> QED
        BY <4>1 DEF Rows
    <3> QED
      BY <3>1, <3>2
  <2>5. n \in DOMAIN asks => asks[n].status = "OPEN"
    BY <1>3 DEF Answer
  <2>6. \A i \in DOMAIN asks : asks'[i].status = "OPEN" => asks'[i] = asks[i]
    <3> SUFFICES ASSUME NEW i \in DOMAIN asks, asks'[i].status = "OPEN"
                 PROVE  asks'[i] = asks[i]
      OBVIOUS
    <3>1. asks[i].status = "OPEN"
      BY <2>2, <2>5
    <3> QED
      BY <2>2, <2>3, <3>1 DEF Ask
  <2>7. OneOpenRequest'
    BY <2>2, <2>6 DEF OneOpenRequest
  <2> QED
    BY <1>0, <1>1, <2>4, <2>7, EndStep DEF Rows
<1> QED
  BY <1>2, <1>3

-------------------------------------------------------------------------------
(* The invariant.                                                          *)

LEMMA CourseInvInit ==
    Init => CourseInv
<1> SUFFICES ASSUME Init
             PROVE  CourseInv
  OBVIOUS
<1>1. Rows
  BY RosterAssumption, StudentAssumption DEF Init, RosterInit, Rows, Roles
<1>2. \A q \in Requests : FoundLasts(q) /\ TookItsLocks(q)
  BY DEF Init, RosterInit, FoundLasts, HasCourse, TookItsLocks, HasCourseAlone, SharesTheCourse,
         In, Is
<1>3. RolesBackTheCourse /\ NoneIsEmpty /\ OneOpenRequest
  BY DEF Init, RosterInit, RolesBackTheCourse, NoneIsEmpty, OneOpenRequest
<1> QED
  BY <1>1, <1>2, <1>3 DEF CourseInv

LEMMA CourseInvStep ==
    CourseInv /\ [Next]_vars => CourseInv'
<1> SUFFICES ASSUME CourseInv, [Next]_vars
             PROVE  CourseInv'
  OBVIOUS
<1>1. CASE LockedChange /\ UNCHANGED <<resultVars, asks>>
  BY <1>1, LockedStep
<1>2. CASE ExpireCode /\ UNCHANGED <<resultVars, asks>>
  BY <1>2, ExpireStep
<1>3. CASE \/ (\E u \in Enrolled : CreateUser(u)) /\ UNCHANGED <<resultVars, asks>>
           \/ Publish \/ Unpublish
  BY <1>3, RolesStep
<1>4. ASSUME NEW q \in Requests,
             Begin(q) \/ RosterProgress(q) \/ Rollback(q) \/ Victim(q),
             UNCHANGED <<resultVars, asks>>
      PROVE  CourseInv'
  <2>1. CASE Begin(q)
    BY <1>4, <2>1, RosterBeginStep
  <2>2. CASE LockAddress(q) \/ LockRubric(q) \/ LockCourse(q) \/ LockRow(q) \/ LockKey(q)
    BY <1>4, <2>2, LocksStep
  <2>3. CASE InsertCourse(q) \/ InsertAssignment(q) \/ ChangeRoles(q) \/ Invite(q)
    BY <1>4, <2>3, RosterEndStep
  <2>4. CASE AddMember(q) \/ Join(q)
    BY <1>4, <2>4, EnterStep
  <2>5. CASE Rollback(q) \/ Victim(q)
    BY <1>4, <2>5, RollbackStep DEF Victim
  <2>6. CASE CodeChange(q)
    BY <1>4, <2>6, LockedStep DEF LockedChange
  <2> QED
    BY <1>4, <2>1, <2>2, <2>3, <2>4, <2>5, <2>6 DEF RosterProgress, CodeChange
<1>5. ASSUME NEW q \in Requests,
             \/ \E r \in 1..MaxResults : BeginFile(q, r)
             \/ \E i \in 1..MaxAsks : BeginAnswer(q, i)
      PROVE  CourseInv'
  BY <1>5, AskBeginStep
<1>6. ASSUME NEW q \in Requests, ShareCourse(q)
      PROVE  CourseInv'
  BY <1>6, LocksStep DEF ShareCourse
<1>7. ASSUME NEW q \in Requests, File(q) \/ Answer(q)
      PROVE  CourseInv'
  BY <1>7, AskEndStep
<1>8. CASE UNCHANGED vars
  BY <1>8 DEF vars, allVars, courseVars, rosterVars, requestVars, resultVars, CourseInv, Rows,
              FoundLasts, HasCourse, TookItsLocks, HasCourseAlone, SharesTheCourse, In, Is,
              RolesBackTheCourse, NoneIsEmpty, OneOpenRequest
<1> QED
  BY <1>1, <1>2, <1>3, <1>4, <1>5, <1>6, <1>7, <1>8 DEF Next, RosterNext, AskNext, LockedChange

\* What a transaction found under the lock of the course, it still finds as it writes.
THEOREM CourseInvariant == Spec => []CourseInv
<1> QED
  BY CourseInvInit, CourseInvStep, PTL DEF Spec

-------------------------------------------------------------------------------
(* The properties.                                                         *)

\* What a step does to the rows of the course; each part names who may do it.
LEMMA WhoChanges ==
    ASSUME Next
    PROVE  /\ \/ UNCHANGED <<course, owner, rosterVars, codes, asks>>
              \/ LockedChange /\ UNCHANGED asks
              \/ ExpireCode /\ UNCHANGED asks
              \/ \E q \in Requests : InsertCourse(q) /\ UNCHANGED asks
              \/ \E q \in Requests :
                    (Invite(q) \/ AddMember(q) \/ Join(q)) /\ UNCHANGED asks
              \/ \E q \in Requests : File(q) \/ Answer(q)
           /\ \/ records' \ records \subseteq {"assignment"} /\ records \subseteq records'
              \/ Announce
<1>1. CASE LockedChange /\ UNCHANGED <<resultVars, asks>>
  BY <1>1 DEF LockedChange, CodeChange, Archive, Delete, CreateCode, UpdateCode, RevokeCode,
              RemoveMember
<1>2. CASE ExpireCode /\ UNCHANGED <<resultVars, asks>>
  BY <1>2 DEF ExpireCode
<1>3. CASE \/ (\E u \in Enrolled : CreateUser(u)) /\ UNCHANGED <<resultVars, asks>>
           \/ Publish \/ Unpublish
  BY <1>3 DEF CreateUser, Publish, Unpublish, allVars, courseVars
<1>4. ASSUME NEW q \in Requests, Begin(q), UNCHANGED <<resultVars, asks>>
      PROVE  UNCHANGED <<courseVars, asks>>
  BY <1>4 DEF Begin, LoadForAssignment, CreateCourse, BeginAdd, BeginRoles, BeginJoin,
              BeginCode
<1>5. ASSUME NEW q \in Requests, RosterProgress(q) \/ Rollback(q) \/ Victim(q),
             UNCHANGED <<resultVars, asks>>
      PROVE  \/ UNCHANGED <<courseVars, asks>>
             \/ InsertCourse(q) /\ UNCHANGED <<records, asks>>
             \/ InsertAssignment(q) /\ UNCHANGED <<course, owner, rosterVars, codes, asks>>
             \/ (Invite(q) \/ AddMember(q) \/ Join(q)) /\ UNCHANGED <<records, asks>>
             \/ CodeChange(q) /\ UNCHANGED <<records, asks>>
  BY <1>5 DEF RosterProgress, InsertCourse, InsertAssignment, ChangeRoles, LockAddress,
              LockRubric, LockCourse, LockRow, LockKey, Invite, AddMember, Join, Rollback, Victim,
              CodeChange, CreateCode, UpdateCode, RevokeCode
<1>6. ASSUME NEW q \in Requests,
             \/ \E r \in 1..MaxResults : BeginFile(q, r)
             \/ \E i \in 1..MaxAsks : BeginAnswer(q, i)
             \/ ShareCourse(q)
      PROVE  UNCHANGED <<courseVars, asks>>
  BY <1>6 DEF BeginFile, BeginAnswer, ShareCourse
<1>7. ASSUME NEW q \in Requests, File(q) \/ Answer(q)
      PROVE  UNCHANGED courseVars
  BY <1>7 DEF File, Answer
<1>8. ASSUME NEW q \in Requests, InsertAssignment(q)
      PROVE  records' \ records \subseteq {"assignment"} /\ records \subseteq records'
  BY <1>8 DEF InsertAssignment
<1> QED
  BY <1>1, <1>2, <1>3, <1>4, <1>5, <1>6, <1>7, <1>8 DEF Next, RosterNext, AskNext, LockedChange,
     courseVars

\* Whoever has the course, alone or shared, found it active.
LEMMA WritersFindTheCourse ==
    ASSUME CourseInv, NEW q \in Requests,
           Invite(q) \/ AddMember(q) \/ Join(q) \/ File(q) \/ Answer(q)
    PROVE  course = "ACTIVE"
<1>1. HasCourse(q)
  <2>1. CASE Invite(q) \/ AddMember(q) \/ Join(q)
    BY <2>1 DEF Invite, AddMember, Join, Is, MayEnter, HasCourse, HasCourseAlone, In
  <2>2. CASE File(q) \/ Answer(q)
    BY <2>2, RequestFields DEF CourseInv, File, Answer, HasCourse, SharesTheCourse, In
  <2> QED
    BY <2>1, <2>2
<1> QED
  BY <1>1 DEF CourseInv, FoundLasts

\* Whoever is or was on the roster is a student, and the owner of the course a
\* teacher: RolesBackTheCourse is part of the invariant.
THEOREM RolesStayBehindTheCourse == Spec => []RolesBackTheCourse
<1>1. CourseInv => RolesBackTheCourse
  BY DEF CourseInv
<1> QED
  BY <1>1, CourseInvariant, PTL

\* An archived course keeps what it has: whoever writes to it found it active under
\* a lock that its archival waits for.
THEOREM ArchivedCourseIsKept == Spec => ArchivedCourseIsReadOnly
<1>1. ASSUME CourseInv, [Next]_vars, course = "ARCHIVED"
      PROVE  /\ course' = "ARCHIVED"
             /\ UNCHANGED <<owner, rosterVars, asks>>
             /\ Len(codes') = Len(codes)
             /\ \A i \in DOMAIN codes : codes'[i] # codes[i] => codes'[i] = "EXPIRED"
             /\ records' \ records \subseteq {"assignment"}
  <2>1. CASE UNCHANGED vars
    BY <1>1, <2>1 DEF vars, allVars, courseVars
  <2>2. CASE Next
    <3>1. ~ LockedChange /\ ~ Announce
      BY <1>1 DEF LockedChange, CodeChange, Archive, Delete, Announce, CreateCode, UpdateCode,
                  RevokeCode, RemoveMember, LockActiveCourse
    <3>2. \A q \in Requests : ~ InsertCourse(q)
      BY <1>1 DEF InsertCourse
    <3>3. \A q \in Requests :
             ~ (Invite(q) \/ AddMember(q) \/ Join(q) \/ File(q) \/ Answer(q))
      BY <1>1, WritersFindTheCourse
    <3>4. ASSUME ExpireCode
          PROVE  /\ UNCHANGED <<course, owner, rosterVars, records>>
                 /\ Len(codes') = Len(codes)
                 /\ \A i \in DOMAIN codes : codes'[i] # codes[i] => codes'[i] = "EXPIRED"
      <4>1. PICK i \in DOMAIN codes : codes' = [codes EXCEPT ![i] = "EXPIRED"]
        BY <1>1, <3>4, CurrentIsACode DEF ExpireCode, CourseInv
      <4>2. codes \in Seq(Code) /\ "EXPIRED" \in Code
        BY <1>1 DEF CourseInv, Rows, Code
      <4>3. Len(codes') = Len(codes)
        BY <4>1, <4>2, CodeChanged
      <4> QED
        BY <3>4, <4>1, <4>2, <4>3 DEF ExpireCode
    <3> QED
      BY <1>1, <2>2, <3>1, <3>2, <3>3, <3>4, WhoChanges
  <2> QED
    BY <1>1, <2>1, <2>2
<1> QED
  BY <1>1, CourseInvariant, PTL DEF Spec, ArchivedCourseIsReadOnly

\* A deletion that found no dependent row takes none with it.
THEOREM DeletionTakesNothing == Spec => DeletionLosesNothing
<1>1. ASSUME CourseInv, [Next]_vars, course' = "NONE", course # "NONE"
      PROVE  UNCHANGED <<rosterVars, codes, records>>
  <2>1. CASE UNCHANGED vars
    BY <1>1, <2>1 DEF vars, allVars, courseVars
  <2>2. CASE Next
    <3>1. ASSUME NEW q \in Requests, InsertCourse(q)
          PROVE  course' = "ACTIVE"
      BY <3>1 DEF InsertCourse
    <3>2. ASSUME NEW q \in Requests, Invite(q) \/ AddMember(q) \/ Join(q)
          PROVE  course' = course
      BY <3>2 DEF Invite, AddMember, Join
    <3>3. ASSUME NEW q \in Requests, File(q) \/ Answer(q)
          PROVE  course' = course
      BY <3>3 DEF File, Answer, courseVars
    <3>4. ASSUME LockedChange
          PROVE  Delete
      BY <1>1, <3>4 DEF LockedChange, CodeChange, Archive, Announce, CreateCode, UpdateCode,
                        RevokeCode, RemoveMember
    <3>5. ~ ExpireCode
      BY <1>1 DEF ExpireCode
    <3>6. Delete
      BY <1>1, <2>2, <3>1, <3>2, <3>3, <3>4, <3>5, WhoChanges
    <3> QED
      BY <3>6 DEF Delete
  <2> QED
    BY <1>1, <2>1, <2>2
<1>2. CourseInv => (course = "NONE" => records = {} /\ \A u \in Users : membership[u] = "NONE")
  BY DEF CourseInv, NoneIsEmpty
<1> QED
  BY <1>1, <1>2, CourseInvariant, PTL DEF Spec, DeletionLosesNothing

\* A code that is revoked between the look at it and the membership admits nobody:
\* the one who joins has the course, and nobody revokes without it.
THEOREM RevokedCodeIsNoEntry == Spec => RevokedCodeAdmitsNobody
<1>1. ASSUME CourseInv, [Next]_vars,
             NEW q \in Requests, NEW u \in Users,
             Is(q, "JOIN", "course") \/ Is(q, "JOIN", "key"),
             membership[u] # "ACTIVE", membership'[u] = "ACTIVE"
      PROVE  codes'[requests[q].code] # "REVOKED"
  <2>1. codes[requests[q].code] # "REVOKED"
    BY <1>1 DEF CourseInv, FoundLasts, Is
  <2>2. codes' = codes
    <3>1. ASSUME UNCHANGED <<course, owner, rosterVars, codes, asks>>
          PROVE  codes' = codes
      BY <3>1
    <3>2. ~ LockedChange
      <4>1. CASE Archive \/ Delete \/ Announce
        BY <1>1, <4>1 DEF Archive, Delete, Announce, rosterVars
      <4>2. ASSUME NEW p \in Requests, CodeChange(p)
            PROVE  FALSE
        BY <1>1, <4>2 DEF CodeChange, CreateCode, UpdateCode, RevokeCode, rosterVars
      <4>3. ASSUME NEW v \in Enrolled, RemoveMember(v)
            PROVE  FALSE
        BY <1>1, <4>3 DEF RemoveMember, CourseInv, Rows
      <4> QED
        BY <4>1, <4>2, <4>3 DEF LockedChange
    <3>3. ~ ExpireCode
      BY <1>1 DEF ExpireCode, rosterVars
    <3>4. ASSUME NEW p \in Requests,
                 InsertCourse(p) \/ Invite(p) \/ AddMember(p) \/ Join(p) \/ File(p) \/ Answer(p)
          PROVE  codes' = codes
      BY <3>4 DEF InsertCourse, Invite, AddMember, Join, File, Answer, courseVars
    <3>5. CASE UNCHANGED vars
      BY <3>5 DEF vars, allVars, courseVars
    <3> QED
      BY <1>1, <3>1, <3>2, <3>3, <3>4, <3>5, WhoChanges
  <2> QED
    BY <2>1, <2>2
<1>2. CourseInv /\ [Next]_vars =>
        (\A q \in Requests : \A u \in Users :
            /\ Is(q, "JOIN", "course") \/ Is(q, "JOIN", "key")
            /\ requests[q].user = u
            /\ membership[u] # "ACTIVE" /\ membership'[u] = "ACTIVE"
            => codes'[requests[q].code] # "REVOKED")
  BY <1>1
<1> QED
  BY <1>2, CourseInvariant, PTL DEF Spec, RevokedCodeAdmitsNobody

\* A request is filed about the result that is shown, as the only open one on it, in
\* an active course by an active member, and is answered once.
THEOREM RequestsKeepTheirOrder == Spec => RequestsAreInOrder
<1>1. CourseInv => OneOpenRequest
  BY DEF CourseInv
<1>2. ASSUME CourseInv, [Next]_vars
      PROVE  \/ UNCHANGED asks
             \/ \E q \in Requests : File(q) \/ Answer(q)
  BY <1>2, WhoChanges DEF vars
<1>3. ASSUME CourseInv, NEW q \in Requests, File(q)
      PROVE  /\ asks' = Append(asks, [result |-> result, status |-> "OPEN"])
             /\ shown /\ course = "ACTIVE" /\ membership[Student] = "ACTIVE"
             /\ result \in 1..MaxResults
  <2>1. /\ requests[q] # Idle /\ requests[q].op = "FILE" /\ requests[q].phase # "begun"
        /\ requests[q].result = result /\ shown
        /\ asks' = Append(asks, [result |-> result, status |-> "OPEN"])
    BY <1>3 DEF File
  <2>2. Is(q, "FILE", "shared") /\ result \in 1..MaxResults
    BY <1>3, <2>1, RequestFields DEF CourseInv, Is
  <2> QED
    BY <1>3, <2>1, <2>2, WritersFindTheCourse DEF CourseInv, FoundLasts
<1>4. ASSUME CourseInv, NEW q \in Requests, Answer(q)
      PROVE  /\ Len(asks') = Len(asks)
             /\ \A i \in DOMAIN asks : asks[i].status # "OPEN" => asks'[i] = asks[i]
  <2>1. asks[requests[q].ask].status = "OPEN"
    BY <1>4 DEF Answer
  <2>2. PICK status \in Answers : asks' = [asks EXCEPT ![requests[q].ask].status = status]
    BY <1>4 DEF Answer
  <2>3. asks \in Seq(Ask)
    BY <1>4 DEF CourseInv, Rows
  <2> QED
    BY <2>1, <2>2, <2>3
<1>5. ASSUME CourseInv, [Next]_vars, Len(asks') > Len(asks)
      PROVE  /\ asks'[Len(asks')].result = result /\ shown
             /\ course = "ACTIVE" /\ membership[Student] = "ACTIVE"
  <2>1. PICK q \in Requests : File(q)
    BY <1>2, <1>4, <1>5
  <2>2. asks \in Seq(Ask)
    BY <1>5 DEF CourseInv, Rows
  <2>3. asks'[Len(asks')] = [result |-> result, status |-> "OPEN"]
    BY <1>3, <1>5, <2>1, <2>2
  <2> QED
    BY <1>3, <1>5, <2>1, <2>3
<1>6. ASSUME CourseInv, [Next]_vars, NEW i \in DOMAIN asks, asks[i].status # "OPEN"
      PROVE  asks'[i] = asks[i]
  <2>1. ASSUME NEW q \in Requests, File(q)
        PROVE  asks'[i] = asks[i]
    <3> DEFINE new == [result |-> result, status |-> "OPEN"]
    <3>1. asks' = Append(asks, new) /\ new \in Ask
      BY <1>3, <1>6, <2>1 DEF Ask
    <3> HIDE DEF new
    <3> QED
      BY <1>6, <3>1 DEF CourseInv, Rows
  <2> QED
    BY <1>2, <1>4, <1>6, <2>1
<1>7. CourseInv /\ [Next]_vars =>
        (\A i \in DOMAIN asks : asks[i].status # "OPEN" => asks'[i] = asks[i])
  BY <1>6
<1> QED
  BY <1>1, <1>5, <1>7, CourseInvariant, PTL
     DEF Spec, RequestsAreInOrder, FiledAboutShownResult, AnswersAreFinal

-------------------------------------------------------------------------------
(* Circles of transactions that wait.                                      *)

\* The locks have an order: those of addresses and rubrics, the course, and then the
\* rows and keys of accounts. Who is waited for has passed the locks of the first kind,
\* and unless it has such a lock, the course as well.
LEMMA WaitedForIsAhead ==
    ASSUME CourseInv, NEW q \in Requests, NEW p \in Requests, WaitsFor(q, p)
    PROVE  /\ ~ WantsAddress(p) /\ ~ WantsRubric(p)
           /\ ~ WantsAddress(q) /\ ~ WantsRubric(q) => ~ WantsCourse(p) /\ ~ WantsShare(p)
<1>1. PICK lock \in holds[p] : Wants(q, lock)
  BY DEF WaitsFor
<1>2. TookItsLocks(p) /\ Rows
  BY DEF CourseInv
<1>3. CASE WantsAddress(q) /\ lock = Address(requests[q].from)
  <2>1. requests[q].from \in Addresses
    BY <1>2, <1>3, RequestFields DEF WantsAddress, Is
  <2> QED
    BY <1>1, <1>2, <1>3, <2>1 DEF TookItsLocks, In, WantsAddress, WantsRubric, Is
<1>4. CASE WantsRubric(q) /\ lock = Rubric
  BY <1>1, <1>2, <1>4 DEF TookItsLocks, In, WantsAddress, WantsRubric, Is
<1>5. CASE lock \in {Course, Share}
  BY <1>1, <1>2, <1>5 DEF TookItsLocks, HasCourseAlone, SharesTheCourse, In, WantsAddress,
                          WantsRubric, WantsCourse, WantsShare, Is
<1>6. CASE /\ WantsRow(q) \/ WantsKey(q)
           /\ lock \in {Row(requests[q].user), Key(requests[q].user)}
  <2>1. requests[q].user \in Users
    BY <1>2, <1>6, RequestFields DEF WantsRow, WantsKey, Is
  <2>2. In(p, {"ADD", "ROLES"}, {"row", "key"})
        \/ In(p, {"ADD", "JOIN", "ROLES", "CREATE"}, {"key"})
    BY <1>1, <1>2, <1>6, <2>1 DEF TookItsLocks
  <2> QED
    BY <2>2 DEF In, WantsAddress, WantsRubric, WantsCourse, WantsShare, Is
<1> QED
  BY <1>1, <1>3, <1>4, <1>5, <1>6 DEF Wants

\* Whatever locks a transaction has when it waits for the course, a join limit or a
\* rubric, it is in no circle of transactions, of any length; those over the row and
\* the key of an account may be.
THEOREM NothingElseIsInCircles == Spec => []OnlyAccountsAreInCircles
<1>1. ASSUME CourseInv PROVE OnlyAccountsAreInCircles
  <2> SUFFICES ASSUME NEW q \in Requests, NEW p \in Requests,
                      WaitsFor(q, p), ~ WantsRow(q), ~ WantsKey(q)
               PROVE  NoWayBack(p, q)
    BY DEF OnlyAccountsAreInCircles
  <2> DEFINE pastLimits == {x \in Requests : ~ WantsAddress(x) /\ ~ WantsRubric(x)}
             pastCourse == {x \in pastLimits : ~ WantsCourse(x) /\ ~ WantsShare(x)}
  <2>1. /\ \A x \in pastLimits, y \in Requests : WaitsFor(x, y) => y \in pastLimits
        /\ \A x \in pastCourse, y \in Requests : WaitsFor(x, y) => y \in pastCourse
    BY <1>1, WaitedForIsAhead
  <2>2. CASE WantsAddress(q) \/ WantsRubric(q)
    <3>1. p \in pastLimits /\ q \notin pastLimits
      BY <1>1, <2>2, WaitedForIsAhead
    <3> QED
      BY <2>1, <3>1 DEF NoWayBack
  <2>3. CASE ~ WantsAddress(q) /\ ~ WantsRubric(q)
    <3>1. WantsCourse(q) \/ WantsShare(q)
      BY <2>3 DEF WaitsFor, Wants
    <3>2. p \in pastCourse /\ q \notin pastCourse
      BY <1>1, <2>3, <3>1, WaitedForIsAhead
    <3> QED
      BY <2>1, <3>2 DEF NoWayBack
  <2> QED
    BY <2>2, <2>3
<1>2. CourseInv => OnlyAccountsAreInCircles
  BY <1>1
<1> QED
  BY <1>2, CourseInvariant, PTL
===============================================================================
