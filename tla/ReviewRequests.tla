---------------------------- MODULE ReviewRequests ----------------------------
(***************************************************************************)
(* Review requests of one student about the results of one submission      *)
(* (services/appeal.py), beside everything that may happen to the course.  *)
(* Filing and answering share the row of the course until they commit; the *)
(* rows of the submission, its document and its result, and the row of a   *)
(* request, are locked and written in one step. One criterion stands for   *)
(* the target, which a finding of it names as well.                        *)
(***************************************************************************)
EXTENDS CourseRoster

CONSTANTS
    Student,     \* one of Users
    Answers,     \* RESOLVED and REJECTED
    MaxResults,  \* bound on the published results
    MaxAsks      \* bound on the review requests

ASSUME StudentAssumption == Student \in Users /\ MaxResults \in Nat /\ MaxAsks \in Nat

VARIABLES
    result,  \* PublishedResultVersion.version_number of the latest, 0 for none
    shown,   \* the document of that result is PUBLISHED
    asks     \* ReviewRequest rows, oldest first

resultVars == <<result, shown>>
vars == <<allVars, resultVars, asks>>

\* "shared" holds a share of the row of the course.
AskRequest ==
    [op : {"FILE"}, result : 1..MaxResults, phase : {"begun", "shared"}]
    \union [op : {"ANSWER"}, ask : 1..MaxAsks, phase : {"begun", "shared"}]

ASSUME IdleAssumption == Idle \notin RosterRequest \union AskRequest

Ask == [result : 1..MaxResults, status : Answers \union {"OPEN"}]

TypeOK ==
    /\ RosterTypeOK
    /\ \A q \in Requests : requests[q] \in RosterRequest \union AskRequest \union {Idle}
    /\ result \in 0..MaxResults
    /\ shown \in BOOLEAN
    /\ asks \in Seq(Ask) /\ Len(asks) <= MaxAsks

Init ==
    /\ RosterInit
    /\ result = 0
    /\ shown = FALSE
    /\ asks = <<>>

-------------------------------------------------------------------------------
(* What happens to the results meanwhile (services/review.py).             *)

\* A publication, of this document again or of a newer one, and a withdrawal: the
\* commands share the row of the course and refuse an archived one.
Publish ==
    /\ course = "ACTIVE" /\ Free(Course)
    /\ result < MaxResults
    /\ membership[Student] # "NONE"
    /\ result' = result + 1
    /\ shown' = TRUE
    /\ UNCHANGED <<allVars, asks>>

Unpublish ==
    /\ course = "ACTIVE" /\ Free(Course)
    /\ shown
    /\ shown' = FALSE
    /\ UNCHANGED <<allVars, result, asks>>

-------------------------------------------------------------------------------
(* create_review_request and respond_review_request.                       *)

\* The student names a result that exists; nothing is locked yet.
BeginFile(q, r) ==
    /\ roles[Student] = {"STUDENT"}
    /\ r \in 1..result
    /\ Start(q, [op |-> "FILE", result |-> r, phase |-> "begun"], {})
    /\ UNCHANGED <<courseVars, roles, resultVars, asks>>

BeginAnswer(q, i) ==
    /\ i \in DOMAIN asks
    /\ Start(q, [op |-> "ANSWER", ask |-> i, phase |-> "begun"], {})
    /\ UNCHANGED <<courseVars, roles, resultVars, asks>>

MayAsk(q) == requests[q].op = "FILE" => membership[Student] = "ACTIVE"

\* _load_request_context and lock_course: the course as it is under the lock, and
\* the membership, which nobody changes without the row of the course.
ShareCourse(q) ==
    /\ Is(q, "FILE", "begun") \/ Is(q, "ANSWER", "begun")
    /\ Unblocked(q)
    /\ course = "ACTIVE" /\ MayAsk(q)
    /\ Advance(q, "shared", {Share})
    /\ UNCHANGED <<courseVars, roles, resultVars, asks>>

\* Mutant: a second request on the same result while the first is open.
FileAgain(q) ==
    /\ requests[q] # Idle /\ requests[q].op = "FILE" /\ requests[q].phase # "begun"
    /\ shown
    /\ requests[q].result = result
    /\ Len(asks) < MaxAsks
    /\ asks' = Append(asks, [result |-> result, status |-> "OPEN"])
    /\ End(q)
    /\ UNCHANGED <<courseVars, roles, resultVars>>

\* Mutant: any result of the submission may be asked about.
FileAboutAny(q) ==
    LET r == requests[q].result IN
    /\ Is(q, "FILE", "shared")
    /\ shown
    /\ \A i \in DOMAIN asks : asks[i] # [result |-> r, status |-> "OPEN"]
    /\ Len(asks) < MaxAsks
    /\ asks' = Append(asks, [result |-> r, status |-> "OPEN"])
    /\ End(q)
    /\ UNCHANGED <<courseVars, roles, resultVars>>

\* The document is PUBLISHED, the result is its latest and no request on it is
\* open. A newer document and the end of the seven days are refusals too.
File(q) ==
    /\ requests[q] # Idle /\ requests[q].op = "FILE" /\ requests[q].phase # "begun"
    /\ shown
    /\ requests[q].result = result
    /\ \A i \in DOMAIN asks : asks[i] # [result |-> result, status |-> "OPEN"]
    /\ Len(asks) < MaxAsks
    /\ asks' = Append(asks, [result |-> result, status |-> "OPEN"])
    /\ End(q)
    /\ UNCHANGED <<courseVars, roles, resultVars>>

\* Mutant: the status is the one that was loaded without a lock.
AnswerAgain(q) ==
    /\ requests[q] # Idle /\ requests[q].op = "ANSWER" /\ requests[q].phase # "begun"
    /\ \E status \in Answers :
          asks' = [asks EXCEPT ![requests[q].ask].status = status]
    /\ End(q)
    /\ UNCHANGED <<courseVars, roles, resultVars>>

\* The row of the request is locked and must be OPEN.
Answer(q) ==
    /\ requests[q] # Idle /\ requests[q].op = "ANSWER" /\ requests[q].phase # "begun"
    /\ asks[requests[q].ask].status = "OPEN"
    /\ \E status \in Answers :
          asks' = [asks EXCEPT ![requests[q].ask].status = status]
    /\ End(q)
    /\ UNCHANGED <<courseVars, roles, resultVars>>

-------------------------------------------------------------------------------

AskNext ==
    \/ Publish \/ Unpublish
    \/ \E q \in Requests :
          \/ \E r \in 1..MaxResults : BeginFile(q, r)
          \/ \E i \in 1..MaxAsks : BeginAnswer(q, i)
          \/ ShareCourse(q) \/ File(q) \/ Answer(q)

Next ==
    \/ RosterNext /\ UNCHANGED <<resultVars, asks>>
    \/ AskNext

Spec == Init /\ [][Next]_vars

-------------------------------------------------------------------------------
(* Properties.                                                             *)

\* Migration 0002: whoever is or was on the roster is a student, and the owner of
\* a course a teacher, whatever an administrator changes in the meantime.
RolesBackTheCourse ==
    /\ \A u \in Users : membership[u] # "NONE" => "STUDENT" \in roles[u]
    /\ course # "NONE" => "TEACHER" \in roles[owner]

\* BR-J, BR-J2, BR-30: an archived course keeps its roster, its invites, its codes
\* (but for their expiry), its announcements and its requests, also when they were
\* about to change as it was archived. An assignment may still appear.
ArchivedCourseIsReadOnly ==
    [][course = "ARCHIVED" =>
          /\ course' = "ARCHIVED"
          /\ UNCHANGED <<owner, rosterVars, asks>>
          /\ Len(codes') = Len(codes)
          /\ \A i \in DOMAIN codes : codes'[i] # codes[i] => codes'[i] = "EXPIRED"
          /\ records' \ records \subseteq {"assignment"}]_vars

\* "Course has dependent records; archive it instead": a deletion takes no row with
\* it, not even one whose transaction was open when it looked.
DeletionLosesNothing ==
    /\ [][course' = "NONE" /\ course # "NONE" =>
              UNCHANGED <<rosterVars, codes, records>>]_vars
    /\ [](course = "NONE" => records = {} /\ \A u \in Users : membership[u] = "NONE")

\* BR-J2: "revoke takes effect at once": nobody enters by a code that was revoked
\* between the look at it and the membership.
RevokedCodeAdmitsNobody ==
    [][\A q \in Requests : \A u \in Users :
          /\ Is(q, "JOIN", "course") \/ Is(q, "JOIN", "key")
          /\ requests[q].user = u
          /\ membership[u] # "ACTIVE" /\ membership'[u] = "ACTIVE"
          => codes'[requests[q].code] # "REVOKED"]_vars

\* p does not wait for q, not through others either: a set of transactions that wait
\* for none outside it has p and leaves q out.
NoWayBack(p, q) ==
    \E waiting \in SUBSET Requests :
        /\ p \in waiting /\ q \notin waiting
        /\ \A x \in waiting, y \in Requests : WaitsFor(x, y) => y \in waiting

\* A join and a role change may wait for each other over the row and the key of an
\* account, which they take in different orders; PostgreSQL ends that. No other wait is
\* in a circle: who waits for the course, a join limit or a rubric, having other locks
\* already, is waited for by none of those that hold it up.
OnlyAccountsAreInCircles ==
    \A q, p \in Requests :
        WaitsFor(q, p) /\ ~ WantsRow(q) /\ ~ WantsKey(q) => NoWayBack(p, q)

\* BR-30 and the unique index of open targets: a student has one open request on a
\* result, whatever tabs file at once.
OneOpenRequest ==
    \A i, j \in DOMAIN asks :
        asks[i].status = "OPEN" /\ asks[j] = asks[i] => i = j

\* BR-30: a request is about the result the student sees as it is filed, in a course
\* of which they are an active member.
FiledAboutShownResult ==
    [][Len(asks') > Len(asks) =>
          /\ asks'[Len(asks')].result = result /\ shown
          /\ course = "ACTIVE" /\ membership[Student] = "ACTIVE"]_vars

\* An answer is given once: the second of two teachers finds the request terminal.
AnswersAreFinal ==
    [][\A i \in DOMAIN asks : asks[i].status # "OPEN" => asks'[i] = asks[i]]_vars

\* The requests of a student are filed about what is shown, one at a time, and
\* answered once (appeal.py:264, appeal.py:693).
RequestsAreInOrder == []OneOpenRequest /\ FiledAboutShownResult /\ AnswersAreFinal
===============================================================================
