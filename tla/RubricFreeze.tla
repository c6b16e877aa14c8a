----------------------------- MODULE RubricFreeze -----------------------------
(***************************************************************************)
(* Assignments, the rubric they grade by, and the freeze of that rubric by *)
(* the first submission (services/assignment.py, services/rubric.py and    *)
(* the triggers of migrations 0002 and 0018).                              *)
(*                                                                         *)
(* A request is a transaction at READ COMMITTED. It loads its row without  *)
(* a lock and decides on what it loaded; the locks come later, with the    *)
(* statement that writes: row locks on assignments, and the advisory locks *)
(* fn_domain_lock takes in the triggers, all kept until the request ends.  *)
(***************************************************************************)
EXTENDS Integers, FiniteSetsExt

CONSTANTS
    Assignments,  \* a set of numbers: the order of assignments.id
    Rubrics,
    Criteria,     \* the criteria of a rubric; weight 0 stands for disabled
    Full,         \* the total weight of a complete rubric (100.00)
    Requests,     \* requests that overlap
    Free,         \* nobody holds the lock
    Idle          \* no request

ASSUME RubricConstants ==
    /\ Assignments \subseteq Nat /\ IsFiniteSet(Assignments)
    /\ Full \in Nat \ {0}
    /\ Free \notin Requests

VARIABLES
    status,         \* Assignment.status; "NONE" is no row
    rubric,         \* Assignment.rubric_version_id
    first,          \* Assignment.first_submission_at is set
    weights,        \* CriterionVersion.weight of the enabled criteria
    total,          \* RubricVersion.total_weight
    requests,       \* the requests in progress, with what they loaded
    rowLock,        \* row locks on assignments
    rubricLock,     \* advisory locks 'rubric:<id>'
    assignmentLock  \* advisory locks 'assignment:<id>'

assignmentVars == <<status, rubric, first>>
rubricVars == <<weights, total>>
locks == <<rowLock, rubricLock, assignmentLock>>
vars == <<assignmentVars, rubricVars, requests, locks>>

Weight == 0..Full

\* "loaded" has read its row, "summed" the criteria, "row" holds the row lock
\* of its assignment, "rubric" the rubric's lock, with the assignments whose
\* locks are still to be taken in "todo".
Request ==
    [op : {"EDIT", "PUBLISH", "CLOSE", "DELETE", "SUBMIT"}, assignment : Assignments,
     rubric : Rubrics, phase : {"loaded", "summed", "row", "rubric"}]
    \union
    [op : {"CRITERION"}, rubric : Rubrics, criterion : Criteria, weight : Weight,
     change : Int, total : Weight, phase : {"loaded", "rubric"}, todo : SUBSET Assignments]

ASSUME IdleIsNoRequest == Idle \notin Request

TypeOK ==
    /\ status \in [Assignments -> {"NONE", "DRAFT", "OPEN", "CLOSED"}]
    /\ rubric \in [Assignments -> Rubrics]
    /\ first \in [Assignments -> BOOLEAN]
    /\ weights \in [Rubrics -> [Criteria -> Weight]]
    /\ total \in [Rubrics -> Weight]
    /\ \A q \in Requests : requests[q] = Idle \/ requests[q] \in Request
    /\ rowLock \in [Assignments -> Requests \union {Free}]
    /\ rubricLock \in [Rubrics -> Requests \union {Free}]
    /\ assignmentLock \in [Assignments -> Requests \union {Free}]

Init ==
    /\ status = [a \in Assignments |-> "NONE"]
    /\ rubric \in [Assignments -> Rubrics]
    /\ first = [a \in Assignments |-> FALSE]
    /\ weights = [r \in Rubrics |-> [c \in Criteria |-> 0]]
    /\ total = [r \in Rubrics |-> 0]
    /\ requests = [q \in Requests |-> Idle]
    /\ rowLock = [a \in Assignments |-> Free]
    /\ rubricLock = [r \in Rubrics |-> Free]
    /\ assignmentLock = [a \in Assignments |-> Free]

-------------------------------------------------------------------------------
(* Transactions.                                                           *)

Sum(r) == MapThenSumSet(LAMBDA c : weights[r][c], Criteria)

Start(q, request) ==
    /\ requests[q] = Idle
    /\ requests' = [requests EXCEPT ![q] = request]

\* Commit or rollback: the locks of the request are released.
End(q) ==
    LET Released(lock) == [x \in DOMAIN lock |-> IF lock[x] = q THEN Free ELSE lock[x]]
    IN /\ requests' = [requests EXCEPT ![q] = Idle]
       /\ rowLock' = Released(rowLock)
       /\ rubricLock' = Released(rubricLock)
       /\ assignmentLock' = Released(assignmentLock)

\* fn_domain_lock: an advisory lock is free for whoever holds it already.
Available(lock, x, q) == lock[x] \in {Free, q}

\* A lost connection, or an error: nothing of the request is left.
Rollback(q) ==
    /\ requests[q] # Idle
    /\ End(q)
    /\ UNCHANGED <<assignmentVars, rubricVars>>

Is(q, op, phase) ==
    /\ requests[q] # Idle
    /\ requests[q].op = op
    /\ requests[q].phase = phase

-------------------------------------------------------------------------------
(* services/assignment.py                                                  *)

\* create_assignment: the insert waits for the lock of its rubric.
Create(a, r) ==
    /\ status[a] = "NONE"
    /\ rubricLock[r] = Free
    /\ status' = [status EXCEPT ![a] = "DRAFT"]
    /\ rubric' = [rubric EXCEPT ![a] = r]
    /\ UNCHANGED <<first, rubricVars, requests, locks>>

\* _get_assignment_with_ownership and the status check of the operation.
Load(q, a, r) ==
    /\ \/ /\ status[a] = "DRAFT"
          /\ \E op \in {"EDIT", "PUBLISH", "DELETE"} :
                /\ op = "EDIT" => r # rubric[a]
                /\ Start(q, [op |-> op, assignment |-> a, rubric |-> r, phase |-> "loaded"])
       \/ /\ status[a] = "OPEN"
          /\ Start(q, [op |-> "CLOSE", assignment |-> a, rubric |-> r, phase |-> "loaded"])
    /\ UNCHANGED <<assignmentVars, rubricVars, locks>>

\* publish_assignment sums the weights of the rubric it loaded, or refuses.
Total(q) ==
    LET a == requests[q].assignment IN
    /\ Is(q, "PUBLISH", "loaded")
    /\ IF Sum(rubric[a]) = Full
       THEN /\ requests' = [requests EXCEPT ![q].phase = "summed"]
            /\ UNCHANGED locks
       ELSE End(q)
    /\ UNCHANGED <<assignmentVars, rubricVars>>

\* The row is written by its key: its status may have changed since the load.
\* A row that is gone raises StaleDataError.
Write(q, value) ==
    LET a == requests[q].assignment IN
    /\ rowLock[a] = Free
    /\ IF status[a] = "NONE" THEN UNCHANGED status
       ELSE status' = [status EXCEPT ![a] = value]
    /\ End(q)
    /\ UNCHANGED <<rubric, first, rubricVars>>

\* ck_assignments_publication_state: a row with closed_at cannot be OPEN.
Publish(q) ==
    /\ Is(q, "PUBLISH", "summed")
    /\ Write(q, IF status[requests[q].assignment] = "CLOSED" THEN "CLOSED" ELSE "OPEN")

Close(q) == Is(q, "CLOSE", "loaded") /\ Write(q, "CLOSED")

\* Submissions keep their assignment (fk_submissions_assignment_id, RESTRICT).
Delete(q) ==
    /\ Is(q, "DELETE", "loaded")
    /\ Write(q, IF first[requests[q].assignment] THEN status[requests[q].assignment] ELSE "NONE")

\* update_assignment changes the rubric: PostgreSQL locks the row, then
\* fn_immut_assignment_rubric takes the lock of the new rubric ...
LockRow(q) ==
    /\ Is(q, "EDIT", "loaded")
    /\ rowLock[requests[q].assignment] = Free
    /\ rowLock' = [rowLock EXCEPT ![requests[q].assignment] = q]
    /\ requests' = [requests EXCEPT ![q].phase = "row"]
    /\ UNCHANGED <<assignmentVars, rubricVars, rubricLock, assignmentLock>>

LockNewRubric(q) ==
    /\ Is(q, "EDIT", "row")
    /\ Available(rubricLock, requests[q].rubric, q)
    /\ rubricLock' = [rubricLock EXCEPT ![requests[q].rubric] = q]
    /\ requests' = [requests EXCEPT ![q].phase = "rubric"]
    /\ UNCHANGED <<assignmentVars, rubricVars, rowLock, assignmentLock>>

\* ... and of the assignment, and refuses after the first submission.
Edit(q) ==
    LET a == requests[q].assignment IN
    /\ Is(q, "EDIT", "rubric")
    /\ Available(assignmentLock, a, q)
    /\ IF status[a] = "NONE" \/ first[a] THEN UNCHANGED rubric
       ELSE rubric' = [rubric EXCEPT ![a] = requests[q].rubric]
    /\ End(q)
    /\ UNCHANGED <<status, first, rubricVars>>

\* initiate_upload locks the row of an OPEN assignment; the insert of the first
\* submission then takes the assignment's lock and sets the mark
\* (fn_validate_submission_student).
LockForSubmission(q, a) ==
    /\ status[a] = "OPEN"
    /\ rowLock[a] = Free
    /\ rowLock' = [rowLock EXCEPT ![a] = q]
    /\ Start(q, [op |-> "SUBMIT", assignment |-> a, rubric |-> rubric[a], phase |-> "row"])
    /\ UNCHANGED <<assignmentVars, rubricVars, rubricLock, assignmentLock>>

\* Mutant: the trigger sets the mark without the assignment's lock.
SubmitUnlocked(q) ==
    /\ Is(q, "SUBMIT", "row")
    /\ first' = [first EXCEPT ![requests[q].assignment] = TRUE]
    /\ End(q)
    /\ UNCHANGED <<status, rubric, rubricVars>>

Submit(q) ==
    /\ Is(q, "SUBMIT", "row")
    /\ Available(assignmentLock, requests[q].assignment, q)
    /\ first' = [first EXCEPT ![requests[q].assignment] = TRUE]
    /\ End(q)
    /\ UNCHANGED <<status, rubric, rubricVars>>

-------------------------------------------------------------------------------
(* services/rubric.py                                                      *)

\* add_criterion, update_criterion and delete_criterion: the rubric and the
\* criterion are loaded, their weights read from what was loaded.
LoadCriterion(q, r, c, w) ==
    /\ w # weights[r][c]
    /\ Start(q, [op |-> "CRITERION", rubric |-> r, criterion |-> c, weight |-> w,
                 change |-> w - weights[r][c], total |-> total[r],
                 phase |-> "loaded", todo |-> {}])
    /\ UNCHANGED <<assignmentVars, rubricVars, locks>>

\* fn_assert_criterion_parent_mutable: the rubric's lock, then the locks of the
\* assignments it finds, in the order of their ids, looking at each mark.
LockRubric(q) ==
    LET r == requests[q].rubric IN
    /\ Is(q, "CRITERION", "loaded")
    /\ Available(rubricLock, r, q)
    /\ rubricLock' = [rubricLock EXCEPT ![r] = q]
    /\ requests' = [requests EXCEPT ![q].phase = "rubric",
          ![q].todo = {a \in Assignments : status[a] # "NONE" /\ rubric[a] = r}]
    /\ UNCHANGED <<assignmentVars, rubricVars, rowLock, assignmentLock>>

\* Mutant: the rows of the assignments are locked too.
LockNextRow(q) ==
    LET a == Min(requests[q].todo) IN
    /\ Is(q, "CRITERION", "rubric")
    /\ requests[q].todo # {}
    /\ Available(assignmentLock, a, q) /\ Available(rowLock, a, q)
    /\ IF first[a] THEN End(q)
       ELSE /\ assignmentLock' = [assignmentLock EXCEPT ![a] = q]
            /\ rowLock' = [rowLock EXCEPT ![a] = q]
            /\ requests' = [requests EXCEPT ![q].todo = @ \ {a}]
            /\ UNCHANGED rubricLock
    /\ UNCHANGED <<assignmentVars, rubricVars>>

LockNextAssignment(q) ==
    LET a == Min(requests[q].todo) IN
    /\ Is(q, "CRITERION", "rubric")
    /\ requests[q].todo # {}
    /\ Available(assignmentLock, a, q)
    /\ IF first[a] THEN End(q)
       ELSE /\ assignmentLock' = [assignmentLock EXCEPT ![a] = q]
            /\ requests' = [requests EXCEPT ![q].todo = @ \ {a}]
            /\ UNCHANGED <<rowLock, rubricLock>>
    /\ UNCHANGED <<assignmentVars, rubricVars>>

\* The criterion and total_weight += change; ck_rubric_versions_total_weight_range
\* refuses a total outside 0..100.
ChangeCriterion(q) ==
    LET r == requests[q].rubric
        sum == requests[q].total + requests[q].change
    IN
    /\ Is(q, "CRITERION", "rubric")
    /\ requests[q].todo = {}
    /\ IF sum \in Weight
       THEN /\ weights' = [weights EXCEPT ![r][requests[q].criterion] = requests[q].weight]
            /\ total' = [total EXCEPT ![r] = sum]
       ELSE UNCHANGED rubricVars
    /\ End(q)
    /\ UNCHANGED assignmentVars

-------------------------------------------------------------------------------

Progress(q) ==
    \/ Total(q) \/ Publish(q) \/ Close(q) \/ Delete(q)
    \/ LockRow(q) \/ LockNewRubric(q) \/ Edit(q)
    \/ Submit(q)
    \/ LockRubric(q) \/ LockNextAssignment(q) \/ ChangeCriterion(q)

Begin(q) ==
    \/ \E a \in Assignments, r \in Rubrics : Load(q, a, r)
    \/ \E a \in Assignments : LockForSubmission(q, a)
    \/ \E r \in Rubrics, c \in Criteria, w \in Weight : LoadCriterion(q, r, c, w)

Next ==
    \/ \E a \in Assignments, r \in Rubrics : Create(a, r)
    \/ \E q \in Requests : Begin(q) \/ Progress(q) \/ Rollback(q)

Spec == Init /\ [][Next]_vars

-------------------------------------------------------------------------------
(* Properties.                                                             *)

\* BR-03, AT-03: from the first submission of an assignment on, the assignment
\* keeps its rubric and the rubric its criteria, whatever requests had loaded
\* before it and whichever locks they were waiting for; it is not a draft again
\* and does not disappear.
FrozenByFirstSubmission ==
    [][\A a \in Assignments : first[a] =>
          /\ status'[a] \notin {"NONE", "DRAFT"}
          /\ rubric'[a] = rubric[a]
          /\ weights'[rubric[a]] = weights[rubric[a]]]_vars

\* A request holds the lock that the next statement of another one takes.
WaitsFor(q, p) ==
    /\ p # q
    /\ \/ /\ \/ Is(q, "PUBLISH", "summed") \/ Is(q, "CLOSE", "loaded")
             \/ Is(q, "DELETE", "loaded") \/ Is(q, "EDIT", "loaded")
          /\ rowLock[requests[q].assignment] = p
       \/ /\ Is(q, "EDIT", "row") \/ Is(q, "CRITERION", "loaded")
          /\ rubricLock[requests[q].rubric] = p
       \/ /\ Is(q, "EDIT", "rubric") \/ Is(q, "SUBMIT", "row")
          /\ assignmentLock[requests[q].assignment] = p
       \/ /\ Is(q, "CRITERION", "rubric")
          /\ requests[q].todo # {}
          /\ assignmentLock[Min(requests[q].todo)] = p

\* The canonical lock order of migration 0002: however many requests there are,
\* they never wait for each other in a circle.
NobodyWaitsInACircle ==
    \A circle \in (SUBSET Requests) \ {{}} :
        \E q \in circle : \A p \in circle : ~ WaitsFor(q, p)

\* So one of those in progress can always go on or is refused: nothing holds a
\* request up but the locks of another one.
RequestsDoNotBlockEachOther ==
    /\ NobodyWaitsInACircle
    /\ \A q \in Requests :
          requests[q] # Idle /\ (\A p \in Requests : ~ WaitsFor(q, p)) => ENABLED Progress(q)

\* The three properties below are what the documents ask; the code does not keep
\* them before the first submission (README, section 8).

\* AT-02: an assignment opens with a rubric whose enabled weights total 100.
OpensWithCompleteRubric ==
    [][\A a \in Assignments :
          status[a] = "DRAFT" /\ status'[a] = "OPEN" => Sum(rubric[a]) = Full]_vars

\* "Only DRAFT assignments can be edited": an open assignment keeps its rubric.
OnlyDraftsAreEdited ==
    [][\A a \in Assignments : status[a] # "NONE" /\ rubric'[a] # rubric[a] =>
          status[a] = "DRAFT"]_vars

\* total_weight is the sum of the enabled weights.
TotalIsSumOfWeights == \A r \in Rubrics : total[r] = Sum(r)
===============================================================================
