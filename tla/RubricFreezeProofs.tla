-------------------------- MODULE RubricFreezeProofs --------------------------
(***************************************************************************)
(* Proofs about RubricFreeze. A criterion is changed by a request that has *)
(* the lock of its rubric and has passed every assignment that grades by   *)
(* it, each with no mark and with its lock taken. Nothing can join those   *)
(* assignments without the lock of the rubric, and none of them can get    *)
(* its mark without its own lock.                                          *)
(*                                                                         *)
(* That requests do not wait for each other in a circle: whoever is waited *)
(* for has a lock of an earlier kind than the one it waits for itself, and *)
(* a change of a criterion takes those of assignments in the order of      *)
(* their ids, so a circle would need ever later assignments.               *)
(***************************************************************************)
EXTENDS RubricFreeze, TLAPS, FiniteSetTheorems, WellFoundedInduction

Rows ==
    /\ TypeOK
    /\ requests \in [Requests -> Request \union {Idle}]

\* The locks that a request has by its phase.
LocksAreHeld ==
    \A q \in Requests :
        /\ Is(q, "SUBMIT", "row") => rowLock[requests[q].assignment] = q
        /\ Is(q, "EDIT", "rubric") \/ Is(q, "CRITERION", "rubric") =>
              rubricLock[requests[q].rubric] = q

\* The assignments a change of a criterion has passed.
PassedAreUnmarked ==
    \A q \in Requests, a \in Assignments :
        /\ Is(q, "CRITERION", "rubric")
        /\ status[a] # "NONE" /\ rubric[a] = requests[q].rubric
        /\ a \notin requests[q].todo
        => assignmentLock[a] = q /\ ~ first[a]

\* An assignment with a submission, or about to have its first, is no draft.
SubmittedAreNoDrafts ==
    /\ \A a \in Assignments : first[a] => status[a] \in {"OPEN", "CLOSED"}
    /\ \A q \in Requests :
          Is(q, "SUBMIT", "row") => status[requests[q].assignment] \in {"OPEN", "CLOSED"}

FreezeInv == Rows /\ LocksAreHeld /\ PassedAreUnmarked /\ SubmittedAreNoDrafts

-------------------------------------------------------------------------------
(* What a request carries, and what its end leaves.                        *)

\* What a request in progress carries.
LEMMA RequestFields ==
    ASSUME Rows, NEW q \in Requests, requests[q] # Idle
    PROVE  /\ requests[q] \in Request
           /\ requests[q].rubric \in Rubrics
           /\ requests[q].op # "CRITERION" => requests[q].assignment \in Assignments
           /\ requests[q].op = "CRITERION" => /\ requests[q].criterion \in Criteria
                                              /\ requests[q].weight \in Weight
                                              /\ requests[q].todo \subseteq Assignments
<1>1. requests[q] \in Request
  BY DEF Rows
<1> QED
  BY <1>1 DEF Request

\* The end of a request frees its own locks and no other.
LEMMA EndFacts ==
    ASSUME Rows, NEW q \in Requests, End(q)
    PROVE  /\ requests' \in [Requests -> Request \union {Idle}]
           /\ requests'[q] = Idle
           /\ \A p \in Requests \ {q} : requests'[p] = requests[p]
           /\ rowLock' \in [Assignments -> Requests \union {Free}]
           /\ rubricLock' \in [Rubrics -> Requests \union {Free}]
           /\ assignmentLock' \in [Assignments -> Requests \union {Free}]
           /\ \A a \in Assignments, p \in Requests \ {q} :
                 /\ rowLock[a] = p => rowLock'[a] = p
                 /\ assignmentLock[a] = p => assignmentLock'[a] = p
           /\ \A r \in Rubrics, p \in Requests \ {q} :
                 rubricLock[r] = p => rubricLock'[r] = p
BY DEF End, Rows, TypeOK

\* A start fills the place of one request.
LEMMA StartFacts ==
    ASSUME Rows, NEW q \in Requests, NEW request \in Request, Start(q, request)
    PROVE  /\ requests' \in [Requests -> Request \union {Idle}]
           /\ requests[q] = Idle
           /\ requests'[q] = request
           /\ \A p \in Requests \ {q} : requests'[p] = requests[p]
BY DEF Start, Rows

-------------------------------------------------------------------------------
(* Requests that end: theirs were the locks, and what the others have      *)
(* passed or are about to mark stays as it is.                             *)

\* An end keeps the rows well formed and the locks of the others.
LEMMA EndKeepsLocks ==
    ASSUME FreezeInv, NEW q \in Requests, End(q),
           status' \in [Assignments -> {"NONE", "DRAFT", "OPEN", "CLOSED"}],
           rubric' \in [Assignments -> Rubrics],
           first' \in [Assignments -> BOOLEAN],
           weights' \in [Rubrics -> [Criteria -> Weight]],
           total' \in [Rubrics -> Weight]
    PROVE  Rows' /\ LocksAreHeld'
<1> USE DEF FreezeInv
<1>1. Rows'
  BY EndFacts DEF Rows, TypeOK
<1>2. ASSUME NEW p \in Requests
      PROVE  /\ Is(p, "SUBMIT", "row")' => rowLock'[requests'[p].assignment] = p
             /\ Is(p, "EDIT", "rubric")' \/ Is(p, "CRITERION", "rubric")' =>
                   rubricLock'[requests'[p].rubric] = p
  <2>1. CASE p = q
    BY <2>1, EndFacts DEF Is
  <2>2. CASE p # q
    <3>1. requests'[p] = requests[p]
      BY <2>2, EndFacts
    <3>2. CASE requests[p] = Idle
      BY <3>1, <3>2 DEF Is
    <3>3. CASE requests[p] # Idle
      <4>1. /\ requests[p].rubric \in Rubrics
            /\ requests[p].op = "SUBMIT" => requests[p].assignment \in Assignments
        BY <3>3, RequestFields
      <4>2. ASSUME Is(p, "SUBMIT", "row")
            PROVE  rowLock'[requests[p].assignment] = p
        <5>1. requests[p].assignment \in Assignments /\ rowLock[requests[p].assignment] = p
          BY <4>1, <4>2 DEF LocksAreHeld, Is
        <5> QED
          BY <2>2, <5>1, EndFacts
      <4>3. ASSUME Is(p, "EDIT", "rubric") \/ Is(p, "CRITERION", "rubric")
            PROVE  rubricLock'[requests[p].rubric] = p
        <5>1. rubricLock[requests[p].rubric] = p
          BY <4>3 DEF LocksAreHeld
        <5> QED
          BY <2>2, <4>1, <5>1, EndFacts
      <4> QED
        BY <3>1, <4>2, <4>3 DEF Is
    <3> QED
      BY <3>2, <3>3
  <2> QED
    BY <2>1, <2>2
<1> QED
  BY <1>1, <1>2 DEF LocksAreHeld

\* An end that only changes the status, of no assignment with a submission or about
\* to have one, except to OPEN or CLOSED.
LEMMA EndAfterStatus ==
    ASSUME FreezeInv, NEW q \in Requests, End(q), UNCHANGED <<rubric, first>>,
           weights' \in [Rubrics -> [Criteria -> Weight]],
           total' \in [Rubrics -> Weight],
           status' \in [Assignments -> {"NONE", "DRAFT", "OPEN", "CLOSED"}],
           \A a \in Assignments :
              \/ status'[a] = status[a]
              \/ /\ status[a] # "NONE"
                 /\ \/ status'[a] \in {"OPEN", "CLOSED"}
                    \/ rowLock[a] = Free /\ ~ first[a]
    PROVE  FreezeInv'
<1> USE DEF FreezeInv
<1>1. Rows' /\ LocksAreHeld'
  BY EndKeepsLocks DEF Rows, TypeOK
<1>2. ASSUME NEW p \in Requests, NEW a \in Assignments,
             Is(p, "CRITERION", "rubric")', status'[a] # "NONE",
             rubric[a] = requests'[p].rubric, a \notin requests'[p].todo
      PROVE  assignmentLock'[a] = p /\ ~ first[a]
  <2>1. p # q /\ requests'[p] = requests[p] /\ status[a] # "NONE"
    BY <1>2, EndFacts DEF Is
  <2>2. assignmentLock[a] = p /\ ~ first[a]
    BY <1>2, <2>1 DEF PassedAreUnmarked, Is
  <2> QED
    BY <2>1, <2>2, EndFacts
<1>3. ASSUME NEW a \in Assignments, first[a]
      PROVE  status'[a] \in {"OPEN", "CLOSED"}
  BY <1>3 DEF SubmittedAreNoDrafts
<1>4. ASSUME NEW p \in Requests, Is(p, "SUBMIT", "row")'
      PROVE  status'[requests'[p].assignment] \in {"OPEN", "CLOSED"}
  <2>1. p # q /\ requests'[p] = requests[p] /\ Is(p, "SUBMIT", "row")
    BY <1>4, EndFacts DEF Is
  <2>2. /\ requests[p].assignment \in Assignments
        /\ rowLock[requests[p].assignment] # Free
        /\ status[requests[p].assignment] \in {"OPEN", "CLOSED"}
    BY <2>1, RequestFields, RubricConstants DEF LocksAreHeld, SubmittedAreNoDrafts, Is
  <2> QED
    BY <2>1, <2>2
<1>5. PassedAreUnmarked' /\ SubmittedAreNoDrafts'
  BY <1>2, <1>3, <1>4 DEF PassedAreUnmarked, SubmittedAreNoDrafts
<1> QED
  BY <1>1, <1>5

\* A rollback, or an end that changes no assignment.
LEMMA EndAlone ==
    ASSUME FreezeInv, NEW q \in Requests, End(q), UNCHANGED assignmentVars,
           weights' \in [Rubrics -> [Criteria -> Weight]],
           total' \in [Rubrics -> Weight]
    PROVE  FreezeInv'
BY EndAfterStatus DEF assignmentVars, FreezeInv, Rows, TypeOK

\* A write of the status keeps the invariant.
LEMMA WriteStep ==
    ASSUME FreezeInv, NEW q \in Requests, Publish(q) \/ Close(q) \/ Delete(q)
    PROVE  FreezeInv'
<1> DEFINE a == requests[q].assignment
<1>1. /\ a \in Assignments /\ rowLock[a] = Free
      /\ End(q)
      /\ UNCHANGED <<rubric, first, rubricVars>>
  BY RequestFields DEF Publish, Close, Delete, Write, Is, FreezeInv
<1>2. PICK value \in {"NONE", "OPEN", "CLOSED"} :
         /\ \/ UNCHANGED status
            \/ status[a] # "NONE" /\ status' = [status EXCEPT ![a] = value]
         /\ value = "NONE" => ~ first[a]
  <2>1. CASE Publish(q)
    BY <2>1 DEF Publish, Write
  <2>2. CASE Close(q)
    BY <2>2 DEF Close, Write
  <2>3. CASE Delete(q)
    <3>1. CASE first[a]
      <4>1. status[a] \in {"OPEN", "CLOSED"}
        BY <1>1, <3>1 DEF FreezeInv, SubmittedAreNoDrafts
      <4> QED
        BY <2>3, <3>1, <4>1 DEF Delete, Write
    <3>2. CASE ~ first[a]
      BY <2>3, <3>2 DEF Delete, Write
    <3> QED
      BY <3>1, <3>2
  <2> QED
    BY <2>1, <2>2, <2>3
<1> HIDE DEF a
<1>3. \A b \in Assignments :
         \/ status'[b] = status[b]
         \/ /\ status[b] # "NONE"
            /\ \/ status'[b] \in {"OPEN", "CLOSED"}
               \/ rowLock[b] = Free /\ ~ first[b]
  BY <1>1, <1>2 DEF FreezeInv, Rows, TypeOK
<1>4. /\ status' \in [Assignments -> {"NONE", "DRAFT", "OPEN", "CLOSED"}]
      /\ weights' \in [Rubrics -> [Criteria -> Weight]]
      /\ total' \in [Rubrics -> Weight]
  BY <1>1, <1>2 DEF FreezeInv, Rows, TypeOK, rubricVars
<1> QED
  BY <1>1, <1>3, <1>4, EndAfterStatus

\* So does an edit: it has the locks of the rubric and of the assignment.
LEMMA EditStep ==
    ASSUME FreezeInv, NEW q \in Requests, Edit(q)
    PROVE  FreezeInv'
<1> USE DEF FreezeInv
<1> DEFINE a == requests[q].assignment
<1>1. /\ End(q)
      /\ a \in Assignments /\ requests[q].rubric \in Rubrics
      /\ rubricLock[requests[q].rubric] = q
      /\ UNCHANGED <<status, first, rubricVars>>
      /\ \/ UNCHANGED rubric
         \/ rubric' = [rubric EXCEPT ![a] = requests[q].rubric]
  BY RequestFields DEF Edit, Is, LocksAreHeld
<1> HIDE DEF a
<1>2. CASE UNCHANGED rubric
  BY <1>1, <1>2, EndAlone DEF assignmentVars, rubricVars, Rows, TypeOK
<1>3. CASE rubric' = [rubric EXCEPT ![a] = requests[q].rubric]
  <2>1. /\ rubric' \in [Assignments -> Rubrics]
        /\ rubric'[a] = requests[q].rubric
        /\ \A b \in Assignments \ {a} : rubric'[b] = rubric[b]
    BY <1>1, <1>3 DEF Rows, TypeOK
  <2>2. Rows' /\ LocksAreHeld'
    BY <1>1, <2>1, EndKeepsLocks DEF rubricVars, Rows, TypeOK
  <2>3. ASSUME NEW p \in Requests, NEW b \in Assignments,
               Is(p, "CRITERION", "rubric")', status[b] # "NONE",
               rubric'[b] = requests'[p].rubric, b \notin requests'[p].todo
        PROVE  assignmentLock'[b] = p /\ ~ first[b]
    <3>1. p # q /\ requests'[p] = requests[p] /\ Is(p, "CRITERION", "rubric")
      BY <1>1, <2>3, EndFacts DEF Is
    <3>2. rubricLock[requests[p].rubric] = p
      BY <3>1 DEF LocksAreHeld
    <3>3. b # a
      BY <1>1, <2>1, <2>3, <3>1, <3>2
    <3>4. assignmentLock[b] = p /\ ~ first[b]
      BY <2>1, <2>3, <3>1, <3>3 DEF PassedAreUnmarked
    <3> QED
      BY <1>1, <3>1, <3>4, EndFacts
  <2>4. ASSUME NEW p \in Requests, Is(p, "SUBMIT", "row")'
        PROVE  status[requests'[p].assignment] \in {"OPEN", "CLOSED"}
    <3>1. p # q /\ requests'[p] = requests[p] /\ Is(p, "SUBMIT", "row")
      BY <1>1, <2>4, EndFacts DEF Is
    <3> QED
      BY <3>1 DEF SubmittedAreNoDrafts
  <2> QED
    BY <1>1, <2>2, <2>3, <2>4 DEF PassedAreUnmarked, SubmittedAreNoDrafts
<1> QED
  BY <1>1, <1>2, <1>3

\* So does a submission: nobody who passed the assignment is without its lock.
LEMMA SubmitStep ==
    ASSUME FreezeInv, NEW q \in Requests, Submit(q)
    PROVE  FreezeInv'
<1> USE DEF FreezeInv
<1> DEFINE a == requests[q].assignment
<1>1. /\ Is(q, "SUBMIT", "row") /\ End(q)
      /\ a \in Assignments
      /\ assignmentLock[a] \in {Free, q}
      /\ first' = [first EXCEPT ![a] = TRUE]
      /\ UNCHANGED <<status, rubric, rubricVars>>
      /\ status[a] \in {"OPEN", "CLOSED"}
  BY RequestFields DEF Submit, Available, Is, SubmittedAreNoDrafts
<1> HIDE DEF a
<1>2. /\ first' \in [Assignments -> BOOLEAN]
      /\ \A b \in Assignments \ {a} : first'[b] = first[b]
  BY <1>1 DEF Rows, TypeOK
<1>3. Rows' /\ LocksAreHeld'
  BY <1>1, <1>2, EndKeepsLocks DEF rubricVars, Rows, TypeOK
<1>4. ASSUME NEW p \in Requests, NEW b \in Assignments,
             Is(p, "CRITERION", "rubric")', status[b] # "NONE",
             rubric[b] = requests'[p].rubric, b \notin requests'[p].todo
      PROVE  assignmentLock'[b] = p /\ ~ first'[b]
  <2>1. p # q /\ requests'[p] = requests[p] /\ Is(p, "CRITERION", "rubric")
    BY <1>1, <1>4, EndFacts DEF Is
  <2>2. assignmentLock[b] = p /\ ~ first[b]
    BY <1>4, <2>1 DEF PassedAreUnmarked
  <2>3. b # a
    BY <1>1, <2>1, <2>2, RubricConstants
  <2> QED
    BY <1>1, <1>2, <2>1, <2>2, <2>3, EndFacts
<1>5. ASSUME NEW p \in Requests, Is(p, "SUBMIT", "row")'
      PROVE  status[requests'[p].assignment] \in {"OPEN", "CLOSED"}
  <2>1. requests'[p] = requests[p] /\ Is(p, "SUBMIT", "row")
    BY <1>1, <1>5, EndFacts DEF Is
  <2> QED
    BY <2>1 DEF SubmittedAreNoDrafts
<1>6. \A b \in Assignments : first'[b] => status[b] \in {"OPEN", "CLOSED"}
  BY <1>1, <1>2 DEF SubmittedAreNoDrafts
<1> QED
  BY <1>1, <1>3, <1>4, <1>5, <1>6 DEF PassedAreUnmarked, SubmittedAreNoDrafts

-------------------------------------------------------------------------------
(* Requests that begin, go on and take locks: no lock is lost, and what a  *)
(* request must have it has taken.                                         *)

\* A request that goes on keeps the invariant if it has what its phase asks for.
LEMMA GoingOn ==
    ASSUME FreezeInv, NEW q \in Requests, UNCHANGED <<assignmentVars, rubricVars>>,
           requests' \in [Requests -> Request \union {Idle}],
           \A p \in Requests \ {q} : requests'[p] = requests[p],
           rowLock' \in [Assignments -> Requests \union {Free}],
           rubricLock' \in [Rubrics -> Requests \union {Free}],
           assignmentLock' \in [Assignments -> Requests \union {Free}],
           \A a \in Assignments : rowLock[a] # Free => rowLock'[a] = rowLock[a],
           \A a \in Assignments :
               assignmentLock[a] # Free => assignmentLock'[a] = assignmentLock[a],
           \A r \in Rubrics : rubricLock[r] # Free => rubricLock'[r] = rubricLock[r],
           Is(q, "SUBMIT", "row")' => /\ rowLock'[requests'[q].assignment] = q
                                      /\ status[requests'[q].assignment] \in {"OPEN", "CLOSED"},
           Is(q, "EDIT", "rubric")' \/ Is(q, "CRITERION", "rubric")' =>
               rubricLock'[requests'[q].rubric] = q,
           \A a \in Assignments :
               /\ Is(q, "CRITERION", "rubric")'
               /\ status[a] # "NONE" /\ rubric[a] = requests'[q].rubric
               /\ a \notin requests'[q].todo
               => assignmentLock'[a] = q /\ ~ first[a]
    PROVE  FreezeInv'
<1> USE DEF FreezeInv
<1>0. /\ UNCHANGED <<status, rubric, first, weights, total>>
      /\ Free \notin Requests
  BY RubricConstants DEF assignmentVars, rubricVars
<1>1. Rows'
  BY <1>0 DEF Rows, TypeOK
<1>2. ASSUME NEW p \in Requests \ {q}, requests[p] # Idle
      PROVE  /\ Is(p, "SUBMIT", "row") => /\ rowLock'[requests[p].assignment] = p
                                          /\ status[requests[p].assignment]
                                               \in {"OPEN", "CLOSED"}
             /\ Is(p, "EDIT", "rubric") \/ Is(p, "CRITERION", "rubric") =>
                   rubricLock'[requests[p].rubric] = p
             /\ \A a \in Assignments :
                   /\ Is(p, "CRITERION", "rubric")
                   /\ status[a] # "NONE" /\ rubric[a] = requests[p].rubric
                   /\ a \notin requests[p].todo
                   => assignmentLock'[a] = p /\ ~ first[a]
  <2>1. /\ requests[p].rubric \in Rubrics
        /\ requests[p].op = "SUBMIT" => requests[p].assignment \in Assignments
    BY <1>2, RequestFields
  <2>2. ASSUME Is(p, "SUBMIT", "row")
        PROVE  /\ rowLock'[requests[p].assignment] = p
               /\ status[requests[p].assignment] \in {"OPEN", "CLOSED"}
    <3>1. /\ requests[p].assignment \in Assignments
          /\ rowLock[requests[p].assignment] = p
      BY <2>1, <2>2 DEF LocksAreHeld, Is
    <3> QED
      BY <1>0, <2>2, <3>1 DEF SubmittedAreNoDrafts
  <2>3. ASSUME Is(p, "EDIT", "rubric") \/ Is(p, "CRITERION", "rubric")
        PROVE  rubricLock'[requests[p].rubric] = p
    <3>1. rubricLock[requests[p].rubric] = p
      BY <2>3 DEF LocksAreHeld
    <3> QED
      BY <1>0, <2>1, <3>1
  <2>4. ASSUME NEW a \in Assignments, Is(p, "CRITERION", "rubric"),
               status[a] # "NONE", rubric[a] = requests[p].rubric,
               a \notin requests[p].todo
        PROVE  assignmentLock'[a] = p /\ ~ first[a]
    <3>1. assignmentLock[a] = p /\ ~ first[a]
      BY <2>4 DEF PassedAreUnmarked
    <3> QED
      BY <1>0, <3>1
  <2> QED
    BY <2>2, <2>3, <2>4
<1>3. LocksAreHeld'
  BY <1>2 DEF LocksAreHeld, Is
<1>4. PassedAreUnmarked'
  BY <1>0, <1>2 DEF PassedAreUnmarked, Is
<1>5. SubmittedAreNoDrafts'
  <2>1. \A a \in Assignments : first[a] => status[a] \in {"OPEN", "CLOSED"}
    BY DEF SubmittedAreNoDrafts
  <2> QED
    BY <1>0, <1>2, <2>1 DEF SubmittedAreNoDrafts, Is
<1> QED
  BY <1>1, <1>3, <1>4, <1>5

\* A request that begins keeps the invariant.
LEMMA BeginStep ==
    ASSUME FreezeInv, NEW q \in Requests, Begin(q)
    PROVE  FreezeInv'
<1> USE DEF FreezeInv
<1>0. TypeOK
  BY DEF Rows
<1>1. ASSUME NEW a \in Assignments, NEW r \in Rubrics, Load(q, a, r)
      PROVE  FreezeInv'
  <2>1. PICK op \in {"EDIT", "PUBLISH", "DELETE", "CLOSE"} :
           /\ Start(q, [op |-> op, assignment |-> a, rubric |-> r, phase |-> "loaded"])
           /\ UNCHANGED <<assignmentVars, rubricVars, locks>>
    BY <1>1 DEF Load
  <2>2. [op |-> op, assignment |-> a, rubric |-> r, phase |-> "loaded"] \in Request
    BY DEF Request
  <2>3. /\ requests' \in [Requests -> Request \union {Idle}]
        /\ requests'[q].phase = "loaded"
        /\ \A p \in Requests \ {q} : requests'[p] = requests[p]
    BY <2>1, <2>2, StartFacts
  <2> QED
    BY <1>0, <2>1, <2>3, GoingOn DEF Is, locks, TypeOK
<1>2. ASSUME NEW a \in Assignments, LockForSubmission(q, a)
      PROVE  FreezeInv'
  <2> DEFINE request == [op |-> "SUBMIT", assignment |-> a, rubric |-> rubric[a],
                         phase |-> "row"]
  <2>1. /\ Start(q, request)
        /\ status[a] = "OPEN" /\ rowLock[a] = Free
        /\ rowLock' = [rowLock EXCEPT ![a] = q]
        /\ UNCHANGED <<assignmentVars, rubricVars, rubricLock, assignmentLock>>
    BY <1>2 DEF LockForSubmission
  <2>2. request \in Request
    BY <1>0 DEF Request, TypeOK
  <2>3. /\ requests' \in [Requests -> Request \union {Idle}]
        /\ requests'[q] = request
        /\ \A p \in Requests \ {q} : requests'[p] = requests[p]
    BY <2>1, <2>2, StartFacts
  <2>4. /\ rowLock' \in [Assignments -> Requests \union {Free}]
        /\ rowLock'[a] = q
        /\ \A b \in Assignments : rowLock[b] # Free => rowLock'[b] = rowLock[b]
    BY <1>0, <2>1 DEF TypeOK
  <2>5. requests'[q].op = "SUBMIT" /\ requests'[q].assignment = a
    BY <2>3
  <2> QED
    BY <1>0, <2>1, <2>3, <2>4, <2>5, GoingOn DEF Is, TypeOK
<1>3. ASSUME NEW r \in Rubrics, NEW c \in Criteria, NEW w \in Weight, LoadCriterion(q, r, c, w)
      PROVE  FreezeInv'
  <2> DEFINE request == [op |-> "CRITERION", rubric |-> r, criterion |-> c, weight |-> w,
                         change |-> w - weights[r][c], total |-> total[r],
                         phase |-> "loaded", todo |-> {}]
  <2>1. Start(q, request) /\ UNCHANGED <<assignmentVars, rubricVars, locks>>
    BY <1>3 DEF LoadCriterion
  <2>2. request \in Request
    <3>1. weights[r][c] \in Weight /\ total[r] \in Weight
      BY <1>0 DEF TypeOK
    <3>2. w - weights[r][c] \in Int
      BY <3>1 DEF Weight
    <3> QED
      BY <3>1, <3>2 DEF Request
  <2>3. /\ requests' \in [Requests -> Request \union {Idle}]
        /\ requests'[q].phase = "loaded"
        /\ \A p \in Requests \ {q} : requests'[p] = requests[p]
    BY <2>1, <2>2, StartFacts
  <2> QED
    BY <1>0, <2>1, <2>3, GoingOn DEF Is, locks, TypeOK
<1> QED
  BY <1>1, <1>2, <1>3 DEF Begin

\* A request that only moves to another phase carries what it did.
LEMMA PhaseFacts ==
    ASSUME Rows, NEW q \in Requests, requests[q] # Idle,
           NEW phase \in {"summed", "row", "rubric"},
           requests[q].op = "CRITERION" => phase = "rubric",
           requests' = [requests EXCEPT ![q].phase = phase]
    PROVE  /\ requests' \in [Requests -> Request \union {Idle}]
           /\ \A p \in Requests \ {q} : requests'[p] = requests[p]
           /\ requests'[q].phase = phase
           /\ requests'[q].op = requests[q].op
           /\ requests'[q].rubric = requests[q].rubric
<1>1. requests[q] \in Request
  BY RequestFields
<1>2. [requests[q] EXCEPT !.phase = phase] \in Request
  BY <1>1 DEF Request
<1>3. /\ requests'[q] = [requests[q] EXCEPT !.phase = phase]
      /\ \A p \in Requests \ {q} : requests'[p] = requests[p]
  BY DEF Rows
<1>4. /\ requests'[q].phase = phase
      /\ requests'[q].op = requests[q].op
      /\ requests'[q].rubric = requests[q].rubric
  BY <1>1, <1>3 DEF Request
<1> QED
  BY <1>2, <1>3, <1>4 DEF Rows

\* So does one that sums the weights.
LEMMA TotalStep ==
    ASSUME FreezeInv, NEW q \in Requests, Total(q)
    PROVE  FreezeInv'
<1> USE DEF FreezeInv
<1>0. /\ TypeOK /\ requests[q] # Idle /\ requests[q].op = "PUBLISH"
      /\ UNCHANGED <<assignmentVars, rubricVars>>
  BY DEF Total, Is, Rows
<1>1. CASE End(q)
  BY <1>0, <1>1, EndAlone DEF rubricVars, TypeOK
<1>2. CASE requests' = [requests EXCEPT ![q].phase = "summed"] /\ UNCHANGED locks
  <2>1. /\ requests' \in [Requests -> Request \union {Idle}]
        /\ \A p \in Requests \ {q} : requests'[p] = requests[p]
        /\ requests'[q].phase = "summed"
    BY <1>0, <1>2, PhaseFacts
  <2> QED
    BY <1>0, <1>2, <2>1, GoingOn DEF Is, locks, TypeOK
<1> QED
  BY <1>1, <1>2 DEF Total

\* So does an edit that takes its locks.
LEMMA EditLocksStep ==
    ASSUME FreezeInv, NEW q \in Requests, LockRow(q) \/ LockNewRubric(q)
    PROVE  FreezeInv'
<1> USE DEF FreezeInv
<1>0. /\ TypeOK /\ requests[q] # Idle /\ requests[q].op = "EDIT"
      /\ requests[q].assignment \in Assignments /\ requests[q].rubric \in Rubrics
      /\ UNCHANGED <<assignmentVars, rubricVars, assignmentLock>>
  BY RequestFields DEF LockRow, LockNewRubric, Is, Rows
<1>1. CASE LockRow(q)
  <2>1. /\ requests' \in [Requests -> Request \union {Idle}]
        /\ \A p \in Requests \ {q} : requests'[p] = requests[p]
        /\ requests'[q].phase = "row" /\ requests'[q].op = "EDIT"
    BY <1>0, <1>1, PhaseFacts DEF LockRow
  <2>2. /\ rowLock' \in [Assignments -> Requests \union {Free}]
        /\ \A b \in Assignments : rowLock[b] # Free => rowLock'[b] = rowLock[b]
        /\ UNCHANGED rubricLock
    BY <1>0, <1>1 DEF LockRow, TypeOK
  <2> QED
    BY <1>0, <2>1, <2>2, GoingOn DEF Is, TypeOK
<1>2. CASE LockNewRubric(q)
  <2>1. /\ requests' \in [Requests -> Request \union {Idle}]
        /\ \A p \in Requests \ {q} : requests'[p] = requests[p]
        /\ requests'[q].phase = "rubric" /\ requests'[q].op = "EDIT"
        /\ requests'[q].rubric = requests[q].rubric
    BY <1>0, <1>2, PhaseFacts DEF LockNewRubric
  <2>2. /\ rubricLock' \in [Rubrics -> Requests \union {Free}]
        /\ \A r \in Rubrics : rubricLock[r] # Free => rubricLock'[r] = rubricLock[r]
        /\ rubricLock'[requests[q].rubric] = q
        /\ UNCHANGED rowLock
    BY <1>0, <1>2 DEF LockNewRubric, Available, TypeOK
  <2> QED
    BY <1>0, <2>1, <2>2, GoingOn DEF Is, TypeOK
<1> QED
  BY <1>1, <1>2

\* A criterion that has the rubric has every assignment of it still to pass.
LEMMA LockRubricStep ==
    ASSUME FreezeInv, NEW q \in Requests, LockRubric(q)
    PROVE  FreezeInv'
<1> USE DEF FreezeInv
<1> DEFINE r == requests[q].rubric
           found == {a \in Assignments : status[a] # "NONE" /\ rubric[a] = r}
<1>0. /\ TypeOK
      /\ requests[q] \in Request /\ requests[q].op = "CRITERION" /\ r \in Rubrics
      /\ rubricLock[r] \in {Free, q}
      /\ rubricLock' = [rubricLock EXCEPT ![r] = q]
      /\ requests' = [requests EXCEPT ![q].phase = "rubric", ![q].todo = found]
      /\ UNCHANGED <<assignmentVars, rubricVars, rowLock, assignmentLock>>
  BY RequestFields DEF LockRubric, Available, Is, Rows
<1>1. /\ requests'[q] = [[requests[q] EXCEPT !.phase = "rubric"] EXCEPT !.todo = found]
      /\ \A p \in Requests \ {q} : requests'[p] = requests[p]
  BY <1>0 DEF Rows
<1>2. /\ requests'[q] \in Request
      /\ requests'[q].op = "CRITERION" /\ requests'[q].rubric = r
      /\ requests'[q].phase = "rubric"
      /\ requests'[q].todo = found
  <2>1. found \in SUBSET Assignments
    OBVIOUS
  <2> HIDE DEF found
  <2> DEFINE mid == [requests[q] EXCEPT !.phase = "rubric"]
  <2>2. mid \in Request /\ mid.op = "CRITERION" /\ mid.rubric = r /\ mid.phase = "rubric"
    BY <1>0 DEF Request
  <2>3. requests'[q] = [mid EXCEPT !.todo = found]
    BY <1>1
  <2> HIDE DEF mid
  <2> QED
    BY <2>1, <2>2, <2>3 DEF Request
<1>3. requests' \in [Requests -> Request \union {Idle}]
  BY <1>0, <1>1, <1>2 DEF Rows
<1>4. /\ rubricLock' \in [Rubrics -> Requests \union {Free}]
      /\ \A s \in Rubrics : rubricLock[s] # Free => rubricLock'[s] = rubricLock[s]
      /\ rubricLock'[r] = q
  BY <1>0 DEF TypeOK
<1>5. \A a \in Assignments :
         status[a] # "NONE" /\ rubric[a] = requests'[q].rubric => a \in requests'[q].todo
  BY <1>2
<1> HIDE DEF found, r
<1> QED
  BY <1>0, <1>1, <1>2, <1>3, <1>4, <1>5, GoingOn DEF Is, TypeOK

\* It has the lock of what it passes.
LEMMA LockNextStep ==
    ASSUME FreezeInv, NEW q \in Requests, LockNextAssignment(q)
    PROVE  FreezeInv'
<1> USE DEF FreezeInv
<1> DEFINE next == Min(requests[q].todo)
           left == requests[q].todo \ {next}
<1>0. /\ TypeOK
      /\ Is(q, "CRITERION", "rubric") /\ requests[q] \in Request
      /\ requests[q].rubric \in Rubrics
      /\ assignmentLock[next] \in {Free, q}
      /\ UNCHANGED <<assignmentVars, rubricVars>>
      /\ \/ End(q)
         \/ /\ ~ first[next]
            /\ assignmentLock' = [assignmentLock EXCEPT ![next] = q]
            /\ requests' = [requests EXCEPT ![q].todo = left]
            /\ UNCHANGED <<rowLock, rubricLock>>
  BY RequestFields DEF LockNextAssignment, Available, Is, Rows
<1> HIDE DEF next
<1>1. CASE End(q)
  BY <1>0, <1>1, EndAlone DEF rubricVars, TypeOK
<1>2. CASE /\ ~ first[next]
           /\ assignmentLock' = [assignmentLock EXCEPT ![next] = q]
           /\ requests' = [requests EXCEPT ![q].todo = left]
           /\ UNCHANGED <<rowLock, rubricLock>>
  <2>1. /\ requests'[q] = [requests[q] EXCEPT !.todo = left]
        /\ \A p \in Requests \ {q} : requests'[p] = requests[p]
    BY <1>2 DEF Rows
  <2>2. /\ requests'[q] \in Request
        /\ requests'[q].op = "CRITERION" /\ requests'[q].phase = "rubric"
        /\ requests'[q].rubric = requests[q].rubric
        /\ requests'[q].todo = left
    <3>1. requests[q].todo \in SUBSET Assignments /\ left \in SUBSET Assignments
      BY <1>0 DEF Request, Is
    <3> HIDE DEF left
    <3> QED
      BY <1>0, <2>1, <3>1 DEF Request, Is
  <2>3. requests' \in [Requests -> Request \union {Idle}]
    BY <1>2, <2>1, <2>2 DEF Rows
  <2>4. /\ assignmentLock' \in [Assignments -> Requests \union {Free}]
        /\ \A a \in Assignments :
              assignmentLock[a] # Free => assignmentLock'[a] = assignmentLock[a]
        /\ next \in Assignments => assignmentLock'[next] = q
        /\ \A a \in Assignments : a # next => assignmentLock'[a] = assignmentLock[a]
    BY <1>0, <1>2 DEF TypeOK
  <2>5. rubricLock'[requests'[q].rubric] = q
    BY <1>0, <1>2, <2>2 DEF LocksAreHeld
  <2>6. ASSUME NEW a \in Assignments,
               status[a] # "NONE", rubric[a] = requests'[q].rubric, a \notin requests'[q].todo
        PROVE  assignmentLock'[a] = q /\ ~ first[a]
    <3>1. CASE a = next
      BY <1>2, <2>4, <3>1
    <3>2. CASE a # next
      <4>1. assignmentLock[a] = q /\ ~ first[a]
        BY <1>0, <2>2, <2>6, <3>2 DEF PassedAreUnmarked
      <4> QED
        BY <2>4, <3>2, <4>1
    <3> QED
      BY <3>1, <3>2
  <2> HIDE DEF left
  <2> QED
    BY <1>0, <1>2, <2>1, <2>2, <2>3, <2>4, <2>5, <2>6, GoingOn DEF Is, TypeOK
<1> QED
  BY <1>0, <1>1, <1>2

\* Nothing new is graded by a rubric whose lock is held.
LEMMA CreateStep ==
    ASSUME FreezeInv, NEW a \in Assignments, NEW r \in Rubrics, Create(a, r)
    PROVE  FreezeInv'
<1> USE DEF FreezeInv
<1>1. /\ status[a] = "NONE" /\ rubricLock[r] = Free
      /\ status' \in [Assignments -> {"NONE", "DRAFT", "OPEN", "CLOSED"}]
      /\ rubric' \in [Assignments -> Rubrics]
      /\ rubric'[a] = r
      /\ \A b \in Assignments \ {a} : status'[b] = status[b] /\ rubric'[b] = rubric[b]
      /\ UNCHANGED <<first, weights, total, requests, rowLock, rubricLock, assignmentLock>>
      /\ Free \notin Requests
  BY RubricConstants DEF Create, rubricVars, locks, Rows, TypeOK
<1>2. Rows' /\ LocksAreHeld'
  BY <1>1 DEF Rows, TypeOK, LocksAreHeld, Is
<1>3. PassedAreUnmarked'
  <2>1. \A p \in Requests : Is(p, "CRITERION", "rubric") => requests[p].rubric # r
    BY <1>1 DEF LocksAreHeld
  <2> QED
    BY <1>1, <2>1 DEF PassedAreUnmarked, Is
<1>4. SubmittedAreNoDrafts'
  <2>1. \A p \in Requests : Is(p, "SUBMIT", "row") =>
            requests[p].assignment \in Assignments /\ requests[p].assignment # a
    BY <1>1, RequestFields DEF SubmittedAreNoDrafts, Is
  <2>2. ~ first[a]
    BY <1>1 DEF SubmittedAreNoDrafts
  <2> QED
    BY <1>1, <2>1, <2>2 DEF SubmittedAreNoDrafts, Is
<1> QED
  BY <1>2, <1>3, <1>4

\* A change of the criterion ends the request.
LEMMA ChangeStep ==
    ASSUME FreezeInv, NEW q \in Requests, ChangeCriterion(q)
    PROVE  FreezeInv'
<1> USE DEF FreezeInv
<1>1. /\ TypeOK
      /\ requests[q].rubric \in Rubrics /\ requests[q].criterion \in Criteria
      /\ requests[q].weight \in Weight
      /\ End(q) /\ UNCHANGED assignmentVars
  BY RequestFields DEF ChangeCriterion, Is, Rows
<1>2. weights' \in [Rubrics -> [Criteria -> Weight]] /\ total' \in [Rubrics -> Weight]
  <2> DEFINE r == requests[q].rubric
             sum == requests[q].total + requests[q].change
  <2>1. CASE UNCHANGED rubricVars
    BY <1>1, <2>1 DEF rubricVars, TypeOK
  <2>2. CASE /\ sum \in Weight
             /\ weights' = [weights EXCEPT ![r][requests[q].criterion] = requests[q].weight]
             /\ total' = [total EXCEPT ![r] = sum]
    <3>1. total' \in [Rubrics -> Weight]
      BY <1>1, <2>2 DEF TypeOK
    <3>2. [weights[r] EXCEPT ![requests[q].criterion] = requests[q].weight]
            \in [Criteria -> Weight]
      BY <1>1 DEF TypeOK
    <3>3. weights' = [weights EXCEPT
             ![r] = [weights[r] EXCEPT ![requests[q].criterion] = requests[q].weight]]
      BY <2>2
    <3> QED
      BY <1>1, <3>1, <3>2, <3>3 DEF TypeOK
  <2> QED
    BY <2>1, <2>2 DEF ChangeCriterion
<1> QED
  BY <1>1, <1>2, EndAlone

-------------------------------------------------------------------------------

\* The invariant: who has passed what, with which locks (migration 0002, triggers).
THEOREM FreezeInvariant == Spec => []FreezeInv
<1>1. Init => FreezeInv
  <2> SUFFICES ASSUME Init
               PROVE  FreezeInv
    OBVIOUS
  <2>1. 0 \in Weight
    BY RubricConstants DEF Weight
  <2>2. Rows
    BY <2>1 DEF Init, Rows, TypeOK
  <2> QED
    BY <2>2 DEF Init, FreezeInv, LocksAreHeld, PassedAreUnmarked, SubmittedAreNoDrafts, Is
<1>2. FreezeInv /\ [Next]_vars => FreezeInv'
  <2> SUFFICES ASSUME FreezeInv, [Next]_vars
               PROVE  FreezeInv'
    OBVIOUS
  <2>1. CASE UNCHANGED vars
    BY <2>1 DEF vars, assignmentVars, rubricVars, locks, FreezeInv, Rows, TypeOK, LocksAreHeld,
                PassedAreUnmarked, SubmittedAreNoDrafts, Is
  <2>2. ASSUME NEW q \in Requests, Rollback(q)
        PROVE  FreezeInv'
    BY <2>2, EndAlone DEF Rollback, rubricVars, FreezeInv, Rows, TypeOK
  <2> QED
    BY <2>1, <2>2, CreateStep, BeginStep, TotalStep, WriteStep, EditLocksStep, EditStep,
       SubmitStep, LockRubricStep, LockNextStep, ChangeStep
    DEF Next, Progress
<1> QED
  BY <1>1, <1>2, PTL DEF Spec

\* From its first submission on an assignment keeps its rubric, the rubric its
\* criteria, and the assignment is neither a draft again nor gone (BR-03, AT-03).
THEOREM FirstSubmissionFreezes == Spec => FrozenByFirstSubmission
<1>1. FreezeInv /\ FreezeInv' /\ [Next]_vars =>
        [\A a \in Assignments : first[a] =>
            /\ status'[a] \notin {"NONE", "DRAFT"}
            /\ rubric'[a] = rubric[a]
            /\ weights'[rubric[a]] = weights[rubric[a]]]_vars
  <2> SUFFICES ASSUME FreezeInv, FreezeInv', Next, NEW a \in Assignments, first[a]
               PROVE  /\ status'[a] \notin {"NONE", "DRAFT"}
                      /\ rubric'[a] = rubric[a]
                      /\ weights'[rubric[a]] = weights[rubric[a]]
    BY DEF vars
  <2>0. TypeOK /\ status[a] \in {"OPEN", "CLOSED"}
    BY DEF FreezeInv, Rows, SubmittedAreNoDrafts
  <2>1. first'[a]
    BY <2>0 DEF Next, Begin, Progress, Create, Load, LockForSubmission, LoadCriterion, Total,
                Publish, Close, Delete, Write, LockRow, LockNewRubric, Edit, Submit, LockRubric,
                LockNextAssignment, ChangeCriterion, Rollback, assignmentVars, TypeOK
  <2>2. status'[a] \notin {"NONE", "DRAFT"}
    BY <2>1 DEF FreezeInv, SubmittedAreNoDrafts
  <2>3. rubric'[a] = rubric[a]
    <3>1. ASSUME NEW b \in Assignments, NEW r \in Rubrics, Create(b, r)
          PROVE  rubric'[a] = rubric[a]
      BY <2>0, <3>1 DEF Create, TypeOK
    <3>2. ASSUME NEW q \in Requests, Edit(q)
          PROVE  rubric'[a] = rubric[a]
      BY <2>0, <3>2 DEF Edit, TypeOK
    <3> QED
      BY <3>1, <3>2 DEF Next, Begin, Progress, Load, LockForSubmission, LoadCriterion, Total,
                Publish, Close, Delete, Write, LockRow, LockNewRubric, Submit, LockRubric,
                LockNextAssignment, ChangeCriterion, Rollback, assignmentVars
  <2>4. weights'[rubric[a]] = weights[rubric[a]]
    <3>1. ASSUME NEW q \in Requests, ChangeCriterion(q)
          PROVE  weights'[rubric[a]] = weights[rubric[a]]
      <4>1. Is(q, "CRITERION", "rubric") /\ requests[q].todo = {}
        BY <3>1 DEF ChangeCriterion
      <4>2. rubric[a] # requests[q].rubric
        BY <2>0, <4>1 DEF FreezeInv, PassedAreUnmarked
      <4> QED
        BY <2>0, <3>1, <4>2 DEF ChangeCriterion, rubricVars, TypeOK
    <3> QED
      BY <3>1 DEF Next, Begin, Progress, Create, Load, LockForSubmission, LoadCriterion, Total,
                Publish, Close, Delete, Write, LockRow, LockNewRubric, Edit, Submit, LockRubric,
                LockNextAssignment, Rollback, rubricVars
  <2> QED
    BY <2>2, <2>3, <2>4
<1> QED
  BY <1>1, FreezeInvariant, PTL DEF FrozenByFirstSubmission, Spec


-------------------------------------------------------------------------------
(* The order of the locks: rows, rubrics, then assignments by their ids.   *)

\* Which locks a request may have by its phase, and that those it has on assignments
\* come before those it is still to take.
HoldsByPhase(q) ==
    /\ \A a \in Assignments : rowLock[a] = q =>
          Is(q, "EDIT", "row") \/ Is(q, "EDIT", "rubric") \/ Is(q, "SUBMIT", "row")
    /\ \A r \in Rubrics : rubricLock[r] = q =>
          Is(q, "EDIT", "rubric") \/ Is(q, "CRITERION", "rubric")
    /\ \A a \in Assignments : assignmentLock[a] = q =>
          Is(q, "CRITERION", "rubric") /\ \A b \in requests[q].todo : a < b

OrderInv == \A q \in Requests : HoldsByPhase(q)

\* Numbers have a least one, which Min is.
LEMMA LeastOf ==
    ASSUME NEW S \in SUBSET Nat, S # {}
    PROVE  Min(S) \in S /\ \A b \in S : Min(S) <= b
<1>1. PICK m \in S : \A l \in S : ~(<<l, m>> \in OpToRel(<, Nat))
  BY WFMin, NatLessThanWellFounded
<1>2. \A b \in S : m <= b
  <2>1. ASSUME NEW b \in S, b < m PROVE FALSE
    <3>1. <<b, m>> \in OpToRel(<, Nat)
      BY <2>1 DEF OpToRel
    <3> QED BY <1>1, <3>1
  <2> QED BY <2>1
<1>3. \E x \in S : \A b \in S : x <= b
  BY <1>2
<1> QED BY <1>3 DEF Min

\* A step of one request takes or frees locks of its own.
LEMMA OwnLocksOnly ==
    ASSUME OrderInv, NEW q \in Requests,
           \A p \in Requests \ {q} : requests'[p] = requests[p],
           \A a \in Assignments : rowLock'[a] = rowLock[a] \/ rowLock'[a] \in {Free, q},
           \A r \in Rubrics : rubricLock'[r] = rubricLock[r] \/ rubricLock'[r] \in {Free, q},
           \A a \in Assignments :
               assignmentLock'[a] = assignmentLock[a] \/ assignmentLock'[a] \in {Free, q},
           HoldsByPhase(q)'
    PROVE  OrderInv'
<1>1. ASSUME NEW p \in Requests, p # q PROVE HoldsByPhase(p)'
  <2>1. Free \notin Requests
    BY RubricConstants
  <2>2. requests'[p] = requests[p] /\ HoldsByPhase(p)
    BY <1>1 DEF OrderInv
  <2>3. /\ \A a \in Assignments : rowLock'[a] = p => rowLock[a] = p
        /\ \A r \in Rubrics : rubricLock'[r] = p => rubricLock[r] = p
        /\ \A a \in Assignments : assignmentLock'[a] = p => assignmentLock[a] = p
    BY <1>1, <2>1
  <2> QED BY <2>2, <2>3 DEF HoldsByPhase, Is
<1> QED BY <1>1 DEF OrderInv

\* Who ends has no locks.
LEMMA OrderAfterEnd ==
    ASSUME Rows, OrderInv, NEW q \in Requests, End(q)
    PROVE  OrderInv'
<1>1. /\ requests'[q] = Idle /\ \A p \in Requests \ {q} : requests'[p] = requests[p]
      /\ Free # q
  BY EndFacts, RubricConstants
<1>2. /\ \A a \in Assignments : rowLock'[a] = IF rowLock[a] = q THEN Free ELSE rowLock[a]
      /\ \A r \in Rubrics : rubricLock'[r] = IF rubricLock[r] = q THEN Free ELSE rubricLock[r]
      /\ \A a \in Assignments :
            assignmentLock'[a] = IF assignmentLock[a] = q THEN Free ELSE assignmentLock[a]
  BY DEF End, Rows, TypeOK
<1>3. HoldsByPhase(q)'
  BY <1>1, <1>2 DEF HoldsByPhase
<1> QED BY <1>1, <1>2, <1>3, OwnLocksOnly

\* A request that has no locks, or takes its first.
LEMMA OrderAfterBegin ==
    ASSUME Rows, OrderInv, NEW q \in Requests, Begin(q)
    PROVE  OrderInv'
<1>0. TypeOK /\ Free # q
  BY RubricConstants DEF Rows
<1>1. PICK request \in Request :
         /\ Start(q, request)
         /\ \/ UNCHANGED locks
            \/ /\ request.op = "SUBMIT" /\ request.phase = "row"
               /\ \E a \in Assignments : rowLock' = [rowLock EXCEPT ![a] = q]
               /\ UNCHANGED <<rubricLock, assignmentLock>>
  <2>1. ASSUME NEW a \in Assignments, NEW r \in Rubrics, Load(q, a, r)
        PROVE  \E request \in Request : Start(q, request) /\ UNCHANGED locks
    <3>1. PICK op \in {"EDIT", "PUBLISH", "DELETE", "CLOSE"} :
             /\ Start(q, [op |-> op, assignment |-> a, rubric |-> r, phase |-> "loaded"])
             /\ UNCHANGED locks
      BY <2>1 DEF Load
    <3>2. [op |-> op, assignment |-> a, rubric |-> r, phase |-> "loaded"] \in Request
      BY DEF Request
    <3> QED BY <3>1, <3>2
  <2>2. ASSUME NEW a \in Assignments, LockForSubmission(q, a)
        PROVE  \E request \in Request :
                  /\ Start(q, request)
                  /\ request.op = "SUBMIT" /\ request.phase = "row"
                  /\ rowLock' = [rowLock EXCEPT ![a] = q]
                  /\ UNCHANGED <<rubricLock, assignmentLock>>
    <3> DEFINE request == [op |-> "SUBMIT", assignment |-> a, rubric |-> rubric[a],
                           phase |-> "row"]
    <3>1. request \in Request /\ request.op = "SUBMIT" /\ request.phase = "row"
      BY <1>0 DEF Request, TypeOK
    <3>2. /\ Start(q, request) /\ rowLock' = [rowLock EXCEPT ![a] = q]
          /\ UNCHANGED <<rubricLock, assignmentLock>>
      BY <2>2 DEF LockForSubmission
    <3> HIDE DEF request
    <3> QED BY <3>1, <3>2
  <2>3. ASSUME NEW r \in Rubrics, NEW c \in Criteria, NEW w \in Weight, LoadCriterion(q, r, c, w)
        PROVE  \E request \in Request : Start(q, request) /\ UNCHANGED locks
    <3> DEFINE request == [op |-> "CRITERION", rubric |-> r, criterion |-> c, weight |-> w,
                           change |-> w - weights[r][c], total |-> total[r],
                           phase |-> "loaded", todo |-> {}]
    <3>1. Start(q, request) /\ UNCHANGED locks
      BY <2>3 DEF LoadCriterion
    <3>2. weights[r][c] \in Weight /\ total[r] \in Weight
      BY <1>0 DEF TypeOK
    <3>3. w - weights[r][c] \in Int
      BY <3>2 DEF Weight
    <3>4. request \in Request
      BY <3>2, <3>3 DEF Request
    <3> HIDE DEF request
    <3> QED BY <3>1, <3>4
  <2> QED BY <2>1, <2>2, <2>3 DEF Begin
<1>2. /\ requests[q] = Idle /\ requests'[q] = request
      /\ \A p \in Requests \ {q} : requests'[p] = requests[p]
  BY <1>1, StartFacts
<1>3. /\ \A a \in Assignments : rowLock[a] # q /\ assignmentLock[a] # q
      /\ \A r \in Rubrics : rubricLock[r] # q
  BY <1>2 DEF OrderInv, HoldsByPhase, Is
<1>4. CASE UNCHANGED locks
  <2>1. UNCHANGED <<rowLock, rubricLock, assignmentLock>>
    BY <1>4 DEF locks
  <2>2. HoldsByPhase(q)'
    BY <1>3, <2>1 DEF HoldsByPhase
  <2> QED BY <1>2, <2>1, <2>2, OwnLocksOnly
<1>5. ASSUME request.op = "SUBMIT", request.phase = "row",
             NEW a \in Assignments, rowLock' = [rowLock EXCEPT ![a] = q],
             UNCHANGED <<rubricLock, assignmentLock>>
      PROVE  OrderInv'
  <2>1. \A b \in Assignments : rowLock'[b] = rowLock[b] \/ rowLock'[b] \in {Free, q}
    BY <1>0, <1>5 DEF TypeOK
  <2>2. Is(q, "SUBMIT", "row")'
    <3>1. request # Idle
      BY <1>1, IdleIsNoRequest
    <3> QED BY <1>2, <1>5, <3>1 DEF Is
  <2>3. HoldsByPhase(q)'
    BY <1>3, <1>5, <2>2 DEF HoldsByPhase
  <2> QED BY <1>2, <1>5, <2>1, <2>3, OwnLocksOnly
<1> QED BY <1>1, <1>4, <1>5

\* An edit takes the row, then the rubric.
LEMMA OrderOfEdits ==
    ASSUME Rows, OrderInv, NEW q \in Requests, LockRow(q) \/ LockNewRubric(q)
    PROVE  OrderInv'
<1>0. /\ TypeOK /\ requests[q] # Idle /\ requests[q].op = "EDIT"
      /\ requests[q].assignment \in Assignments /\ requests[q].rubric \in Rubrics
      /\ HoldsByPhase(q)
  BY RequestFields DEF LockRow, LockNewRubric, Is, Rows, OrderInv
<1>1. CASE LockRow(q)
  <2>1. /\ requests' \in [Requests -> Request \union {Idle}]
        /\ \A p \in Requests \ {q} : requests'[p] = requests[p]
        /\ requests'[q].phase = "row" /\ requests'[q].op = "EDIT"
    BY <1>0, <1>1, PhaseFacts DEF LockRow
  <2>2. requests'[q] # Idle
    BY <1>0, <1>1, IdleIsNoRequest, RequestFields DEF LockRow, Request, Rows
  <2>3. /\ \A b \in Assignments : rowLock'[b] = rowLock[b] \/ rowLock'[b] \in {Free, q}
        /\ UNCHANGED <<rubricLock, assignmentLock>>
    BY <1>0, <1>1 DEF LockRow, TypeOK
  <2>4. HoldsByPhase(q)'
    BY <1>0, <1>1, <2>1, <2>2, <2>3 DEF HoldsByPhase, Is, LockRow
  <2> QED BY <2>1, <2>3, <2>4, OwnLocksOnly
<1>2. CASE LockNewRubric(q)
  <2>1. /\ requests' \in [Requests -> Request \union {Idle}]
        /\ \A p \in Requests \ {q} : requests'[p] = requests[p]
        /\ requests'[q].phase = "rubric" /\ requests'[q].op = "EDIT"
    BY <1>0, <1>2, PhaseFacts DEF LockNewRubric
  <2>2. requests'[q] # Idle
    BY <1>0, <1>2, IdleIsNoRequest, RequestFields DEF LockNewRubric, Request, Rows
  <2>3. /\ \A r \in Rubrics : rubricLock'[r] = rubricLock[r] \/ rubricLock'[r] \in {Free, q}
        /\ UNCHANGED <<rowLock, assignmentLock>>
    BY <1>0, <1>2 DEF LockNewRubric, TypeOK
  <2>4. HoldsByPhase(q)'
    BY <1>0, <1>2, <2>1, <2>2, <2>3 DEF HoldsByPhase, Is, LockNewRubric
  <2> QED BY <2>1, <2>3, <2>4, OwnLocksOnly
<1> QED BY <1>1, <1>2

\* Summing the weights takes nothing.
LEMMA OrderOfTotals ==
    ASSUME Rows, OrderInv, NEW q \in Requests, Total(q)
    PROVE  OrderInv'
<1>1. CASE End(q)
  BY <1>1, OrderAfterEnd
<1>2. CASE requests' = [requests EXCEPT ![q].phase = "summed"] /\ UNCHANGED locks
  <2>0. requests[q] # Idle /\ requests[q].op = "PUBLISH" /\ requests[q].phase = "loaded"
        /\ HoldsByPhase(q)
    BY DEF Total, Is, OrderInv
  <2>1. /\ \A p \in Requests \ {q} : requests'[p] = requests[p]
        /\ requests'[q].phase = "summed"
    BY <1>2, <2>0, PhaseFacts
  <2>2. UNCHANGED <<rowLock, rubricLock, assignmentLock>>
    BY <1>2 DEF locks
  <2>3. HoldsByPhase(q)'
    BY <2>0, <2>2 DEF HoldsByPhase, Is
  <2> QED BY <2>1, <2>2, <2>3, OwnLocksOnly
<1> QED BY <1>1, <1>2 DEF Total

\* A criterion takes the rubric, then the assignments from the least.
LEMMA OrderOfCriteria ==
    ASSUME Rows, OrderInv, NEW q \in Requests, LockRubric(q) \/ LockNextAssignment(q)
    PROVE  OrderInv'
<1>0. /\ TypeOK /\ requests[q] \in Request /\ requests[q] # Idle
      /\ requests[q].op = "CRITERION" /\ requests[q].rubric \in Rubrics
      /\ requests[q].todo \in SUBSET Assignments /\ HoldsByPhase(q)
  BY RequestFields DEF LockRubric, LockNextAssignment, Is, Rows, OrderInv
\* What is known of the request after it has changed its phase or what is to do.
<1>1. ASSUME NEW todo \in SUBSET Assignments,
             requests' = [requests EXCEPT ![q].phase = "rubric", ![q].todo = todo]
                \/ (requests[q].phase = "rubric" /\ requests' = [requests EXCEPT ![q].todo = todo])
      PROVE  /\ requests'[q] # Idle /\ requests'[q].op = "CRITERION"
             /\ requests'[q].phase = "rubric" /\ requests'[q].todo = todo
             /\ \A p \in Requests \ {q} : requests'[p] = requests[p]
  <2> DEFINE mid == [requests[q] EXCEPT !.phase = "rubric"]
  <2>1. mid \in Request /\ mid.op = "CRITERION" /\ mid.phase = "rubric"
    BY <1>0 DEF Request
  <2>2. /\ \A p \in Requests \ {q} : requests'[p] = requests[p]
        /\ requests'[q] = [mid EXCEPT !.todo = todo]
           \/ (requests[q].phase = "rubric" /\ requests'[q] = [requests[q] EXCEPT !.todo = todo])
    BY <1>1 DEF Rows
  <2> HIDE DEF mid
  <2>3. requests'[q] \in Request /\ requests'[q].op = "CRITERION"
        /\ requests'[q].phase = "rubric" /\ requests'[q].todo = todo
    BY <1>0, <2>1, <2>2 DEF Request
  <2> QED BY <2>2, <2>3, IdleIsNoRequest
<1>2. CASE LockRubric(q)
  <2> DEFINE r == requests[q].rubric
             found == {a \in Assignments : status[a] # "NONE" /\ rubric[a] = r}
  <2>1. /\ requests[q].phase = "loaded"
        /\ rubricLock' = [rubricLock EXCEPT ![r] = q]
        /\ requests' = [requests EXCEPT ![q].phase = "rubric", ![q].todo = found]
        /\ UNCHANGED <<rowLock, assignmentLock>>
    BY <1>2 DEF LockRubric, Is
  <2>2. found \in SUBSET Assignments
    OBVIOUS
  <2> HIDE DEF found
  <2>3. /\ requests'[q] # Idle /\ requests'[q].op = "CRITERION"
        /\ requests'[q].phase = "rubric"
        /\ \A p \in Requests \ {q} : requests'[p] = requests[p]
    BY <1>1, <2>1, <2>2
  <2>4. \A s \in Rubrics : rubricLock'[s] = rubricLock[s] \/ rubricLock'[s] \in {Free, q}
    BY <1>0, <2>1 DEF TypeOK
  <2>5. HoldsByPhase(q)'
    BY <1>0, <2>1, <2>3, <2>4 DEF HoldsByPhase, Is
  <2> QED BY <2>1, <2>3, <2>4, <2>5, OwnLocksOnly
<1>3. CASE LockNextAssignment(q) /\ ~ End(q)
  <2> DEFINE next == Min(requests[q].todo)
             left == requests[q].todo \ {next}
  <2>1. /\ requests[q].phase = "rubric" /\ requests[q].todo # {}
        /\ assignmentLock' = [assignmentLock EXCEPT ![next] = q]
        /\ requests' = [requests EXCEPT ![q].todo = left]
        /\ UNCHANGED <<rowLock, rubricLock>>
    BY <1>3 DEF LockNextAssignment, Is
  <2>2. next \in requests[q].todo /\ \A b \in requests[q].todo : next <= b
    <3>1. requests[q].todo \in SUBSET Nat
      BY <1>0, RubricConstants
    <3> QED BY <2>1, <3>1, LeastOf
  <2> HIDE DEF next
  <2>3. left \in SUBSET Assignments /\ next \in Assignments
    BY <1>0, <2>2
  <2>4. \A b \in left : b \in requests[q].todo /\ next < b
    <3>1. ASSUME NEW b \in left PROVE b \in requests[q].todo /\ next < b
      <4>1. b \in requests[q].todo /\ b # next
        OBVIOUS
      <4>2. b \in Nat /\ next \in Nat /\ next <= b
        BY <1>0, <2>2, <2>3, <4>1, RubricConstants
      <4> HIDE DEF left
      <4> QED BY <4>1, <4>2
    <3> QED BY <3>1
  <2> HIDE DEF left
  <2>5. /\ requests'[q] # Idle /\ requests'[q].op = "CRITERION"
        /\ requests'[q].phase = "rubric" /\ requests'[q].todo = left
        /\ \A p \in Requests \ {q} : requests'[p] = requests[p]
    BY <1>1, <2>1, <2>3
  <2>6. \A a \in Assignments :
           IF a = next THEN assignmentLock'[a] = q ELSE assignmentLock'[a] = assignmentLock[a]
    BY <1>0, <2>1 DEF TypeOK
  <2>7. ASSUME NEW a \in Assignments, assignmentLock'[a] = q
        PROVE  \A b \in left : a < b
    BY <1>0, <2>4, <2>6, <2>7 DEF HoldsByPhase
  <2>8. HoldsByPhase(q)'
    BY <1>0, <2>1, <2>5, <2>7 DEF HoldsByPhase, Is
  <2> QED BY <2>1, <2>5, <2>6, <2>8, OwnLocksOnly
<1>4. CASE End(q)
  BY <1>4, OrderAfterEnd
<1> QED BY <1>2, <1>3, <1>4

\* The order of the locks: who holds one holds it in the phase that the order allows.
THEOREM LockOrder == Spec => []OrderInv
<1>1. Init => OrderInv
  <2> SUFFICES ASSUME Init, NEW q \in Requests PROVE HoldsByPhase(q)
    BY DEF OrderInv
  <2>1. Free # q
    BY RubricConstants
  <2> QED BY <2>1 DEF Init, HoldsByPhase
<1>2. FreezeInv /\ OrderInv /\ [Next]_vars => OrderInv'
  <2> SUFFICES ASSUME FreezeInv, OrderInv, [Next]_vars
               PROVE  OrderInv'
    OBVIOUS
  <2>0. Rows
    BY DEF FreezeInv
  <2>1. ASSUME UNCHANGED <<requests, locks>> PROVE OrderInv'
    BY <2>1 DEF locks, OrderInv, HoldsByPhase, Is
  <2>2. ASSUME NEW q \in Requests, End(q) PROVE OrderInv'
    BY <2>0, <2>2, OrderAfterEnd
  <2>3. ASSUME NEW q \in Requests, Progress(q) PROVE OrderInv'
    <3>1. CASE End(q)
      BY <2>2, <3>1
    <3>2. CASE ~ End(q)
      <4>1. \/ Total(q) \/ LockRow(q) \/ LockNewRubric(q) \/ LockRubric(q)
            \/ LockNextAssignment(q)
        BY <2>3, <3>2 DEF Progress, Publish, Close, Delete, Write, Edit, Submit, ChangeCriterion
      <4> QED BY <2>0, <4>1, OrderOfEdits, OrderOfTotals, OrderOfCriteria
    <3> QED BY <3>1, <3>2
  <2>4. ASSUME NEW a \in Assignments, NEW r \in Rubrics, Create(a, r) PROVE OrderInv'
    BY <2>1, <2>4 DEF Create
  <2>5. ASSUME NEW q \in Requests, Rollback(q) PROVE OrderInv'
    BY <2>2, <2>5 DEF Rollback
  <2>6. CASE UNCHANGED vars
    BY <2>1, <2>6 DEF vars
  <2> QED BY <2>0, <2>3, <2>4, <2>5, <2>6, OrderAfterBegin DEF Next
<1> QED BY <1>1, <1>2, FreezeInvariant, PTL DEF Spec

\* By the order of the locks, a circle would need ever later assignments.
LEMMA NoCircle ==
    ASSUME Rows, OrderInv
    PROVE  NobodyWaitsInACircle
<1> SUFFICES ASSUME NEW circle \in SUBSET Requests, circle # {},
                    \A q \in circle : \E p \in circle : WaitsFor(q, p)
             PROVE  FALSE
  BY DEF NobodyWaitsInACircle
<1> DEFINE Taken == {a \in Assignments : assignmentLock[a] \in circle}
           Later(a) == {b \in Assignments : a < b}
<1>1. \A q \in circle : q \in Requests /\ HoldsByPhase(q)
  BY DEF OrderInv
<1>2. ASSUME NEW q \in circle, Is(q, "CRITERION", "rubric")
      PROVE  \E b \in requests[q].todo : b \in Taken
  <2>1. PICK p \in circle : WaitsFor(q, p)
    OBVIOUS
  <2>2. requests[q].todo # {} /\ assignmentLock[Min(requests[q].todo)] = p
    BY <1>2, <2>1 DEF WaitsFor, Is
  <2>3. requests[q].todo \in SUBSET Assignments
    BY <1>1, <1>2, RequestFields DEF Is
  <2>4. Min(requests[q].todo) \in requests[q].todo
    BY <2>2, <2>3, RubricConstants, LeastOf
  <2> QED BY <2>2, <2>3, <2>4
<1>3. ASSUME NEW a \in Taken PROVE \E b \in Taken : a < b
  <2>1. PICK q \in circle : assignmentLock[a] = q
    OBVIOUS
  <2>2. Is(q, "CRITERION", "rubric") /\ \A b \in requests[q].todo : a < b
    BY <1>1, <2>1 DEF HoldsByPhase
  <2> QED BY <1>2, <2>2
<1>4. Taken # {}
  <2>1. ASSUME NEW q \in circle,
               \/ Is(q, "EDIT", "rubric") \/ Is(q, "SUBMIT", "row")
               \/ Is(q, "CRITERION", "rubric")
        PROVE  Taken # {}
    <3>1. CASE Is(q, "CRITERION", "rubric")
      BY <1>2, <3>1
    <3>2. CASE Is(q, "EDIT", "rubric") \/ Is(q, "SUBMIT", "row")
      <4>1. PICK p \in circle : WaitsFor(q, p)
        OBVIOUS
      <4>2. assignmentLock[requests[q].assignment] = p
        BY <3>2, <4>1 DEF WaitsFor, Is
      <4>3. requests[q].assignment \in Assignments
        BY <1>1, <3>2, RequestFields DEF Is
      <4> QED BY <4>2, <4>3
    <3> QED BY <2>1, <3>1, <3>2
  <2>2. ASSUME NEW q \in circle, Is(q, "EDIT", "row") \/ Is(q, "CRITERION", "loaded")
        PROVE  Taken # {}
    <3>1. PICK p \in circle : WaitsFor(q, p)
      OBVIOUS
    <3>2. rubricLock[requests[q].rubric] = p
      BY <2>2, <3>1 DEF WaitsFor, Is
    <3>3. requests[q].rubric \in Rubrics
      BY <1>1, <2>2, RequestFields DEF Is
    <3>4. Is(p, "EDIT", "rubric") \/ Is(p, "CRITERION", "rubric")
      BY <1>1, <3>2, <3>3 DEF HoldsByPhase
    <3> QED BY <2>1, <3>4
  <2>3. PICK q \in circle, p \in circle : WaitsFor(q, p)
    OBVIOUS
  <2>4. CASE \/ Is(q, "EDIT", "row") \/ Is(q, "CRITERION", "loaded")
             \/ Is(q, "EDIT", "rubric") \/ Is(q, "SUBMIT", "row")
             \/ Is(q, "CRITERION", "rubric")
    BY <2>1, <2>2, <2>4
  <2>5. CASE \/ Is(q, "PUBLISH", "summed") \/ Is(q, "CLOSE", "loaded")
             \/ Is(q, "DELETE", "loaded") \/ Is(q, "EDIT", "loaded")
    <3>1. rowLock[requests[q].assignment] = p
      BY <2>3, <2>5 DEF WaitsFor, Is
    <3>2. requests[q].assignment \in Assignments
      BY <1>1, <2>5, RequestFields DEF Is
    <3>3. Is(p, "EDIT", "row") \/ Is(p, "EDIT", "rubric") \/ Is(p, "SUBMIT", "row")
      BY <1>1, <3>1, <3>2 DEF HoldsByPhase
    <3> QED BY <2>1, <2>2, <3>3
  <2> QED BY <2>3, <2>4, <2>5 DEF WaitsFor
<1> HIDE DEF Taken
<1>5. Taken \in SUBSET Assignments /\ Assignments \in SUBSET Nat /\ IsFiniteSet(Assignments)
  BY RubricConstants DEF Taken
<1>6. \A a \in Assignments : IsFiniteSet(Later(a)) /\ Cardinality(Later(a)) \in Nat
  BY <1>5, FS_Subset, FS_CardinalityType
<1> DEFINE Sizes == {n \in Nat : \E a \in Taken : n = Cardinality(Later(a))}
<1>7. PICK m \in Sizes : \A l \in Sizes : m <= l
  <2>1. PICK a \in Taken : TRUE
    BY <1>4
  <2>2. Cardinality(Later(a)) \in Sizes
    BY <1>5, <1>6
  <2>3. Sizes \in SUBSET Nat /\ Sizes # {}
    BY <2>2
  <2> HIDE DEF Sizes
  <2> QED BY <2>3, LeastOf
<1>8. PICK a \in Taken : m = Cardinality(Later(a))
  OBVIOUS
<1>9. PICK b \in Taken : a < b
  BY <1>3
<1>10. Cardinality(Later(b)) < Cardinality(Later(a))
  <2>1. a \in Nat /\ b \in Nat /\ b \in Assignments
    BY <1>5
  <2>2. \A x \in Assignments : b < x => a < x
    BY <1>5, <1>9, <2>1
  <2>3. Later(b) \in SUBSET Later(a) /\ b \in Later(a) /\ b \notin Later(b)
    <3>1. ~ (b < b)
      BY <2>1
    <3> QED BY <1>9, <2>1, <2>2, <3>1
  <2>4. Later(b) # Later(a)
    BY <2>3
  <2>5. Cardinality(Later(b)) <= Cardinality(Later(a))
        /\ Cardinality(Later(b)) # Cardinality(Later(a))
    BY <1>5, <1>6, <2>3, <2>4, FS_Subset
  <2> HIDE DEF Later
  <2> QED BY <1>5, <1>6, <2>5
<1>11. Cardinality(Later(b)) \in Sizes
  BY <1>5, <1>6
<1> HIDE DEF Later, Sizes
<1> QED BY <1>5, <1>6, <1>7, <1>8, <1>10, <1>11

\* Requests never wait for each other in a circle, however many there are and
\* whatever they had loaded (the canonical lock order of migration 0002).
THEOREM RequestsAreOrdered == Spec => []NobodyWaitsInACircle
<1>1. FreezeInv /\ OrderInv => NobodyWaitsInACircle
  BY NoCircle DEF FreezeInv
<1> QED BY <1>1, FreezeInvariant, LockOrder, PTL
===============================================================================
