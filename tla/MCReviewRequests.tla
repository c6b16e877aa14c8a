--------------------------- MODULE MCReviewRequests ---------------------------
(* Small instances of ReviewRequests, with the course below it. *)
EXTENDS ReviewRequests, TLC

CONSTANTS alice, bob, here, q1, q2, resolved, rejected

TwoUsers == {alice, bob}
OneAddress == {here}
TwoRequests == {q1, q2}

BothAnswers == {resolved, rejected}

\* Bounds: no join code in a course with results, and neither these nor other records
\* once the teacher is a student as well. What the parts have in common, the row of
\* the course and the memberships, is in each of them.
OnePartAtATime ==
    /\ codes = <<>> \/ result = 0
    /\ roles[bob] = {"TEACHER"} \/ (records = {} /\ result = 0)

RequestSymmetry == {r @@ a : r \in Permutations(Requests), a \in Permutations(Answers)}
===============================================================================
