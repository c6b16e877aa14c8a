---------------------------- MODULE MCRubricFreeze ----------------------------
(* Small instances of RubricFreeze. *)
EXTENDS RubricFreeze, TLC

CONSTANTS r1, r2, c1, c2, q1, q2, q3

TwoAssignments == {1, 2}
TwoRubrics == {r1, r2}
TwoCriteria == {c1, c2}
TwoRequests == {q1, q2}

Symmetry == Permutations(Requests) \union Permutations(Rubrics) \union Permutations(Criteria)
===============================================================================
