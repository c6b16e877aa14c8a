SPECIFICATION Spec
CONSTANTS
    r1 = r1
    r2 = r2
    c1 = c1
    c2 = c2
    q1 = q1
    q2 = q2
    q3 = q3
    Free = Free
    Idle = Idle
    Assignments <- TwoAssignments
    Rubrics <- TwoRubrics
    Criteria <- TwoCriteria
    Requests <- TwoRequests
    Full = 1
SYMMETRY Symmetry
INVARIANTS
    RequestsDoNotBlockEachOther
PROPERTIES
    FrozenByFirstSubmission
