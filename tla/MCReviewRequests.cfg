SPECIFICATION Spec
CONSTANTS
    alice = alice
    bob = bob
    here = here
    q1 = q1
    q2 = q2
    resolved = resolved
    rejected = rejected
    Answers <- BothAnswers
    Idle = Idle
    Users <- TwoUsers
    Enrolled <- TwoUsers
    Student = alice
    Addresses <- OneAddress
    Requests <- TwoRequests
    MaxCodes = 1
    MaxResults = 2
    MaxAsks = 2
CONSTRAINT OnePartAtATime
SYMMETRY RequestSymmetry
INVARIANTS
    RolesBackTheCourse
    OnlyAccountsAreInCircles
PROPERTIES
    ArchivedCourseIsReadOnly
    DeletionLosesNothing
    RevokedCodeAdmitsNobody
    RequestsAreInOrder
