SPECIFICATION Spec
CONSTANTS
    w1 = w1
    w2 = w2
    ann = ann
    ben = ben
    NoAuthor = NoAuthor
    Works <- TwoWorks
    AuthorYear <- OneByEach
    MaxReferences = 3
    MaxMentions = 3
    Documents <- SmallDocuments
    Criteria = {citations}
    Semantic = semantic
    Answers <- TwoAnswers
    MaxFindings = 4
    MaxAnchors = 2
    MaxAttempts = 2
    P = P
    Q = Q
    k1 = k1
    k2 = k2
    a1 = a1
    a2 = a2
    d1 = d1
    p1 = p1
    p2 = p2
    x1 = x1
    x2 = x2
    c1 = c1
    c2 = c2
    c3 = c3
    r1 = r1
    r2 = r2
    Providers <- TwoProviders
    Keys <- TwoKeys
    Admins <- TwoAdmins
    Jobs = {j1}
    MaxChanges = 3
    Bedrock = Q
    Role = Role
    NoKey = NoKey
    Idle = Idle
    NoRoute = NoRoute
    Printed = {d1}
    Plain <- TwoPlain
    ArxivIds <- TwoArxivIds
    BatchSize = 1
    MaxSingles = 1
    Lookups = 2
    MaxSearches = 1
    MaxFailures = 1
    Interval <- SlowOpenAlex
    Timeout = 1
    Deadline = 4
    RetryAfter = {0}
    FirstSlots = {0, 1}
    Claims <- ThreeClaims
    Cited <- TwoCitedOnce
    Evaluations = 2
    CallBudget = 2
    FetchBudget = 1
    MaxCopies = 2
    Nothing = Nothing
SYMMETRY EvaluationSymmetry
CHECK_DEADLOCK FALSE
INVARIANTS
    KeysAreVerified
    VerdictsAreFounded
    
    ErrorsAreCertain
    ReportIsComplete
PROPERTIES
    LookupKeepsItsLimits
