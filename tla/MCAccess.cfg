SPECIFICATION Spec
CONSTANTS
    ann = ann
    ben = ben
    p1 = p1
    p2 = p2
    q1 = q1
    q2 = q2
    c1 = c1
    c2 = c2
    a1 = a1
    a2 = a2
    i1 = i1
    i2 = i2
    j1 = j1
    j2 = j2
    Users <- AnnAndBen
    Founder = ann
    Passwords <- TwoPasswords
    Requests <- TwoRequests
    MaxSessions = 2
    MaxRevision = 2
    Idle = Idle
    Clients <- TwoClients
    Attempts <- TwoAttempts
    MaxTracked = 1
    Slots = 1
    ClientLimit = 2
    FailureLimit = 3
    Window = 3
    Lockout = 3
    MaxClock = 4
    NoAttempt = NoAttempt
    Joiners <- AnnAndBen
    Addresses <- TwoAddresses
    Origins <- EachFromItsOwn
    Joins <- TwoJoins
    JoinsLimit = 1
    JoinWindow = 2
    MaxTime = 4
    MaxJoins = 3
    MaxCount = 1
    NoRow = NoRow
    NoJoin = NoJoin
SYMMETRY AccessSymmetry
INVARIANTS
    ActiveAdminRemains
    GuessesAreLimited
    ThrottleIsFair
    JoinsAreLimited
PROPERTIES
    SessionsFollowTheAccount
