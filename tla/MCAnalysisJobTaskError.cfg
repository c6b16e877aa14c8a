SPECIFICATION FairSpec
CONSTANTS
    j1 = j1
    j2 = j2
    w1 = w1
    w2 = w2
    w3 = w3
    NoJob = NoJob
    MaxAttempts = 3
    Jobs <- OneJob
    Workers <- TwoWorkers
    MaxMessages = 1
    MaxCrashes = 0
    Faults <- TaskErrors
CHECK_DEADLOCK FALSE
PROPERTY StaleJobReclaimed
