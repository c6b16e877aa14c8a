SPECIFICATION Spec
CONSTANTS
    j1 = j1
    j2 = j2
    w1 = w1
    w2 = w2
    w3 = w3
    NoJob = NoJob
    MaxAttempts = 3
    Jobs <- OneJob
    Workers <- ThreeWorkers
    MaxMessages = 2
    MaxCrashes = 1
    Faults <- AllFaults
SYMMETRY WorkerSymmetry
CHECK_DEADLOCK FALSE
INVARIANTS
    TypeOK
    OneWorkerPerAttempt
    ResultOfLastAttempt
PROPERTIES
    NoStaleOverwrite
    StampPinsAttempt
    ImplementsLifecycle
