CONSTANTS
    j1 = j1
    j2 = j2
    j3 = j3
    w1 = w1
    w2 = w2
    c1 = c1
    c2 = c2
    NoJob = NoJob
    NoWorker = NoWorker
    NoRow = NoRow
    Job <- ThreeJobs
    Worker <- TwoWorkers
    Client <- OneClient
    Lane <- SplitLanes
    Handled <- TwoJobs
    MaxAttempts = 2
    MaxRetries = 1
    Env <- CrashOnly
SPECIFICATION Spec
INVARIANTS
    OneRunner
    AttemptsBounded
PROPERTIES
    SucceededIsFinal
    ImplementsContract
