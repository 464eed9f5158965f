CONSTANTS
    j1 = j1
    j2 = j2
    j3 = j3
    w1 = w1
    w2 = w2
    c1 = c1
    c2 = c2
    NoJob = NoJob
    NoWorker = NoWorker
    NoRow = NoRow
    Job <- TwoJobs
    Worker <- TwoWorkers
    Client <- OneClient
    Lane <- AllLanes
    Handled <- TwoJobs
    MaxAttempts = 1
    MaxRetries = 1
    Env <- Everything
SPECIFICATION FairSpec
PROPERTIES
    Settles
